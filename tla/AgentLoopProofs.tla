-------------------------- MODULE AgentLoopProofs --------------------------
(***************************************************************************)
(* The safety properties of AgentLoop and LegacyOrchestrator, proved for   *)
(* plans of every size, any retry limit, threshold, past and part of it    *)
(* that is in sight.                                                       *)
(*                                                                         *)
(* The inductive invariant says what the attempts of a step leave behind:  *)
(* each earlier one a prefix of its records that is never all of them, the *)
(* one under way as many of them as it has written.                        *)
(***************************************************************************)
EXTENDS LegacyOrchestrator, FiniteSetTheorems, SequenceTheorems, WellFoundedInduction, TLAPS

Targets == {"policy_violation_guard", "retry_limit", "policy_gate"}

Places == {"inject", "start", "operation", "improve", "returned", "raised"}

Streams == {"task", "failure", "execution", "decision"}

Abouts == {"feedback", "task", "record", "summary", "run", "improvement", "injected"}

Whats ==
    {"completed", "failed", "skipped", "success", "partial", "failure", "none", "partial_match",
     "execution_failure", "dependency_skip", "applied"} \cup Targets

Records == [stream : Streams, about : Abouts, task : 0..N, what : Whats]

States == [step : 1..4, status : {"STARTED", "SUCCESS", "FAILED", "RETRY"}, attempt : Nat]

LoopTypeOK ==
    /\ injected \in BOOLEAN /\ prior \in Seq(PastRecords)
    /\ pc \in Places /\ step \in 1..4 /\ attempt \in 1..MaxAttempts /\ written \in Nat
    /\ report \in [Tasks -> {"completed", "failed", "skipped"}]
    /\ approved \in Seq(Targets) /\ stored \in Seq(Records) /\ history \in Seq(States)

-----------------------------------------------------------------------------
\* The step under way has not begun its attempt, or is past it.
Waiting == pc \in {"inject", "start"}

Begun(s) == step > s \/ (step = s /\ ~Waiting)

AttemptsInv ==
    \A s \in 1..4 :
       /\ Attempts(s) <= MaxAttempts
       /\ step < s => Attempts(s) = 0
       /\ step = s => Attempts(s) <= attempt /\ (Waiting => Attempts(s) <= attempt - 1)

\* How many of the n records of step s the last attempt of it has written.
Now(s, n) == IF step > s THEN n ELSE IF Begun(s) THEN written ELSE 0

\* How often the attempts before that have written the i-th of the records R.
Earlier(s, R, i) == Copies(R[i]) - IF i <= Now(s, Len(R)) THEN 1 ELSE 0

CopiesInv(s, R) ==
    \A i \in 1..Len(R) :
       /\ Earlier(s, R, i) >= 0
       /\ Earlier(s, R, i) <= Attempts(s) - IF Begun(s) THEN 1 ELSE 0
       /\ i > 1 => Earlier(s, R, i) <= Earlier(s, R, i - 1)
       /\ i = Len(R) => Earlier(s, R, i) = 0

WrittenInv(s, R) ==
    /\ step = s /\ ~Waiting => written <= Len(R)
    /\ step = s /\ pc \in {"improve", "returned"} => written = Len(R)

\* Where a record of the run comes from.
Comes(r, F, P) ==
    \/ r = Record("decision", "injected", "applied")
    \/ step >= 3 /\ \E j \in 1..Len(F) : r = F[j]
    \/ step = 4 /\ \E j \in 1..Len(P) : r = P[j]
    \/ step = 4 /\ pc \in {"improve", "returned", "raised"} /\ \E t \in Targets : r = Improvement(t)

\* The records P stand at the end of the first n records of the run.
EndsWith(n, P, w) == n >= w /\ \A i \in 1..w : stored[n - w + i] = P[i]

AccountInv(P) ==
    /\ step = 4 /\ pc = "operation" => EndsWith(Len(stored), P, written)
    /\ pc \in {"improve", "returned"} \/ (\E i \in 1..Len(stored) : stored[i].about = "improvement") =>
          \E n \in 0..Len(stored) :
             /\ EndsWith(n, P, Len(P))
             /\ \A i \in 1..Len(stored) : stored[i].about = "improvement" <=> i > n

\* Two successes more leave this part of the past under the rate.
Under(places) ==
    10 * (Cardinality(Successes(prior, places)) + 2)
      < 8 * (Cardinality(Executions(prior, places)) + 2)

Recent == {i \in 1..Len(prior) : i + Limit > Len(prior)}

Earned(target) ==
    /\ target = "retry_limit" => Status # "success" \/ \E from \in Horizons : Under(from..Len(prior))
    /\ target = "policy_gate" => Status # "success" \/ Failures(prior, Recent) # {}
    /\ target = "policy_violation_guard" => Violations(prior, Recent) # {}

\* No improvement is there twice.
Single(q) == \A j, k \in 1..Len(q) : q[j].about = "improvement" /\ q[j] = q[k] => j = k

ImproveInv ==
    /\ pc \in {"inject", "start", "operation"} => approved = <<>>
    /\ \A i \in 1..Len(approved) :
          Earned(approved[i]) /\ \A j \in 1..Len(stored) : stored[j] # Improvement(approved[i])
    /\ \A i, j \in 1..Len(approved) : approved[i] = approved[j] => i = j
    /\ \A t \in Targets, j \in 1..Len(stored) : stored[j] = Improvement(t) => Earned(t)
    /\ Single(stored)

PlaceInv ==
    /\ pc = "inject" => step = 1
    /\ pc \in {"improve", "returned"} => step = 4
    /\ pc = "operation" /\ step < 3 => written = 0

RecordsInv(F, P) ==
    /\ \A i \in 1..Len(stored) : Comes(stored[i], F, P)
    /\ CopiesInv(3, F) /\ CopiesInv(4, P)
    /\ WrittenInv(3, F) /\ WrittenInv(4, P)
    /\ AccountInv(P)

LoopInv ==
    /\ LoopTypeOK /\ PlaceInv /\ AttemptsInv /\ ImproveInv
    /\ \A F \in {FeedbackRecords}, P \in {PersistedRecords} : RecordsInv(F, P)

-----------------------------------------------------------------------------
LegacyTypeOK ==
    /\ stage \in {"none", "planning", "execution", "memory_store", "reflection", "improvement", "ended"}
    /\ status \in {"running", "success", "partial", "failed"}
    /\ executed \in {"none", "success", "failed"}
    /\ refs \in Seq({"execution", "failure"})
    /\ errors \in SUBSET {"planning", "execution", "memory_store", "reflection", "improvement"}

\* The loop is not called before the reflection stage, and has ended behind it.
LoopIsCalled ==
    /\ stage \in {"planning", "execution", "memory_store"} =>
          pc = "start" /\ step = 1 /\ stored = <<>> /\ approved = <<>>
    /\ stage = "improvement" => pc \in {"returned", "raised"}
    /\ stage = "ended" /\ executed # "none" => pc \in {"returned", "raised"}

RefsInv ==
    /\ \/ refs = <<>>
       \/ refs = <<"execution">>
       \/ refs = <<"execution", "failure">> /\ executed = "failed"
    /\ executed # "none" /\ stage \notin {"none", "planning", "execution", "memory_store"}
          /\ "memory_store" \notin errors =>
          refs = <<"execution">> \o IF executed = "failed" THEN <<"failure">> ELSE <<>>
    /\ stage \in {"none", "planning", "execution"} => refs = <<>>

\* The records that refs names are the last ones of the past.
RememberedInv ==
    /\ Len(refs) <= Len(prior)
    /\ \A i \in 1..Len(refs) : prior[Len(prior) - Len(refs) + i] = Told(refs[i])

StageInv ==
    /\ stage = "none" => status = "running"
    /\ stage = "planning" => status = "running" /\ errors = {} /\ executed = "none"
    /\ stage = "execution" => status = "running" /\ errors = {} /\ executed = "none"
    /\ stage \in {"none", "planning", "execution"} => executed = "none"
    /\ stage \in {"memory_store", "reflection", "improvement"} => executed # "none"
    /\ stage = "memory_store" => errors \subseteq {"execution"}
    /\ stage = "reflection" => errors \subseteq {"execution", "memory_store"}
    /\ stage = "improvement" => errors \subseteq {"execution", "memory_store", "reflection"}
    /\ "execution" \in errors => executed = "failed"
    /\ stage \in {"memory_store", "reflection"} =>
          status = (IF executed = "failed" THEN "failed" ELSE "running")
    /\ executed = "failed" => status = "failed"

Clean == errors \subseteq {"memory_store"} /\ executed = "success"

OutcomeInv ==
    /\ stage = "improvement" =>
          /\ "reflection" \in errors <=> pc = "raised"
          /\ status = IF executed = "failed" \/ pc = "raised" \/ Status = "failure" THEN "failed"
                      ELSE IF Status = "partial" THEN "partial" ELSE "running"
    /\ stage = "ended" =>
          /\ status \in {"success", "partial", "failed"}
          /\ Clean => pc = "returned"
          /\ status = "success" <=> Clean /\ Status = "success"
          /\ status = "partial" => Clean /\ Status = "partial"

LegacyInv ==
    /\ LoopInv /\ LegacyTypeOK /\ LoopIsCalled
    /\ RefsInv /\ RememberedInv /\ StageInv /\ OutcomeInv

-----------------------------------------------------------------------------
(***************************************************************************)
(* Sequences: counting, and what FlattenSeq is.                            *)
(***************************************************************************)
LEMMA MinIsLeast ==
    ASSUME NEW S \in SUBSET Nat, S # {}
    PROVE  Min(S) \in S /\ \A y \in S : Min(S) <= y
  <1>1. PICK R : IsWellFoundedOn(R, Nat) /\ \A x, y \in Nat : x < y => <<x, y>> \in R
    <2>1. \A x, y \in Nat : x < y => <<x, y>> \in OpToRel(<, Nat)
      BY Zenon DEF OpToRel
    <2> QED
      BY <2>1, NatLessThanWellFounded, Zenon
  <1>2. PICK x \in S : \A y \in S : ~(<<y, x>> \in R)
    <2>1. IsWellFoundedOn(R, Nat) /\ S \subseteq Nat /\ S # {}
      BY <1>1
    <2> QED
      BY <2>1, WFMin, Zenon
  <1>3. x \in Nat /\ \A y \in S : y \in Nat /\ ~(y < x)
    BY <1>1, <1>2
  <1>4. \A y \in S : x <= y
    BY <1>3
  <1> QED
    BY <1>4 DEF Min

IsFlattening(f, gs, n) ==
    f = [i \in 1..n |-> IF i = 1 THEN gs[i] ELSE f[i - 1] \o gs[i]]

LEMMA LeastNumber ==
    ASSUME NEW B \in SUBSET Nat, NEW n \in B
    PROVE  \E m \in B : \A y \in B : m <= y
  BY MinIsLeast

LEMMA FlatteningExists ==
    ASSUME NEW gs, NEW n \in Nat
    PROVE  \E f : IsFlattening(f, gs, n)
  <1> DEFINE B == {k \in Nat : ~\E f : IsFlattening(f, gs, k)}
  <1> SUFFICES ASSUME n \in B
               PROVE  FALSE
    OBVIOUS
  <1>1. PICK m \in B : \A y \in B : m <= y
    BY LeastNumber
  <1>2. m # 0
    <2> DEFINE f == [i \in 1..0 |-> gs[i]]
    <2>1. IsFlattening(f, gs, 0)
      BY DEF IsFlattening
    <2> QED
      BY <2>1
  <1>3. m - 1 \in Nat /\ m - 1 \notin B
    BY <1>1, <1>2
  <1>4. PICK f : IsFlattening(f, gs, m - 1)
    BY <1>3
  <1> DEFINE g == [i \in 1..m |-> IF i = m
                                     THEN IF i = 1 THEN gs[i] ELSE f[i - 1] \o gs[i]
                                     ELSE f[i]]
  <1>5. IsFlattening(g, gs, m)
    <2>1. \A i \in 1..m : i # 1 => i - 1 \in 1..m /\ i - 1 # m /\ g[i - 1] = f[i - 1]
      BY <1>1
    <2>2. \A i \in 1..m : i # m => i \in 1..(m - 1) /\ g[i] = f[i]
      BY <1>1
    <2>3. \A i \in 1..(m - 1) : f[i] = IF i = 1 THEN gs[i] ELSE f[i - 1] \o gs[i]
      BY <1>4 DEF IsFlattening
    <2>4. \A i \in 1..m : g[i] = IF i = 1 THEN gs[i] ELSE g[i - 1] \o gs[i]
      BY <2>1, <2>2, <2>3
    <2>5. g = [i \in 1..m |-> g[i]]
      OBVIOUS
    <2> HIDE DEF g
    <2>6. g = [i \in 1..m |-> IF i = 1 THEN gs[i] ELSE g[i - 1] \o gs[i]]
      BY <2>4, <2>5
    <2> QED
      BY <2>6 DEF IsFlattening
  <1> QED
    BY <1>1, <1>5

LEMMA FlattenIs ==
    ASSUME NEW T, NEW gs \in Seq(T), gs # <<>>
    PROVE  \E f : IsFlattening(f, gs, Len(gs)) /\ FlattenSeq(gs) = f[Len(gs)]
  <1> DEFINE f == CHOOSE flatten : IsFlattening(flatten, gs, Len(gs))
  <1>1. Len(gs) \in Nat /\ Len(gs) # 0
    BY EmptySeq
  <1>2. IsFlattening(f, gs, Len(gs))
    BY <1>1, FlatteningExists
  <1>3. FlattenSeq(gs) = f[Len(gs)]
    BY <1>1 DEF FlattenSeq, IsFlattening
  <1> QED
    BY <1>2, <1>3

LEMMA AppendIs ==
    ASSUME NEW T, NEW q \in Seq(T), NEW x \in T
    PROVE  /\ Append(q, x) \in Seq(T) /\ Len(Append(q, x)) = Len(q) + 1 /\ Len(q) \in Nat
           /\ \A i \in 1..Len(q) : i \in 1..(Len(q) + 1) /\ Append(q, x)[i] = q[i]
           /\ Len(q) + 1 \in 1..(Len(q) + 1) /\ Append(q, x)[Len(q) + 1] = x
           /\ \A i \in 1..(Len(q) + 1) : i \in 1..Len(q) \/ i = Len(q) + 1
  <1>1. /\ Append(q, x) \in Seq(T) /\ Len(Append(q, x)) = Len(q) + 1
        /\ \A i \in 1..Len(q) : Append(q, x)[i] = q[i]
        /\ Append(q, x)[Len(q) + 1] = x
    BY AppendProperties
  <1>2. Len(q) \in Nat
    OBVIOUS
  <1> QED
    BY <1>1, <1>2

Where(q, V) == {i \in 1..Len(q) : q[i] \in V}

LEMMA CountOf ==
    ASSUME NEW T, NEW q \in Seq(T), NEW V
    PROVE  IsFiniteSet(Where(q, V)) /\ Cardinality(Where(q, V)) \in Nat
  <1>1. 1 \in Int /\ Len(q) \in Int
    OBVIOUS
  <1>2. IsFiniteSet(1..Len(q))
    BY <1>1, FS_Interval
  <1>3. Where(q, V) \in SUBSET (1..Len(q))
    BY DEF Where
  <1> QED
    BY <1>2, <1>3, FS_Subset, FS_CardinalityType

LEMMA CountOfAppend ==
    ASSUME NEW T, NEW q \in Seq(T), NEW x \in T, NEW V
    PROVE  Cardinality(Where(Append(q, x), V)) =
              Cardinality(Where(q, V)) + IF x \in V THEN 1 ELSE 0
  <1> DEFINE n == Len(q) + 1
  <1>1. IsFiniteSet(Where(q, V)) /\ n \notin Where(q, V)
    <2>1. IsFiniteSet(Where(q, V))
      BY CountOf
    <2>2. Len(q) \in Nat
      OBVIOUS
    <2>3. n \notin Where(q, V)
      BY <2>2 DEF Where
    <2> QED
      BY <2>1, <2>3
  <1>2. Where(Append(q, x), V) = IF x \in V THEN Where(q, V) \cup {n} ELSE Where(q, V)
    BY AppendIs DEF Where
  <1>3. Cardinality(Where(q, V) \cup {n}) = Cardinality(Where(q, V)) + 1
    BY <1>1, FS_AddElement
  <1>4. Cardinality(Where(q, V)) \in Nat
    BY CountOf
  <1> QED
    BY <1>2, <1>3, <1>4

LEMMA CountOfTwo ==
    ASSUME NEW T, NEW q \in Seq(T), NEW x \in T, NEW y \in T, NEW V
    PROVE  Cardinality(Where(Append(Append(q, x), y), V)) =
              Cardinality(Where(q, V)) + (IF x \in V THEN 1 ELSE 0) + IF y \in V THEN 1 ELSE 0
  <1> DEFINE m == Append(q, x)
  <1>1. m \in Seq(T)
    BY AppendIs
  <1>2. Cardinality(Where(m, V)) = Cardinality(Where(q, V)) + IF x \in V THEN 1 ELSE 0
    BY CountOfAppend
  <1> HIDE DEF m
  <1>3. Cardinality(Where(Append(m, y), V)) = Cardinality(Where(m, V)) + IF y \in V THEN 1 ELSE 0
    BY <1>1, CountOfAppend
  <1> QED
    BY <1>2, <1>3 DEF m

LEMMA CopiesOf ==
    ASSUME NEW q \in Seq(Records), q = stored, NEW r
    PROVE  /\ Copies(r) = Cardinality(Where(q, {r})) /\ Copies(r) \in Nat
           /\ (\A i \in 1..Len(q) : q[i] # r) => Copies(r) = 0
           /\ \A i \in 1..Len(q) : q[i] = r => Copies(r) > 0
  <1>1. Where(q, {r}) = {i \in 1..Len(q) : q[i] = r}
    BY DEF Where
  <1>2. Copies(r) = Cardinality(Where(q, {r}))
    BY <1>1 DEF Copies
  <1>3. IsFiniteSet(Where(q, {r})) /\ Copies(r) \in Nat
    BY <1>2, CountOf
  <1>4. Copies(r) = 0 <=> Where(q, {r}) = {}
    BY <1>2, <1>3, FS_EmptySet
  <1>5. (\A i \in 1..Len(q) : q[i] # r) => Copies(r) = 0
    BY <1>1, <1>4
  <1>6. ASSUME NEW i \in 1..Len(q), q[i] = r
        PROVE  Copies(r) > 0
    <2>1. Where(q, {r}) # {}
      BY <1>1, <1>6
    <2>2. Copies(r) # 0 /\ Copies(r) \in Nat
      BY <1>3, <1>4, <2>1
    <2> QED
      BY <2>2
  <1> QED
    BY <1>2, <1>3, <1>5, <1>6

\* How the numbers of copies and of attempts change.
LEMMA CopiesStep ==
    ASSUME stored \in Seq(Records), NEW x \in Records, stored' = Append(stored, x), NEW r
    PROVE  Copies(r)' = Copies(r) + IF x = r THEN 1 ELSE 0
  <1> PICK q : q = stored
    OBVIOUS
  <1>1. Copies(r)' = Cardinality(Where(Append(q, x), {r}))
    <2>1. Where(Append(q, x), {r}) = {i \in 1..Len(stored') : stored'[i] = r}
      BY DEF Where
    <2> QED
      BY <2>1 DEF Copies
  <1>2. Cardinality(Where(Append(q, x), {r})) =
           Cardinality(Where(q, {r})) + IF x \in {r} THEN 1 ELSE 0
    BY CountOfAppend
  <1>3. Copies(r) = Cardinality(Where(q, {r}))
    BY CopiesOf
  <1> QED
    BY <1>1, <1>2, <1>3

Starts(s) == {h \in States : h.step = s /\ h.status = "STARTED"}

LEMMA AttemptsOf ==
    ASSUME NEW q \in Seq(States), q = history, NEW s
    PROVE  Attempts(s) = Cardinality(Where(q, Starts(s))) /\ Attempts(s) \in Nat
  <1>1. \A i \in 1..Len(q) : q[i] \in States
    OBVIOUS
  <1>2. Where(q, Starts(s)) = {i \in 1..Len(q) : q[i].step = s /\ q[i].status = "STARTED"}
    BY <1>1 DEF Where, Starts
  <1>3. Attempts(s) = Cardinality(Where(q, Starts(s)))
    BY <1>2 DEF Attempts
  <1> QED
    BY <1>3, CountOf

LEMMA AttemptsStep ==
    ASSUME history \in Seq(States), NEW h \in States, history' = Append(history, h), NEW s
    PROVE  Attempts(s)' = Attempts(s) + IF h.step = s /\ h.status = "STARTED" THEN 1 ELSE 0
  <1> PICK q : q = history
    OBVIOUS
  <1>1. Append(q, h) \in Seq(States) /\ \A i \in 1..Len(Append(q, h)) : Append(q, h)[i] \in States
    BY AppendIs
  <1>2. Where(Append(q, h), Starts(s)) =
           {i \in 1..Len(history') : history'[i].step = s /\ history'[i].status = "STARTED"}
    BY <1>1 DEF Where, Starts
  <1>3. Attempts(s)' = Cardinality(Where(Append(q, h), Starts(s)))
    BY <1>2 DEF Attempts
  <1>4. Cardinality(Where(Append(q, h), Starts(s))) =
           Cardinality(Where(q, Starts(s))) + IF h \in Starts(s) THEN 1 ELSE 0
    BY CountOfAppend
  <1>5. Attempts(s) = Cardinality(Where(q, Starts(s)))
    BY AttemptsOf
  <1> QED
    BY <1>3, <1>4, <1>5 DEF Starts

-----------------------------------------------------------------------------
(***************************************************************************)
(* The records of a report.                                                *)
(***************************************************************************)
Distinct(q) == \A i, j \in 1..Len(q) : q[i] = q[j] => i = j

GoodFeedback(F, st) ==
    /\ F \in Seq(Records) /\ Len(F) \in 1..2 /\ Distinct(F)
    /\ \A i \in 1..Len(F) :
          /\ F[i].about = "feedback" /\ F[i].stream \in {"decision", "failure"}
          /\ st = "success" => F[i].stream # "failure"

GoodAccount(P, st) ==
    /\ P \in Seq(Records) /\ Len(P) >= 3 /\ Distinct(P)
    /\ \A i \in 1..Len(P) :
          /\ P[i].about \in {"record", "summary", "task", "run"}
          /\ P[i].stream = "failure" => st # "success"
          /\ P[i].stream = "execution" => (st = "success" => P[i].what = "success")
    /\ st # "success" => \E i \in 1..Len(P) : P[i].stream = "failure"
    /\ P[1].stream = "execution" /\ P[2].stream = "execution"
    /\ P[Len(P)] = Record("decision", "run", st)

LEMMA OneOf ==
    ASSUME NEW T, NEW a \in T
    PROVE  /\ <<a>> \o <<>> \in Seq(T) /\ Len(<<a>> \o <<>>) = 1 /\ (<<a>> \o <<>>)[1] = a
           /\ Distinct(<<a>> \o <<>>)
  <1>1. <<a>> \in Seq(T) /\ Len(<<a>>) = 1 /\ <<a>>[1] = a
    OBVIOUS
  <1>2. <<a>> \o <<>> = <<a>>
    BY <1>1, ConcatEmptySeq
  <1>3. \A i \in 1..1 : i = 1
    OBVIOUS
  <1>4. Distinct(<<a>>)
    BY <1>1, <1>3, Zenon DEF Distinct
  <1> QED
    BY <1>1, <1>2, <1>4, Zenon

LEMMA TwoOf ==
    ASSUME NEW T, NEW a \in T, NEW b \in T, a # b
    PROVE  /\ <<a>> \o <<b>> \in Seq(T) /\ Len(<<a>> \o <<b>>) = 2
           /\ (<<a>> \o <<b>>)[1] = a /\ (<<a>> \o <<b>>)[2] = b
           /\ Distinct(<<a>> \o <<b>>)
  <1> DEFINE q == <<a>> \o <<b>>
  <1>1. <<a>> \in Seq(T) /\ Len(<<a>>) = 1 /\ <<a>>[1] = a
    OBVIOUS
  <1>2. <<b>> \in Seq(T) /\ Len(<<b>>) = 1 /\ <<b>>[1] = b
    OBVIOUS
  <1>3. q \in Seq(T) /\ Len(q) = 2 /\ q[1] = a /\ q[2] = b
    <2>1. /\ q \in Seq(T) /\ Len(q) = Len(<<a>>) + Len(<<b>>)
          /\ \A i \in 1..Len(q) : q[i] = IF i <= Len(<<a>>) THEN <<a>>[i] ELSE <<b>>[i - Len(<<a>>)]
      BY <1>1, <1>2, ConcatProperties
    <2>2. Len(q) = 2
      BY <1>1, <1>2, <2>1
    <2>3. q[1] = <<a>>[1]
      BY <1>1, <2>1, <2>2
    <2>4. q[2] = <<b>>[1]
      BY <1>1, <2>1, <2>2
    <2> QED
      BY <1>1, <1>2, <2>1, <2>2, <2>3, <2>4
  <1> HIDE DEF q
  <1>4. \A i \in 1..2 : i = 1 \/ i = 2
    OBVIOUS
  <1>5. Distinct(q)
    BY <1>3, <1>4, Zenon DEF Distinct
  <1> QED
    BY <1>3, <1>5, Zenon DEF q

LEMMA RecordIs ==
    ASSUME NEW stream, NEW about, NEW what
    PROVE  /\ Record(stream, about, what).stream = stream /\ Record(stream, about, what).about = about
           /\ Record(stream, about, what).what = what /\ Record(stream, about, what).task = 0
           /\ stream \in Streams /\ about \in Abouts /\ what \in Whats =>
                 Record(stream, about, what) \in Records
  <1>1. 0 \in 0..N
    BY AgentAssumption
  <1> QED
    BY <1>1 DEF Record, About, Records, Streams, Abouts

LEMMA StatusIs ==
    /\ Status \in {"success", "partial", "failure"}
    /\ Status = "success" <=> Unsuccessful = {}
  BY DEF Status

LEMMA FeedbackIsGood == LoopTypeOK => GoodFeedback(FeedbackRecords, Status)
  <1> SUFFICES ASSUME LoopTypeOK
               PROVE  GoodFeedback(FeedbackRecords, Status)
    OBVIOUS
  <1> PICK w : w = FeedbackFailure
    OBVIOUS
  <1>1. w \in {"none", "partial_match", "execution_failure", "dependency_skip"}
    BY StatusIs DEF FeedbackFailure, MatchType
  <1>2. w = "none" <=> Status = "success"
    BY StatusIs DEF FeedbackFailure, MatchType
  <1> PICK a, b : a = Record("decision", "feedback", w) /\ b = Record("failure", "feedback", w)
    OBVIOUS
  <1>3. /\ a \in Records /\ b \in Records /\ a # b /\ a.about = "feedback" /\ b.about = "feedback"
        /\ a.stream = "decision" /\ b.stream = "failure"
    <2>1. w \in Whats /\ {"decision", "failure"} \subseteq Streams /\ "feedback" \in Abouts
      BY <1>1 DEF Whats, Streams, Abouts
    <2> QED
      BY <2>1, RecordIs
  <1>4. CASE w = "none"
    <2> PICK q : q = <<a>> \o <<>>
      OBVIOUS
    <2>1. FeedbackRecords = q
      BY <1>4 DEF FeedbackRecords
    <2>2. q \in Seq(Records) /\ Len(q) = 1 /\ q[1] = a /\ Distinct(q)
      BY <1>3, OneOf
    <2>3. \A i \in 1..Len(q) : q[i] = a
      BY <2>2
    <2>4. Len(q) \in 1..2
      BY <2>2
    <2>5. \A i \in 1..Len(q) : q[i].about = "feedback" /\ q[i].stream = "decision"
      BY <1>3, <2>3
    <2>6. GoodFeedback(q, Status)
      BY <2>2, <2>4, <2>5 DEF GoodFeedback
    <2> QED
      BY <2>1, <2>6
  <1>5. CASE w # "none"
    <2> PICK q : q = <<a>> \o <<b>>
      OBVIOUS
    <2>1. FeedbackRecords = q
      BY <1>5 DEF FeedbackRecords
    <2>2. q \in Seq(Records) /\ Len(q) = 2 /\ q[1] = a /\ q[2] = b /\ Distinct(q)
      BY <1>3, TwoOf
    <2> QED
      BY <1>2, <1>3, <1>5, <2>1, <2>2 DEF GoodFeedback
  <1> QED
    BY <1>4, <1>5

\* The records of the first k tasks, as far as that many have been put together.
GoodMiddle(q, k, U) ==
    /\ q \in Seq(Records) /\ Distinct(q)
    /\ \A i \in 1..Len(q) :
          /\ q[i].about = "task" /\ q[i].task \in 1..k /\ q[i].stream \in {"task", "failure"}
          /\ q[i].stream = "failure" => q[i].task \in U
    /\ \A t \in 1..k : t \in U => \E i \in 1..Len(q) : q[i].stream = "failure"

LEMMA TaskRecordsAreGood ==
    ASSUME LoopTypeOK, NEW t \in Tasks
    PROVE  LET q == TaskRecords(t)
           IN  /\ q \in Seq(Records) /\ Distinct(q)
               /\ \A i \in 1..Len(q) :
                     /\ q[i].about = "task" /\ q[i].task = t /\ q[i].stream \in {"task", "failure"}
                     /\ q[i].stream = "failure" => t \in Unsuccessful
               /\ t \in Unsuccessful => \E i \in 1..Len(q) : q[i].stream = "failure"
  <1> PICK a, b : /\ a = About("task", "task", t, report[t])
                  /\ b = About("failure", "task", t, report[t])
    OBVIOUS
  <1>1. t \in 0..N /\ report[t] \in Whats
    BY AgentAssumption DEF LoopTypeOK, Tasks, Whats
  <1>2. /\ a \in Records /\ b \in Records /\ a # b /\ a.about = "task" /\ b.about = "task"
        /\ a.task = t /\ b.task = t /\ a.stream = "task" /\ b.stream = "failure"
    BY <1>1 DEF About, Records, Streams, Abouts
  <1>3. CASE t \notin Unsuccessful
    <2> PICK q : q = <<a>> \o <<>>
      OBVIOUS
    <2>1. TaskRecords(t) = q
      BY <1>3 DEF TaskRecords
    <2>2. q \in Seq(Records) /\ Len(q) = 1 /\ q[1] = a /\ Distinct(q)
      BY <1>2, OneOf
    <2> QED
      BY <1>2, <1>3, <2>1, <2>2
  <1>4. CASE t \in Unsuccessful
    <2> PICK q : q = <<a>> \o <<b>>
      OBVIOUS
    <2>1. TaskRecords(t) = q
      BY <1>4 DEF TaskRecords
    <2>2. q \in Seq(Records) /\ Len(q) = 2 /\ q[1] = a /\ q[2] = b /\ Distinct(q)
      BY <1>2, TwoOf
    <2> QED
      BY <1>2, <1>4, <2>1, <2>2
  <1> QED
    BY <1>3, <1>4

LEMMA MiddleStep ==
    ASSUME LoopTypeOK, NEW k \in Tasks, NEW q, GoodMiddle(q, k - 1, Unsuccessful)
    PROVE  GoodMiddle(q \o TaskRecords(k), k, Unsuccessful)
  <1> PICK g : g = TaskRecords(k)
    OBVIOUS
  <1> PICK U : U = Unsuccessful
    OBVIOUS
  <1>1. /\ g \in Seq(Records) /\ Distinct(g)
        /\ \A i \in 1..Len(g) :
              /\ g[i].about = "task" /\ g[i].task = k /\ g[i].stream \in {"task", "failure"}
              /\ g[i].stream = "failure" => k \in U
        /\ k \in U => \E i \in 1..Len(g) : g[i].stream = "failure"
    BY TaskRecordsAreGood
  <1>2. /\ q \in Seq(Records) /\ Distinct(q)
        /\ \A i \in 1..Len(q) :
              /\ q[i].about = "task" /\ q[i].task \in 1..(k - 1) /\ q[i].stream \in {"task", "failure"}
              /\ q[i].stream = "failure" => q[i].task \in U
        /\ \A t \in 1..(k - 1) : t \in U => \E i \in 1..Len(q) : q[i].stream = "failure"
    BY DEF GoodMiddle
  <1> PICK c : c = q \o g
    OBVIOUS
  <1>3. /\ c \in Seq(Records) /\ Len(c) = Len(q) + Len(g)
        /\ \A i \in 1..Len(c) : c[i] = IF i <= Len(q) THEN q[i] ELSE g[i - Len(q)]
    BY <1>1, <1>2, ConcatProperties
  <1>4. Len(q) \in Nat /\ Len(g) \in Nat /\ k \in Nat /\ k >= 1
    BY <1>1, <1>2, AgentAssumption DEF Tasks
  <1>5. \A i \in 1..Len(c) : \/ i \in 1..Len(q) /\ c[i] = q[i]
                             \/ i - Len(q) \in 1..Len(g) /\ c[i] = g[i - Len(q)] /\ i \notin 1..Len(q)
    BY <1>3, <1>4
  <1>6. /\ \A i \in 1..Len(q) : i \in 1..Len(c) /\ c[i] = q[i]
        /\ \A i \in 1..Len(g) : Len(q) + i \in 1..Len(c) /\ c[Len(q) + i] = g[i]
    BY <1>3, <1>4
  <1>7. Distinct(c)
    <2> SUFFICES ASSUME NEW i \in 1..Len(c), NEW j \in 1..Len(c), c[i] = c[j]
                 PROVE  i = j
      BY DEF Distinct
    <2>1. CASE i \in 1..Len(q) /\ c[i] = q[i]
      <3>1. c[j].task # k
        BY <1>2, <1>4, <2>1
      <3>2. j \in 1..Len(q) /\ c[j] = q[j]
        BY <1>1, <1>5, <3>1
      <3> QED
        BY <1>2, <2>1, <3>2 DEF Distinct
    <2>2. CASE i - Len(q) \in 1..Len(g) /\ c[i] = g[i - Len(q)]
      <3>1. c[j].task = k
        BY <1>1, <2>2
      <3>2. ~(j \in 1..Len(q) /\ c[j] = q[j])
        BY <1>2, <1>4, <3>1
      <3>3. j - Len(q) \in 1..Len(g) /\ c[j] = g[j - Len(q)]
        BY <1>5, <3>2
      <3> PICK a, b : a = i - Len(q) /\ b = j - Len(q)
        OBVIOUS
      <3>a. a \in 1..Len(g) /\ b \in 1..Len(g) /\ g[a] = g[b]
        BY <2>2, <3>3
      <3>4. a = b
        BY <1>1, <3>a, Zenon DEF Distinct
      <3> QED
        BY <1>4, <3>4
    <2> QED
      BY <1>5, <2>1, <2>2
  <1>8. \A i \in 1..Len(c) :
           /\ c[i].about = "task" /\ c[i].task \in 1..k /\ c[i].stream \in {"task", "failure"}
           /\ c[i].stream = "failure" => c[i].task \in U
    <2> TAKE i \in 1..Len(c)
    <2>1. CASE i \in 1..Len(q) /\ c[i] = q[i]
      BY <1>2, <1>4, <2>1
    <2>2. CASE i - Len(q) \in 1..Len(g) /\ c[i] = g[i - Len(q)]
      BY <1>1, <1>4, <2>2
    <2> QED
      BY <1>5, <2>1, <2>2
  <1>9. \A t \in 1..k : t \in U => \E i \in 1..Len(c) : c[i].stream = "failure"
    <2> SUFFICES ASSUME NEW t \in 1..k, t \in U
                 PROVE  \E i \in 1..Len(c) : c[i].stream = "failure"
      OBVIOUS
    <2>1. CASE t = k
      <3>1. PICK i \in 1..Len(g) : g[i].stream = "failure"
        BY <1>1, <2>1
      <3> QED
        BY <1>6, <3>1
    <2>2. CASE t # k
      <3>1. t \in 1..(k - 1)
        BY <1>4, <2>2
      <3>2. PICK i \in 1..Len(q) : q[i].stream = "failure"
        BY <1>2, <3>1
      <3> QED
        BY <1>6, <3>2
    <2> QED
      BY <2>1, <2>2
  <1>10. GoodMiddle(c, k, U)
    BY <1>3, <1>7, <1>8, <1>9 DEF GoodMiddle
  <1> QED
    BY <1>10

LEMMA MiddleIsGood ==
    LoopTypeOK => GoodMiddle(FlattenSeq([t \in Tasks |-> TaskRecords(t)]), N, Unsuccessful)
  <1> SUFFICES ASSUME LoopTypeOK
               PROVE  GoodMiddle(FlattenSeq([t \in Tasks |-> TaskRecords(t)]), N, Unsuccessful)
    OBVIOUS
  <1> PICK gs : gs = [t \in Tasks |-> TaskRecords(t)]
    OBVIOUS
  <1>1. N \in Nat
    BY AgentAssumption
  <1>2. gs \in Seq(Seq(Records)) /\ Len(gs) = N /\ \A t \in Tasks : gs[t] = TaskRecords(t)
    BY <1>1, TaskRecordsAreGood DEF Tasks
  <1>3. CASE N = 0
    <2>1. FlattenSeq(gs) = gs
      BY <1>2, <1>3 DEF FlattenSeq
    <2>2. 1..Len(gs) = {} /\ 1..N = {}
      BY <1>2, <1>3
    <2>3. gs \in Seq(Records)
      BY <1>2, <1>3, EmptySeq
    <2> QED
      BY <2>1, <2>2, <2>3 DEF GoodMiddle, Distinct
  <1>4. CASE N # 0
    <2>1. gs # <<>>
      BY <1>2, <1>4, EmptySeq
    <2>2. PICK f : IsFlattening(f, gs, Len(gs)) /\ FlattenSeq(gs) = f[Len(gs)]
      BY <1>2, <2>1, FlattenIs
    <2>3. /\ f[1] = gs[1]
          /\ \A i \in 1..N : i # 1 => f[i] = f[i - 1] \o gs[i]
      <3>1. IsFlattening(f, gs, N)
        BY <1>2, <2>2
      <3>2. \A i \in 1..N : f[i] = IF i = 1 THEN gs[i] ELSE f[i - 1] \o gs[i]
        BY <3>1 DEF IsFlattening
      <3>3. 1 \in 1..N
        BY <1>1, <1>4
      <3> QED
        BY <3>2, <3>3
    <2> DEFINE B == {k \in 1..N : ~GoodMiddle(f[k], k, Unsuccessful)}
    <2>4. B = {}
      <3> SUFFICES ASSUME NEW n \in B
                   PROVE  FALSE
        OBVIOUS
      <3>1. B \in SUBSET Nat
        BY <1>1
      <3>2. PICK m \in B : \A y \in B : m <= y
        BY <3>1, LeastNumber
      <3>3. m \in Tasks /\ m \in 1..N
        BY <3>2 DEF Tasks
      <3>4. CASE m = 1
        <4>1. GoodMiddle(<<>>, 0, Unsuccessful)
          <5>1. <<>> \in Seq(Records) /\ 1..Len(<<>>) = {} /\ 1..0 = {}
            BY EmptySeq
          <5> QED
            BY <5>1 DEF GoodMiddle, Distinct
        <4>2. m - 1 = 0
          BY <3>4
        <4>3. GoodMiddle(<<>> \o TaskRecords(m), m, Unsuccessful)
          BY <3>3, <4>1, <4>2, MiddleStep
        <4>4. <<>> \o TaskRecords(m) = f[m]
          <5>1. TaskRecords(m) \in Seq(Records)
            BY <3>3, TaskRecordsAreGood
          <5>2. <<>> \o TaskRecords(m) = TaskRecords(m)
            BY <5>1, ConcatEmptySeq
          <5> QED
            BY <1>2, <2>3, <3>3, <3>4, <5>2
        <4> QED
          BY <4>3, <4>4
      <3>5. CASE m # 1
        <4>1. m - 1 \in 1..N /\ m - 1 \notin B
          BY <1>1, <3>1, <3>2, <3>3, <3>5
        <4>2. GoodMiddle(f[m - 1], m - 1, Unsuccessful)
          BY <4>1
        <4>3. GoodMiddle(f[m - 1] \o TaskRecords(m), m, Unsuccessful)
          BY <3>3, <4>2, MiddleStep
        <4> QED
          BY <1>2, <2>3, <3>3, <3>5, <4>3
      <3> QED
        BY <3>4, <3>5
    <2>5. N \in 1..N
      BY <1>1, <1>4
    <2> QED
      BY <1>2, <2>2, <2>4, <2>5
  <1> QED
    BY <1>3, <1>4

LEMMA AccountIsGood == LoopTypeOK => GoodAccount(PersistedRecords, Status)
  <1> SUFFICES ASSUME LoopTypeOK
               PROVE  GoodAccount(PersistedRecords, Status)
    OBVIOUS
  <1> PICK st : st = Status
    OBVIOUS
  <1> PICK M : M = FlattenSeq([t \in Tasks |-> TaskRecords(t)])
    OBVIOUS
  <1> PICK U : U = Unsuccessful
    OBVIOUS
  <1>1. /\ M \in Seq(Records) /\ Distinct(M)
        /\ \A i \in 1..Len(M) :
              /\ M[i].about = "task" /\ M[i].task \in 1..N /\ M[i].stream \in {"task", "failure"}
              /\ M[i].stream = "failure" => M[i].task \in U
        /\ \A t \in 1..N : t \in U => \E i \in 1..Len(M) : M[i].stream = "failure"
    BY MiddleIsGood DEF GoodMiddle
  <1>2. /\ st \in {"success", "partial", "failure"}
        /\ st = "success" <=> U = {}
        /\ U \subseteq 1..N
    BY StatusIs DEF Unsuccessful, Tasks
  <1> PICK w : w = IF Status = "success" THEN "success" ELSE "failure"
    OBVIOUS
  <1> PICK x, y, z : /\ x = Record("execution", "record", w) /\ y = Record("execution", "summary", st)
                     /\ z = Record("decision", "run", st)
    OBVIOUS
  <1>3. /\ x \in Records /\ y \in Records /\ z \in Records
        /\ x.stream = "execution" /\ x.about = "record" /\ (st = "success" => x.what = "success")
        /\ y.stream = "execution" /\ y.about = "summary" /\ (st = "success" => y.what = "success")
        /\ z.stream = "decision" /\ z.about = "run"
    <2>1. /\ w \in Whats /\ st \in Whats /\ "execution" \in Streams /\ "decision" \in Streams
          /\ {"record", "summary", "run"} \subseteq Abouts
          /\ st = "success" => w = "success"
      BY <1>2 DEF Whats, Streams, Abouts
    <2> QED
      BY <2>1, RecordIs
  <1>4. x # y
    BY <1>3
  <1> PICK h : h = <<x, y>>
    OBVIOUS
  <1>5. h \in Seq(Records) /\ Len(h) = 2 /\ h[1] = x /\ h[2] = y
    BY <1>3
  <1> PICK l : l = <<z>>
    OBVIOUS
  <1>6. l \in Seq(Records) /\ Len(l) = 1 /\ l[1] = z
    BY <1>3
  <1> PICK hm : hm = h \o M
    OBVIOUS
  <1> PICK P : P = hm \o l
    OBVIOUS
  <1>7. PersistedRecords = P
    BY DEF PersistedRecords, RecordExecution
  <1>8. /\ hm \in Seq(Records) /\ Len(hm) = 2 + Len(M)
        /\ \A i \in 1..Len(hm) : hm[i] = IF i <= 2 THEN h[i] ELSE M[i - 2]
    <2>1. /\ hm \in Seq(Records) /\ Len(hm) = Len(h) + Len(M)
          /\ \A i \in 1..Len(hm) : hm[i] = IF i <= Len(h) THEN h[i] ELSE M[i - Len(h)]
      BY <1>1, <1>5, ConcatProperties
    <2> QED
      BY <1>5, <2>1
  <1>9. /\ P \in Seq(Records) /\ Len(P) = 3 + Len(M) /\ Len(M) \in Nat
        /\ \A i \in 1..Len(P) : P[i] = IF i <= 2 + Len(M) THEN hm[i] ELSE l[i - (2 + Len(M))]
    <2>1. /\ P \in Seq(Records) /\ Len(P) = Len(hm) + Len(l)
          /\ \A i \in 1..Len(P) : P[i] = IF i <= Len(hm) THEN hm[i] ELSE l[i - Len(hm)]
      BY <1>6, <1>8, ConcatProperties
    <2>2. Len(M) \in Nat
      BY <1>1
    <2> QED
      BY <1>6, <1>8, <2>1, <2>2
  <1>10. P[1] = x /\ P[2] = y /\ P[3 + Len(M)] = z
    <2>1. 1 \in 1..Len(P) /\ 2 \in 1..Len(P) /\ 3 + Len(M) \in 1..Len(P)
      BY <1>9
    <2>2. P[3 + Len(M)] = l[1]
      BY <1>9, <2>1
    <2>3. P[1] = hm[1] /\ P[2] = hm[2]
      BY <1>9, <2>1
    <2>4. hm[1] = h[1] /\ hm[2] = h[2]
      BY <1>8, <1>9
    <2> QED
      BY <1>5, <1>6, <2>2, <2>3, <2>4
  <1>11. \A i \in 1..Len(M) : i + 2 \in 1..Len(P) /\ P[i + 2] = M[i]
    BY <1>8, <1>9
  <1>12. \A i \in 1..Len(P) : \/ i = 1 \/ i = 2 \/ i = 3 + Len(M)
                              \/ i - 2 \in 1..Len(M) /\ P[i] = M[i - 2]
    BY <1>8, <1>9
  <1>13. Distinct(P)
    <2> SUFFICES ASSUME NEW i \in 1..Len(P), NEW j \in 1..Len(P), P[i] = P[j]
                 PROVE  i = j
      BY DEF Distinct
    <2>1. ASSUME NEW k \in 1..Len(P)
          PROVE  /\ P[k].about = "record" <=> k = 1
                 /\ P[k].about = "summary" <=> k = 2
                 /\ P[k].about = "run" <=> k = 3 + Len(M)
      <3>1. CASE k = 1
        BY <1>3, <1>9, <1>10, <3>1
      <3>2. CASE k = 2
        BY <1>3, <1>9, <1>10, <3>2
      <3>3. CASE k = 3 + Len(M)
        BY <1>3, <1>9, <1>10, <3>3
      <3>4. CASE k - 2 \in 1..Len(M) /\ P[k] = M[k - 2]
        <4>1. P[k].about = "task"
          BY <1>1, <3>4
        <4>2. k # 1 /\ k # 2 /\ k # 3 + Len(M)
          BY <1>9, <3>4
        <4> QED
          BY <4>1, <4>2
      <3> QED
        BY <1>12, <3>1, <3>2, <3>3, <3>4
    <2> DEFINE a == P[i].about
    <2>a. /\ (a = "record" <=> i = 1) /\ (a = "summary" <=> i = 2) /\ (a = "run" <=> i = 3 + Len(M))
          /\ (a = "record" <=> j = 1) /\ (a = "summary" <=> j = 2) /\ (a = "run" <=> j = 3 + Len(M))
      <3>1. a = P[j].about
        OBVIOUS
      <3> QED
        BY <2>1, <3>1
    <2> HIDE DEF a
    <2>2. CASE i = 1 \/ i = 2 \/ i = 3 + Len(M)
      BY <2>a, <2>2
    <2>3. CASE ~(i = 1 \/ i = 2 \/ i = 3 + Len(M))
      <3>1. ~(j = 1 \/ j = 2 \/ j = 3 + Len(M))
        BY <2>a, <2>3
      <3>2. i - 2 \in 1..Len(M) /\ j - 2 \in 1..Len(M) /\ M[i - 2] = M[j - 2]
        BY <1>12, <2>3, <3>1
      <3> PICK b, c : b = i - 2 /\ c = j - 2
        OBVIOUS
      <3>b. b \in 1..Len(M) /\ c \in 1..Len(M) /\ M[b] = M[c]
        BY <3>2
      <3>3. b = c
        BY <1>1, <3>b DEF Distinct
      <3> QED
        BY <1>9, <3>3
    <2> QED
      BY <2>2, <2>3
  <1>14. \A i \in 1..Len(P) :
            /\ P[i].about \in {"record", "summary", "task", "run"}
            /\ P[i].stream = "failure" => st # "success"
            /\ P[i].stream = "execution" => (st = "success" => P[i].what = "success")
    <2> TAKE i \in 1..Len(P)
    <2>1. CASE i = 1
      BY <1>3, <1>10, <2>1
    <2>2. CASE i = 2
      BY <1>3, <1>10, <2>2
    <2>3. CASE i = 3 + Len(M)
      BY <1>3, <1>10, <2>3
    <2>4. CASE i - 2 \in 1..Len(M) /\ P[i] = M[i - 2]
      <3>1. P[i].about = "task" /\ P[i].stream # "execution"
        BY <1>1, <2>4
      <3>2. P[i].stream = "failure" => U # {}
        BY <1>1, <2>4
      <3> QED
        BY <1>2, <3>1, <3>2
    <2> QED
      BY <1>12, <2>1, <2>2, <2>3, <2>4
  <1>15. st # "success" => \E i \in 1..Len(P) : P[i].stream = "failure"
    <2> SUFFICES ASSUME st # "success"
                 PROVE  \E i \in 1..Len(P) : P[i].stream = "failure"
      OBVIOUS
    <2>1. PICK t \in 1..N : t \in U
      BY <1>2
    <2>2. PICK i \in 1..Len(M) : M[i].stream = "failure"
      BY <1>1, <2>1
    <2> PICK j : j = i + 2
      OBVIOUS
    <2>3. j \in 1..Len(P) /\ P[j] = M[i]
      BY <1>11
    <2>4. P[j].stream = "failure"
      BY <2>2, <2>3
    <2> QED
      BY <2>3, <2>4
  <1>16. GoodAccount(P, st)
    <2>1. Len(P) >= 3 /\ P[Len(P)] = z /\ P \in Seq(Records)
      BY <1>9, <1>10
    <2>2. P[1].stream = "execution" /\ P[2].stream = "execution"
      BY <1>3, <1>10
    <2>3. P[Len(P)] = Record("decision", "run", st)
      BY <2>1
    <2> QED
      BY <1>13, <1>14, <1>15, <2>1, <2>2, <2>3 DEF GoodAccount
  <1> QED
    BY <1>7, <1>16

-----------------------------------------------------------------------------
(***************************************************************************)
(* What a step keeps.                                                      *)
(***************************************************************************)
LEMMA CopiesSame ==
    ASSUME stored' = stored, NEW r
    PROVE  Copies(r)' = Copies(r)
  BY DEF Copies

LEMMA AttemptsSame ==
    ASSUME history' = history, NEW s
    PROVE  Attempts(s)' = Attempts(s)
  BY DEF Attempts

LEMMA StatusSame ==
    ASSUME report' = report
    PROVE  Status' = Status /\ FeedbackRecords' = FeedbackRecords
  <1>1. Status' = Status
    BY DEF Status, Unsuccessful
  <1>2. FeedbackFailure' = FeedbackFailure
    BY <1>1 DEF FeedbackFailure, MatchType
  <1> QED
    BY <1>1, <1>2, Zenon DEF FeedbackRecords

LEMMA AccountSame ==
    ASSUME report' = report
    PROVE  PersistedRecords' = PersistedRecords
  <1>1. Status' = Status
    BY StatusSame
  <1>2. [t \in Tasks |-> TaskRecords(t)]' = [t \in Tasks |-> TaskRecords(t)]
    BY Zenon DEF TaskRecords, Unsuccessful
  <1> QED
    BY <1>1, <1>2, Zenon DEF PersistedRecords

\* With the records of the report at hand.
LEMMA LoopInvIs ==
    ASSUME LoopInv
    PROVE  \E F, P, st : /\ F = FeedbackRecords /\ P = PersistedRecords /\ st = Status
                         /\ GoodFeedback(F, st) /\ GoodAccount(P, st) /\ RecordsInv(F, P)
  BY FeedbackIsGood, AccountIsGood DEF LoopInv

LEMMA LoopInvNext ==
    ASSUME report' = report, NEW F, NEW P, F = FeedbackRecords, P = PersistedRecords,
           LoopTypeOK', PlaceInv', AttemptsInv', ImproveInv', RecordsInv(F, P)'
    PROVE  LoopInv'
  <1>1. FeedbackRecords' = F /\ PersistedRecords' = P
    BY StatusSame, AccountSame
  <1> QED
    BY <1>1, Zenon DEF LoopInv

LEMMA TwoAppended ==
    ASSUME NEW T, NEW q \in Seq(T), NEW a \in T, NEW b \in T
    PROVE  q \o <<a, b>> = Append(Append(q, a), b)
  <1> PICK l, r : l = q \o <<a, b>> /\ r = Append(Append(q, a), b)
    OBVIOUS
  <1> PICK p : p = <<a, b>>
    OBVIOUS
  <1>1. p \in Seq(T) /\ Len(p) = 2 /\ p[1] = a /\ p[2] = b
    OBVIOUS
  <1>2. /\ l \in Seq(T) /\ Len(l) = Len(q) + 2
        /\ \A i \in 1..Len(l) : l[i] = IF i <= Len(q) THEN q[i] ELSE p[i - Len(q)]
    <2>1. /\ l \in Seq(T) /\ Len(l) = Len(q) + Len(p)
          /\ \A i \in 1..Len(l) : l[i] = IF i <= Len(q) THEN q[i] ELSE p[i - Len(q)]
      BY <1>1, ConcatProperties
    <2> QED
      BY <1>1, <2>1
  <1> PICK m : m = Append(q, a)
    OBVIOUS
  <1>3. /\ m \in Seq(T) /\ Len(m) = Len(q) + 1
        /\ \A i \in 1..Len(q) : m[i] = q[i]
        /\ m[Len(q) + 1] = a
    BY AppendProperties
  <1>4. /\ r \in Seq(T) /\ Len(r) = Len(m) + 1
        /\ \A i \in 1..Len(m) : r[i] = m[i]
        /\ r[Len(m) + 1] = b
    BY <1>3, AppendProperties
  <1>5. Len(q) \in Nat
    OBVIOUS
  <1>6. \A i \in 1..Len(l) : l[i] = r[i]
    <2> TAKE i \in 1..Len(l)
    <2>1. CASE i \in 1..Len(q)
      BY <1>2, <1>3, <1>4, <1>5, <2>1
    <2>2. CASE i = Len(q) + 1
      <3>1. l[i] = p[1]
        BY <1>2, <1>5, <2>2
      <3>2. r[i] = m[i]
        BY <1>3, <1>4, <1>5, <2>2
      <3> QED
        BY <1>1, <1>3, <2>2, <3>1, <3>2
    <2>3. CASE i = Len(q) + 2
      <3>1. l[i] = p[2]
        BY <1>2, <1>5, <2>3
      <3>2. i = Len(m) + 1
        BY <1>3, <1>5, <2>3
      <3> QED
        BY <1>1, <1>4, <3>1, <3>2
    <2> QED
      BY <1>2, <1>5, <2>1, <2>2, <2>3
  <1>7. Len(l) = Len(r)
    BY <1>2, <1>3, <1>4, <1>5
  <1>8. l = r
    BY <1>2, <1>4, <1>6, <1>7, SeqEqual
  <1> QED
    BY <1>8

LEMMA StateIs ==
    ASSUME LoopTypeOK, NEW said \in {"STARTED", "SUCCESS", "FAILED", "RETRY"}
    PROVE  State(said) \in States /\ State(said).step = step /\ State(said).status = said
  BY AgentAssumption DEF State, States, LoopTypeOK

\* What the end of an operation, well or badly, does to the attempts.
LEMMA SucceedsIs ==
    ASSUME LoopTypeOK, Succeeds
    PROVE  history' \in Seq(States) /\ \A s : Attempts(s)' = Attempts(s)
  <1> PICK h : h = State("SUCCESS")
    OBVIOUS
  <1>1. h \in States /\ h.status = "SUCCESS"
    BY StateIs
  <1>2. history \in Seq(States) /\ history' = Append(history, h)
    BY DEF LoopTypeOK, Succeeds
  <1>3. history' \in Seq(States)
    BY <1>1, <1>2, AppendProperties
  <1>4. ASSUME NEW s
        PROVE  Attempts(s)' = Attempts(s)
    <2>1. Attempts(s)' = Attempts(s) + IF h.step = s /\ h.status = "STARTED" THEN 1 ELSE 0
      BY <1>1, <1>2, AttemptsStep
    <2>2. Attempts(s) \in Nat
      BY <1>2, AttemptsOf
    <2> QED
      BY <1>1, <2>1, <2>2
  <1> QED
    BY <1>3, <1>4

LEMMA FailsIs ==
    ASSUME LoopTypeOK, NEW type, Fails(type)
    PROVE  /\ history' \in Seq(States) /\ \A s : Attempts(s)' = Attempts(s)
           /\ step' = step
           /\ \/ ShouldRetry(type) /\ pc' = "start" /\ attempt' = attempt + 1
              \/ ~ShouldRetry(type) /\ pc' = "raised" /\ attempt' = attempt
  <1> PICK h, g : h = State("FAILED") /\ g = State("RETRY")
    OBVIOUS
  <1> PICK q : q = history
    OBVIOUS
  <1>1. h \in States /\ h.status = "FAILED" /\ g \in States /\ g.status = "RETRY" /\ q \in Seq(States)
    BY StateIs DEF LoopTypeOK
  <1> PICK m : m = Append(q, h)
    OBVIOUS
  <1>2. m \in Seq(States)
    BY <1>1, AppendProperties
  <1>3. ASSUME NEW s
        PROVE  /\ Cardinality(Where(m, Starts(s))) = Cardinality(Where(q, Starts(s)))
               /\ Cardinality(Where(Append(m, g), Starts(s))) = Cardinality(Where(q, Starts(s)))
    <2>1. h \notin Starts(s) /\ g \notin Starts(s)
      BY <1>1 DEF Starts
    <2>2. Cardinality(Where(m, Starts(s))) =
             Cardinality(Where(q, Starts(s))) + IF h \in Starts(s) THEN 1 ELSE 0
      BY <1>1, CountOfAppend
    <2>3. Cardinality(Where(Append(Append(q, h), g), Starts(s))) =
             Cardinality(Where(q, Starts(s))) + (IF h \in Starts(s) THEN 1 ELSE 0)
                + IF g \in Starts(s) THEN 1 ELSE 0
      BY <1>1, <1>2, CountOfTwo
    <2>4. Cardinality(Where(q, Starts(s))) \in Nat
      BY <1>1, CountOf
    <2> QED
      BY <2>1, <2>2, <2>3, <2>4
  <1>4. history' = m \/ history' = Append(m, g)
    BY <1>1, TwoAppended DEF Fails
  <1>5. history' \in Seq(States)
    BY <1>1, <1>2, <1>4, AppendProperties
  <1>6. ASSUME NEW s
        PROVE  Attempts(s)' = Attempts(s)
    <2>1. Attempts(s) = Cardinality(Where(q, Starts(s)))
      BY <1>1, AttemptsOf
    <2>2. Attempts(s)' = Cardinality(Where(history', Starts(s)))
      <3>1. \A i \in 1..Len(history') : history'[i] \in States
        BY <1>5
      <3>2. Where(history', Starts(s)) =
               {i \in 1..Len(history') : history'[i].step = s /\ history'[i].status = "STARTED"}
        BY <3>1 DEF Where, Starts
      <3> QED
        BY <3>2 DEF Attempts
    <2> QED
      BY <1>3, <1>4, <2>1, <2>2
  <1>7. step' = step
    BY DEF Fails
  <1> QED
    BY <1>5, <1>6, <1>7 DEF Fails

\* The last attempt of step s is over, or lost what it wrote; there was a record
\* still to write.
LEMMA CopiesKept ==
    ASSUME LoopTypeOK, step \in Int, NEW s \in 1..4, NEW R, Len(R) \in Nat, CopiesInv(s, R),
           stored' = stored, Attempts(s)' = Attempts(s), step' = step, written' = written,
           pc \in {"operation", "improve"},
           pc' = "start" => pc = "operation" /\ (step = s => written < Len(R)),
           pc' \in {"start", "improve", "returned", "raised"}
    PROVE  CopiesInv(s, R)'
  <1> PICK n, m : n = Now(s, Len(R)) /\ m = Now(s, Len(R))'
    OBVIOUS
  <1>1. /\ step = s => Begun(s) /\ n = written
        /\ step > s => Begun(s) /\ Begun(s)' /\ m = n
        /\ step < s => ~Begun(s) /\ ~Begun(s)' /\ m = n
        /\ step = s /\ pc' # "start" => Begun(s)' /\ m = n
        /\ step = s /\ pc' = "start" => ~Begun(s)' /\ m = 0
    <2>1. Waiting' <=> pc' = "start"
      BY DEF Waiting
    <2>2. ~Waiting
      BY DEF Waiting
    <2> QED
      BY <2>1, <2>2 DEF Begun, Now, LoopTypeOK
  <1>2. n \in Nat /\ m \in Nat
    BY DEF Now, LoopTypeOK
  <1>3. CASE (Begun(s)' <=> Begun(s)) /\ m = n
    <2>1. \A i \in 1..Len(R) : Earlier(s, R, i)' = Earlier(s, R, i)
      BY <1>3, CopiesSame DEF Earlier
    <2> QED
      BY <1>3, <2>1 DEF CopiesInv
  <1>4. CASE ~((Begun(s)' <=> Begun(s)) /\ m = n)
    <2>1. step = s /\ pc' = "start" /\ Begun(s) /\ ~Begun(s)' /\ n = written /\ n < Len(R) /\ m = 0
      BY <1>1, <1>4
    <2>2. \A i \in 1..Len(R) : /\ Earlier(s, R, i)' = Earlier(s, R, i) + IF i <= n THEN 1 ELSE 0
                               /\ Earlier(s, R, i) \in Int
      <3> TAKE i \in 1..Len(R)
      <3>1. Copies(R[i])' = Copies(R[i]) /\ Copies(R[i]) \in Nat
        BY CopiesSame, CopiesOf DEF LoopTypeOK
      <3> QED
        BY <1>2, <2>1, <3>1 DEF Earlier
    <2>3. Attempts(s) \in Nat
      BY AttemptsOf DEF LoopTypeOK
    <2>4. CopiesInv(s, R)' <=>
            \A i \in 1..Len(R) :
               /\ Earlier(s, R, i)' >= 0 /\ Earlier(s, R, i)' <= Attempts(s)
               /\ i > 1 => Earlier(s, R, i)' <= Earlier(s, R, i - 1)'
               /\ i = Len(R) => Earlier(s, R, i)' = 0
      BY <2>1, <2>3 DEF CopiesInv
    <2>5. \A i \in 1..Len(R) :
             /\ Earlier(s, R, i) >= 0 /\ Earlier(s, R, i) <= Attempts(s) - 1
             /\ i > 1 => Earlier(s, R, i) <= Earlier(s, R, i - 1)
             /\ i = Len(R) => Earlier(s, R, i) = 0
      BY <2>1 DEF CopiesInv
    <2>6. ASSUME NEW i \in 1..Len(R)
          PROVE  /\ Earlier(s, R, i)' >= 0 /\ Earlier(s, R, i)' <= Attempts(s)
                 /\ i > 1 => Earlier(s, R, i)' <= Earlier(s, R, i - 1)'
                 /\ i = Len(R) => Earlier(s, R, i)' = 0
      <3>1. i > 1 => i - 1 \in 1..Len(R)
        OBVIOUS
      <3>2. i > 1 => Earlier(s, R, i)' <= Earlier(s, R, i - 1)'
        BY <1>2, <2>2, <2>5, <3>1
      <3>3. i = Len(R) => Earlier(s, R, i)' = 0
        BY <1>2, <2>1, <2>2, <2>5
      <3> QED
        BY <1>2, <2>2, <2>3, <2>5, <3>2, <3>3
    <2> QED
      BY <2>4, <2>6
  <1> QED
    BY <1>3, <1>4

LEMMA CopiesUntouched ==
    ASSUME NEW s \in 1..4, NEW R, CopiesInv(s, R), Begun(s)' <=> Begun(s),
           Now(s, Len(R))' = Now(s, Len(R)), Attempts(s)' = Attempts(s),
           \A i \in 1..Len(R) : Copies(R[i])' = Copies(R[i])
    PROVE  CopiesInv(s, R)'
  <1>1. \A i \in 1..Len(R) : Earlier(s, R, i)' = Earlier(s, R, i)
    BY DEF Earlier
  <1> QED
    BY <1>1 DEF CopiesInv

\* The step succeeded, with all its records written.
LEMMA CopiesAdvance ==
    ASSUME LoopTypeOK, NEW s \in 1..4, NEW R, Len(R) \in Nat, CopiesInv(s, R),
           stored' = stored, Attempts(s)' = Attempts(s), step' = step + 1, written' = written,
           pc = "operation", pc' = "start", step = s => written = Len(R)
    PROVE  CopiesInv(s, R)'
  <1>1. step \in Int /\ ~Waiting /\ Waiting'
    BY DEF LoopTypeOK, Waiting
  <1>2. Begun(s)' <=> Begun(s)
    BY <1>1 DEF Begun
  <1>3. Now(s, Len(R))' = Now(s, Len(R))
    <2>1. CASE step >= s
      BY <1>1, <2>1 DEF Now, Begun
    <2>2. CASE step < s
      BY <1>1, <2>2 DEF Now, Begun
    <2> QED
      BY <1>1, <2>1, <2>2
  <1>4. \A i \in 1..Len(R) : Copies(R[i])' = Copies(R[i])
    BY CopiesSame
  <1> QED
    BY <1>2, <1>3, <1>4, CopiesUntouched

\* A record is added that is none of R, and the attempt goes on or none began.
LEMMA CopiesOthers ==
    ASSUME LoopTypeOK, NEW s \in 1..4, NEW R, CopiesInv(s, R),
           NEW x \in Records, stored' = Append(stored, x), \A i \in 1..Len(R) : R[i] # x,
           Attempts(s)' = Attempts(s), step' = step, Waiting' <=> Waiting,
           step = s /\ ~Waiting => written' = written
    PROVE  CopiesInv(s, R)'
  <1>1. Begun(s)' <=> Begun(s)
    BY DEF Begun
  <1>2. Now(s, Len(R))' = Now(s, Len(R))
    BY DEF Now, Begun, LoopTypeOK
  <1>3. ASSUME NEW i \in 1..Len(R)
        PROVE  Copies(R[i])' = Copies(R[i])
    <2>1. Copies(R[i])' = Copies(R[i]) + IF x = R[i] THEN 1 ELSE 0
      BY CopiesStep DEF LoopTypeOK
    <2>2. Copies(R[i]) \in Nat
      BY CopiesOf DEF LoopTypeOK
    <2> QED
      BY <2>1, <2>2
  <1> QED
    BY <1>1, <1>2, <1>3, CopiesUntouched

\* An attempt of step s starts.
LEMMA CopiesStart ==
    ASSUME LoopTypeOK, NEW s \in 1..4, NEW R, CopiesInv(s, R), Len(R) \in Nat,
           stored' = stored, step' = step, written' = 0, pc = "start", pc' = "operation",
           Attempts(s)' = Attempts(s) + IF s = step THEN 1 ELSE 0
    PROVE  CopiesInv(s, R)'
  <1>1. step \in Int /\ Waiting /\ ~Waiting' /\ Attempts(s) \in Nat
    BY AttemptsOf DEF LoopTypeOK, Waiting
  <1>2. Now(s, Len(R))' = Now(s, Len(R))
    BY <1>1 DEF Now, Begun
  <1>3. \A i \in 1..Len(R) : Copies(R[i])' = Copies(R[i])
    BY CopiesSame
  <1>4. CASE s # step
    <2>1. Begun(s)' <=> Begun(s)
      BY <1>1, <1>4 DEF Begun
    <2>2. Attempts(s)' = Attempts(s)
      BY <1>1, <1>4
    <2> QED
      BY <1>2, <1>3, <2>1, <2>2, CopiesUntouched
  <1>5. CASE s = step
    <2>1. ~Begun(s) /\ Begun(s)'
      BY <1>1, <1>5 DEF Begun
    <2>2. \A i \in 1..Len(R) : Earlier(s, R, i)' = Earlier(s, R, i)
      BY <1>2, <1>3 DEF Earlier
    <2>3. Attempts(s)' - 1 = Attempts(s) - 0
      BY <1>1, <1>5
    <2> QED
      BY <2>1, <2>2, <2>3 DEF CopiesInv
  <1> QED
    BY <1>4, <1>5

\* The attempt writes its next record.
LEMMA CopiesWrite ==
    ASSUME LoopTypeOK, NEW s \in 1..4, NEW R, R \in Seq(Records), Distinct(R), CopiesInv(s, R),
           step = s, pc = "operation", pc' = pc, step' = step, written < Len(R),
           stored' = Append(stored, R[written + 1]), written' = written + 1,
           Attempts(s)' = Attempts(s)
    PROVE  CopiesInv(s, R)'
  <1> PICK w, n : w = written /\ n = Len(R)
    OBVIOUS
  <1>1. w \in Nat /\ n \in Nat /\ w + 1 \in 1..n /\ step \in Int /\ ~Waiting /\ ~Waiting'
    BY DEF LoopTypeOK, Waiting
  <1>2. Begun(s) /\ Begun(s)' /\ Now(s, n) = w /\ Now(s, n)' = w + 1
    BY <1>1 DEF Begun, Now
  <1>3. ASSUME NEW i \in 1..n
        PROVE  Earlier(s, R, i)' = Earlier(s, R, i)
    <2> PICK x, r : x = R[w + 1] /\ r = R[i]
      OBVIOUS
    <2>1. x \in Records /\ stored' = Append(stored, x)
      BY <1>1
    <2>2. Copies(r)' = Copies(r) + IF x = r THEN 1 ELSE 0
      BY <2>1, CopiesStep DEF LoopTypeOK
    <2>3. Copies(r) \in Nat
      BY CopiesOf DEF LoopTypeOK
    <2>4. x = r <=> i = w + 1
      BY <1>1 DEF Distinct
    <2>5. Earlier(s, R, i) = Copies(r) - IF i <= w THEN 1 ELSE 0
      BY <1>2 DEF Earlier
    <2>6. Earlier(s, R, i)' = Copies(r)' - IF i <= w + 1 THEN 1 ELSE 0
      BY <1>2 DEF Earlier
    <2> QED
      BY <1>1, <2>2, <2>3, <2>4, <2>5, <2>6
  <1> QED
    BY <1>2, <1>3 DEF CopiesInv

\* What was earned stays so while the run writes on: the more it writes, the nearer
\* the past in sight may begin.
LEMMA EarnedStays ==
    ASSUME prior' = prior, Status' = Status, Len(stored) \in Nat, Len(prior) \in Nat,
           Len(stored') \in Nat, Len(stored') >= Len(stored)
    PROVE  \A t : Earned(t) => Earned(t)'
  <1>1. \A S : (Under(S)' <=> Under(S)) /\ Failures(prior, S)' = Failures(prior, S)
    BY DEF Under, Successes, Executions, Failures
  <1>2. Horizons \subseteq Horizons'
    BY AgentAssumption DEF Horizons
  <1>3. (\E from \in Horizons : Under(from..Len(prior)))
           => (\E from \in Horizons : Under(from..Len(prior)))'
    <2> SUFFICES ASSUME NEW from \in Horizons, Under(from..Len(prior))
                 PROVE  (\E f \in Horizons : Under(f..Len(prior)))'
      OBVIOUS
    <2> PICK S : S = from..Len(prior)
      OBVIOUS
    <2>1. from \in Horizons' /\ Under(S)' /\ from..Len(prior') = S
      BY <1>1, <1>2
    <2>2. Under(from..Len(prior))'
      BY <2>1 DEF Under, Successes, Executions
    <2> QED
      BY <2>1, <2>2
  <1>4. Recent' = Recent
    BY DEF Recent
  <1> QED
    BY <1>1, <1>3, <1>4 DEF Earned, Failures, Violations

LEMMA ImproveSame ==
    ASSUME LoopTypeOK, ImproveInv, stored' = stored, prior' = prior, approved' = approved,
           Status' = Status, pc' \in {"inject", "start", "operation"} => approved = <<>>
    PROVE  ImproveInv'
  <1>1. \A t : Earned(t) => Earned(t)'
    <2>1. Len(stored) \in Nat /\ Len(prior) \in Nat /\ Len(stored') = Len(stored)
      BY DEF LoopTypeOK
    <2> QED
      BY <2>1, EarnedStays
  <1> QED
    BY <1>1, Zenon DEF ImproveInv

LEMMA AccountKept ==
    ASSUME NEW P, AccountInv(P), stored' = stored,
           step' = 4 /\ pc' = "operation" => written' = 0,
           Len(stored) \in Nat,
           pc' \in {"improve", "returned"} => pc \in {"improve", "returned"}
    PROVE  AccountInv(P)'
  <1>1. \A n, w : EndsWith(n, P, w)' <=> EndsWith(n, P, w)
    BY DEF EndsWith
  <1>2. (step = 4 /\ pc = "operation" => EndsWith(Len(stored), P, written))'
    BY DEF EndsWith
  <1>3. pc' \in {"improve", "returned"} \/ (\E i \in 1..Len(stored') : stored'[i].about = "improvement") =>
          \E n \in 0..Len(stored') :
             /\ EndsWith(n, P, Len(P))'
             /\ \A i \in 1..Len(stored') : stored'[i].about = "improvement" <=> i > n
    BY <1>1, Zenon DEF AccountInv
  <1> QED
    BY <1>2, <1>3, Zenon DEF AccountInv

LEMMA ComesStill ==
    ASSUME NEW F, NEW P, \A i \in 1..Len(stored) : Comes(stored[i], F, P), stored' = stored,
           step = 4 => step' = 4, step >= 3 => step' >= 3,
           pc \in {"improve", "returned", "raised"} /\ step = 4 => pc' \in {"improve", "returned", "raised"}
    PROVE  (\A i \in 1..Len(stored) : Comes(stored[i], F, P))'
  <1>1. \A r : Comes(r, F, P) => Comes(r, F, P)'
    BY DEF Comes
  <1> SUFFICES ASSUME NEW i \in 1..Len(stored')
               PROVE  Comes(stored[i], F, P)'
    OBVIOUS
  <1> PICK r : r = stored[i]
    OBVIOUS
  <1>2. Comes(r, F, P)'
    BY <1>1
  <1>3. stored'[i] = r
    OBVIOUS
  <1> QED
    BY <1>2, <1>3, Zenon DEF Comes

LEMMA AttemptsKept ==
    ASSUME LoopTypeOK, AttemptsInv, \A s : Attempts(s)' = Attempts(s),
           \/ step' = step /\ attempt' = attempt /\ (Waiting' => Waiting)
           \/ step' = step /\ attempt' = attempt + 1
           \/ step' = step + 1 /\ attempt' = 1
    PROVE  AttemptsInv'
  <1> SUFFICES ASSUME NEW s \in 1..4
               PROVE  /\ Attempts(s) <= MaxAttempts
                      /\ step' < s => Attempts(s) = 0
                      /\ step' = s => /\ Attempts(s) <= attempt'
                                      /\ Waiting' => Attempts(s) <= attempt' - 1
    BY DEF AttemptsInv
  <1>1. /\ Attempts(s) <= MaxAttempts
        /\ step < s => Attempts(s) = 0
        /\ step = s => Attempts(s) <= attempt /\ (Waiting => Attempts(s) <= attempt - 1)
    BY DEF AttemptsInv
  <1>2. Attempts(s) \in Nat /\ attempt \in Nat /\ step \in Int
    BY AttemptsOf, AgentAssumption DEF LoopTypeOK
  <1> QED
    BY <1>1, <1>2

LEMMA FailsKeeps ==
    ASSUME LoopInv, NEW type, Fails(type),
           UNCHANGED <<injected, prior, written, report, approved, stored>>,
           pc \in {"operation", "improve"}, pc = "improve" => type # "TRANSIENT",
           pc = "operation" /\ step >= 3 => written < Len(RecordsOf(step))
    PROVE  LoopInv'
  <1> PICK F, P, st : /\ F = FeedbackRecords /\ P = PersistedRecords /\ st = Status
                      /\ GoodFeedback(F, st) /\ GoodAccount(P, st) /\ RecordsInv(F, P)
    BY LoopInvIs
  <1>1. LoopTypeOK /\ PlaceInv /\ AttemptsInv /\ ImproveInv
    BY DEF LoopInv
  <1>2. /\ history' \in Seq(States) /\ \A s : Attempts(s)' = Attempts(s)
        /\ step' = step
        /\ \/ ShouldRetry(type) /\ pc' = "start" /\ attempt' = attempt + 1
           \/ ~ShouldRetry(type) /\ pc' = "raised" /\ attempt' = attempt
    BY <1>1, FailsIs
  <1>3. pc' \in {"start", "raised"} /\ (pc' = "start" => pc = "operation" /\ attempt < MaxAttempts)
    BY <1>2 DEF ShouldRetry
  <1>4. /\ step = 3 /\ pc = "operation" => written < Len(F)
        /\ step = 4 /\ pc = "operation" => written < Len(P)
    <2>1. Steps[3] = "VALIDATE" /\ Steps[4] = "REFLECT"
      BY DEF Steps
    <2>2. step = 3 => RecordsOf(step) = F
      BY <2>1 DEF RecordsOf
    <2>3. step = 4 => RecordsOf(step) = P
      BY <2>1 DEF RecordsOf
    <2> QED
      BY <2>2, <2>3
  <1>5. LoopTypeOK'
    BY <1>1, <1>2, <1>3, AgentAssumption DEF LoopTypeOK, Places
  <1>6. PlaceInv'
    BY <1>1, <1>2, <1>3 DEF PlaceInv
  <1>7. AttemptsInv'
    BY <1>1, <1>2, AttemptsKept DEF Waiting
  <1>8. ImproveInv'
    <2>1. Status' = Status
      BY StatusSame
    <2>2. pc' \in {"inject", "start", "operation"} => approved = <<>>
      BY <1>1, <1>3 DEF ImproveInv
    <2> QED
      BY <1>1, <2>1, <2>2, ImproveSame
  <1>9. /\ F \in Seq(Records) /\ P \in Seq(Records)
    BY DEF GoodFeedback, GoodAccount
  <1>10. (\A i \in 1..Len(stored) : Comes(stored[i], F, P))'
    <2>1. /\ step = 4 => step' = 4
          /\ step >= 3 => step' >= 3
          /\ pc \in {"improve", "returned", "raised"} /\ step = 4 => pc' \in {"improve", "returned", "raised"}
      BY <1>2, <1>3
    <2> QED
      BY <2>1, ComesStill DEF RecordsInv
  <1>11. CopiesInv(3, F)' /\ CopiesInv(4, P)'
    <2>1. step \in Int /\ Len(F) \in Nat /\ Len(P) \in Nat /\ pc' \in {"start", "improve", "returned", "raised"}
      BY <1>1, <1>3, <1>9 DEF LoopTypeOK
    <2>2. CopiesInv(3, F) /\ CopiesInv(4, P)
      BY DEF RecordsInv
    <2>3. CopiesInv(3, F)'
      BY <1>1, <1>2, <1>3, <1>4, <2>1, <2>2, CopiesKept
    <2>4. CopiesInv(4, P)'
      BY <1>1, <1>2, <1>3, <1>4, <2>1, <2>2, CopiesKept
    <2> QED
      BY <2>3, <2>4
  <1>12. WrittenInv(3, F)' /\ WrittenInv(4, P)'
    BY <1>1, <1>2, <1>3, <1>4 DEF WrittenInv, Waiting, RecordsInv, PlaceInv
  <1>13. AccountInv(P)'
    <2>1. AccountInv(P) /\ Len(stored) \in Nat
      BY <1>1 DEF RecordsInv, LoopTypeOK
    <2> QED
      BY <1>3, <2>1, AccountKept
  <1>14. RecordsInv(F, P)'
    BY <1>10, <1>11, <1>12, <1>13 DEF RecordsInv
  <1> QED
    BY <1>5, <1>6, <1>7, <1>8, <1>14, LoopInvNext

LEMMA SucceedsKeeps ==
    ASSUME LoopInv, Succeeds, UNCHANGED <<injected, prior, written, report, approved, stored>>,
           (pc = "operation" /\ step \in {1, 3}) \/ pc = "improve",
           step = 3 => written = Len(FeedbackRecords)
    PROVE  LoopInv'
  <1> PICK F, P, st : /\ F = FeedbackRecords /\ P = PersistedRecords /\ st = Status
                      /\ GoodFeedback(F, st) /\ GoodAccount(P, st) /\ RecordsInv(F, P)
    BY LoopInvIs
  <1>1. LoopTypeOK /\ PlaceInv /\ AttemptsInv /\ ImproveInv
    BY DEF LoopInv
  <1>2. history' \in Seq(States) /\ \A s : Attempts(s)' = Attempts(s)
    BY <1>1, SucceedsIs
  <1>3. /\ F \in Seq(Records) /\ P \in Seq(Records) /\ Len(F) \in Nat /\ Len(P) \in Nat
    BY DEF GoodFeedback, GoodAccount
  <1>4. \/ /\ pc = "operation" /\ step \in {1, 3} /\ pc' = "start" /\ step' = step + 1 /\ attempt' = 1
        \/ /\ pc = "improve" /\ step = 4 /\ pc' = "returned" /\ step' = step /\ attempt' = attempt
    BY <1>1 DEF Succeeds, PlaceInv
  <1>5. LoopTypeOK'
    BY <1>1, <1>2, <1>4, AgentAssumption DEF LoopTypeOK, Places
  <1>6. PlaceInv'
    BY <1>1, <1>4 DEF PlaceInv
  <1>7. AttemptsInv'
    BY <1>1, <1>2, <1>4, AttemptsKept DEF Waiting
  <1>8. ImproveInv'
    <2>1. Status' = Status
      BY StatusSame
    <2>2. pc' \in {"inject", "start", "operation"} => approved = <<>>
      BY <1>1, <1>4 DEF ImproveInv
    <2> QED
      BY <1>1, <2>1, <2>2, ImproveSame
  <1>9. (\A i \in 1..Len(stored) : Comes(stored[i], F, P))'
    <2>1. /\ step = 4 => step' = 4
          /\ step >= 3 => step' >= 3
          /\ pc \in {"improve", "returned", "raised"} /\ step = 4 => pc' \in {"improve", "returned", "raised"}
      BY <1>4
    <2> QED
      BY <2>1, ComesStill DEF RecordsInv
  <1>10. CopiesInv(3, F)' /\ CopiesInv(4, P)'
    <2>1. CopiesInv(3, F) /\ CopiesInv(4, P) /\ step \in Int
      BY <1>1 DEF RecordsInv, LoopTypeOK
    <2>2. CASE pc' = "start"
      <3>1. pc = "operation" /\ step' = step + 1 /\ step # 4
        BY <1>4, <2>2
      <3>2. CopiesInv(3, F)'
        BY <1>1, <1>2, <1>3, <2>1, <2>2, <3>1, CopiesAdvance
      <3>3. CopiesInv(4, P)'
        BY <1>1, <1>2, <1>3, <2>1, <2>2, <3>1, CopiesAdvance
      <3> QED
        BY <3>2, <3>3
    <2>3. CASE pc' = "returned"
      <3>1. pc = "improve" /\ step' = step /\ step = 4
        BY <1>4, <2>3
      <3>2. CopiesInv(3, F)'
        BY <1>1, <1>2, <1>3, <2>1, <2>3, <3>1, CopiesKept
      <3>3. CopiesInv(4, P)'
        BY <1>1, <1>2, <1>3, <2>1, <2>3, <3>1, CopiesKept
      <3> QED
        BY <3>2, <3>3
    <2> QED
      BY <1>4, <2>2, <2>3
  <1>11. WrittenInv(3, F)' /\ WrittenInv(4, P)'
    BY <1>4 DEF WrittenInv, Waiting, RecordsInv
  <1>12. AccountInv(P)'
    <2>1. AccountInv(P) /\ Len(stored) \in Nat
      BY <1>1 DEF RecordsInv, LoopTypeOK
    <2> QED
      BY <1>4, <2>1, AccountKept
  <1>13. RecordsInv(F, P)'
    BY <1>9, <1>10, <1>11, <1>12 DEF RecordsInv
  <1> QED
    BY <1>5, <1>6, <1>7, <1>8, <1>13, LoopInvNext

\* Before VALIDATE the run has no record that its report could be about.
LEMMA NothingToldYet ==
    ASSUME LoopTypeOK, NEW F, NEW P, NEW st, GoodFeedback(F, st), GoodAccount(P, st),
           \A i \in 1..Len(stored) : stored[i] = Record("decision", "injected", "applied")
    PROVE  /\ \A i \in 1..Len(F) : Copies(F[i]) = 0
           /\ \A i \in 1..Len(P) : Copies(P[i]) = 0
  <1>1. Record("decision", "injected", "applied").about = "injected"
    BY RecordIs
  <1>2. ASSUME NEW r, r.about # "injected"
        PROVE  Copies(r) = 0
    <2>1. \A i \in 1..Len(stored) : stored[i] # r
      BY <1>1, <1>2
    <2> QED
      BY <2>1, CopiesOf DEF LoopTypeOK
  <1>3. \A i \in 1..Len(F) : F[i].about # "injected"
    BY DEF GoodFeedback
  <1>4. \A i \in 1..Len(P) : P[i].about # "injected"
    BY DEF GoodAccount
  <1> QED
    BY <1>2, <1>3, <1>4

LEMMA ExecuteKeeps ==
    ASSUME LoopInv, pc = "operation", step = 2, report' \in Reports, Succeeds,
           UNCHANGED <<injected, prior, written, approved, stored>>
    PROVE  LoopInv'
  <1> PICK G, Q : G = FeedbackRecords /\ Q = PersistedRecords /\ RecordsInv(G, Q)
    BY LoopInvIs
  <1>1. LoopTypeOK /\ PlaceInv /\ AttemptsInv /\ ImproveInv
    BY DEF LoopInv
  <1>2. history' \in Seq(States) /\ \A s : Attempts(s)' = Attempts(s)
    BY <1>1, SucceedsIs
  <1>3. pc' = "start" /\ step' = 3 /\ attempt' = 1 /\ written = 0
    BY <1>1 DEF Succeeds, PlaceInv
  <1>4. LoopTypeOK'
    BY <1>1, <1>2, <1>3, AgentAssumption DEF LoopTypeOK, Places, Reports
  <1> SUFFICES ASSUME NEW F, NEW P, NEW st, F = FeedbackRecords', P = PersistedRecords', st = Status'
               PROVE  LoopInv'
    OBVIOUS
  <1>5. GoodFeedback(F, st) /\ GoodAccount(P, st)
    <2>1. GoodFeedback(FeedbackRecords, Status)' /\ GoodAccount(PersistedRecords, Status)'
      BY <1>4, FeedbackIsGood, AccountIsGood, PTL
    <2>2. GoodFeedback(F, st)
      BY <2>1, Zenon DEF GoodFeedback
    <2>3. GoodAccount(P, st)
      BY <2>1, Zenon DEF GoodAccount
    <2> QED
      BY <2>2, <2>3
  <1>6. PlaceInv'
    BY <1>3 DEF PlaceInv
  <1>7. AttemptsInv'
    BY <1>1, <1>2, <1>3, AttemptsKept DEF Waiting
  <1>8. \A i \in 1..Len(stored) : stored[i] = Record("decision", "injected", "applied")
    BY DEF RecordsInv, Comes
  <1>9. ImproveInv'
    <2>1. approved = <<>>
      BY <1>1 DEF ImproveInv
    <2>2. \A i \in 1..Len(stored) : stored[i].about # "improvement"
      BY <1>8, RecordIs
    <2>3. \A t \in Targets : Improvement(t).about = "improvement"
      BY RecordIs DEF Improvement
    <2>4. 1..Len(approved) = {}
      BY <2>1
    <2>5. Single(stored)'
      BY <2>2 DEF Single
    <2> QED
      BY <2>1, <2>2, <2>3, <2>4, <2>5 DEF ImproveInv
  <1>10. (\A i \in 1..Len(stored) : Comes(stored[i], F, P))'
    BY <1>8 DEF Comes
  <1>11. CopiesInv(3, F)' /\ CopiesInv(4, P)'
    <2>1. /\ \A i \in 1..Len(F) : Copies(F[i])' = 0
          /\ \A i \in 1..Len(P) : Copies(P[i])' = 0
      BY <1>1, <1>5, <1>8, NothingToldYet, CopiesSame
    <2>2. ~Begun(3)' /\ ~Begun(4)'
      BY <1>3 DEF Begun, Waiting
    <2>3. Now(3, Len(F))' = 0 /\ Now(4, Len(P))' = 0
      BY <1>3, <2>2 DEF Now
    <2>4. /\ \A i \in 1..Len(F) : Earlier(3, F, i)' = 0
          /\ \A i \in 1..Len(P) : Earlier(4, P, i)' = 0
      BY <2>1, <2>3 DEF Earlier
    <2>5. Attempts(3)' \in Nat /\ Attempts(4)' \in Nat
      BY <1>1, <1>2, AttemptsOf DEF LoopTypeOK
    <2>6. Len(F) \in Nat /\ Len(P) \in Nat
      BY <1>5 DEF GoodFeedback, GoodAccount
    <2>7. \A n \in Nat : \A i \in 1..n : i > 1 => i - 1 \in 1..n
      OBVIOUS
    <2> QED
      BY <2>2, <2>4, <2>5, <2>6, <2>7 DEF CopiesInv
  <1>12. WrittenInv(3, F)' /\ WrittenInv(4, P)'
    BY <1>3 DEF WrittenInv, Waiting
  <1>13. AccountInv(P)'
    <2>1. \A i \in 1..Len(stored) : stored[i].about # "improvement"
      BY <1>8, RecordIs
    <2> QED
      BY <1>3, <2>1 DEF AccountInv
  <1>14. RecordsInv(F, P)'
    BY <1>10, <1>11, <1>12, <1>13 DEF RecordsInv
  <1> QED
    BY <1>4, <1>6, <1>7, <1>9, <1>14, Zenon DEF LoopInv

LEMMA ComesAppended ==
    ASSUME LoopTypeOK, NEW F, NEW P, \A i \in 1..Len(stored) : Comes(stored[i], F, P),
           NEW x \in Records, stored' = Append(stored, x), Comes(x, F, P)',
           step' = step,
           pc \in {"improve", "returned", "raised"} /\ step = 4 => pc' \in {"improve", "returned", "raised"}
    PROVE  (\A i \in 1..Len(stored) : Comes(stored[i], F, P))'
  <1>1. \A r : Comes(r, F, P) => Comes(r, F, P)'
    BY DEF Comes
  <1> PICK q, p : q = stored /\ p = Append(q, x)
    OBVIOUS
  <1>2. /\ Len(p) = Len(q) + 1 /\ p[Len(q) + 1] = x /\ \A i \in 1..Len(q) : p[i] = q[i]
        /\ \A i \in 1..(Len(q) + 1) : i \in 1..Len(q) \/ i = Len(q) + 1
    BY AppendIs DEF LoopTypeOK
  <1>3. \A i \in 1..Len(p) : Comes(p[i], F, P)'
    BY <1>1, <1>2
  <1>4. stored' = p
    OBVIOUS
  <1> HIDE DEF Comes
  <1> SUFFICES ASSUME NEW i \in 1..Len(stored')
               PROVE  Comes(stored[i], F, P)'
    OBVIOUS
  <1> PICK r : r = p[i]
    OBVIOUS
  <1>5. Comes(r, F, P)'
    BY <1>3, <1>4
  <1>6. stored'[i] = r
    BY <1>4
  <1> QED
    BY <1>5, <1>6, Zenon DEF Comes

\* Before self-improvement there is no improvement.
LEMMA NothingImproved ==
    ASSUME LoopTypeOK, NEW F, NEW P, NEW st, GoodFeedback(F, st), GoodAccount(P, st),
           \A i \in 1..Len(stored) : Comes(stored[i], F, P), pc \in {"inject", "start", "operation"}
    PROVE  \A i \in 1..Len(stored) : stored[i].about # "improvement"
  <1>1. Record("decision", "injected", "applied").about # "improvement"
    BY RecordIs
  <1>2. \A j \in 1..Len(F) : F[j].about # "improvement"
    BY DEF GoodFeedback
  <1>3. \A j \in 1..Len(P) : P[j].about # "improvement"
    BY DEF GoodAccount
  <1> QED
    BY <1>1, <1>2, <1>3 DEF Comes

LEMMA ImproveAppended ==
    ASSUME LoopTypeOK, ImproveInv, NEW x \in Records, stored' = Append(stored, x), x.about # "improvement",
           prior' = prior, approved' = approved, Status' = Status,
           pc' \in {"inject", "start", "operation"} => pc \in {"inject", "start", "operation"}
    PROVE  ImproveInv'
  <1>1. \A t : Earned(t) => Earned(t)'
    <2>1. /\ Len(stored) \in Nat /\ Len(prior) \in Nat
          /\ Len(stored') \in Nat /\ Len(stored') >= Len(stored)
      BY DEF LoopTypeOK
    <2> QED
      BY <2>1, EarnedStays
  <1> PICK q, p : q = stored /\ p = Append(q, x)
    OBVIOUS
  <1>2. /\ Len(p) = Len(q) + 1 /\ p[Len(q) + 1] = x /\ \A i \in 1..Len(q) : p[i] = q[i]
        /\ \A i \in 1..(Len(q) + 1) : i \in 1..Len(q) \/ i = Len(q) + 1
    BY AppendIs DEF LoopTypeOK
  <1>3. \A i \in 1..Len(p) : p[i] = x \/ (i \in 1..Len(q) /\ p[i] = q[i])
    BY <1>2
  <1>4. \A t : Improvement(t).about = "improvement"
    BY RecordIs DEF Improvement
  <1>5. \A t : x # Improvement(t)
    BY <1>4
  <1>6. pc' \in {"inject", "start", "operation"} => approved' = <<>>
    BY DEF ImproveInv
  <1>7. \A i \in 1..Len(approved) :
           Earned(approved[i]) /\ \A j \in 1..Len(p) : p[j] # Improvement(approved[i])
    BY <1>3, <1>5 DEF ImproveInv
  <1>8. \A i, j \in 1..Len(approved) : approved[i] = approved[j] => i = j
    BY DEF ImproveInv
  <1>9. \A t \in Targets, j \in 1..Len(p) : p[j] = Improvement(t) => Earned(t)
    BY <1>3, <1>5 DEF ImproveInv
  <1>10. Single(p)
    <2>1. Single(q) /\ q \in Seq(Records)
      BY DEF ImproveInv, LoopTypeOK
    <2>2. \A j \in 1..Len(q) : q[j].about = "improvement" => q[j] # x
      OBVIOUS
    <2> QED
      BY <1>3, <2>1, <2>2 DEF Single
  <1>11. stored' = p
    OBVIOUS
  <1>12. \A t : Improvement(t)' = Improvement(t)
    BY Zenon DEF Improvement, Record, About
  <1> QED
    BY <1>1, <1>6, <1>7, <1>8, <1>9, <1>10, <1>11 DEF ImproveInv, Improvement, Record, About

LEMMA InjectKeeps ==
    ASSUME LoopInv, InjectAdaptations
    PROVE  LoopInv'
  <1> PICK F, P, st : /\ F = FeedbackRecords /\ P = PersistedRecords /\ st = Status
                      /\ GoodFeedback(F, st) /\ GoodAccount(P, st) /\ RecordsInv(F, P)
    BY LoopInvIs
  <1> PICK x : x = Record("decision", "injected", "applied")
    OBVIOUS
  <1>1. LoopTypeOK /\ PlaceInv /\ AttemptsInv /\ ImproveInv
    BY DEF LoopInv
  <1>2. /\ x \in Records /\ x.about = "injected"
    <2>1. "decision" \in Streams /\ "injected" \in Abouts /\ "applied" \in Whats
      BY DEF Streams, Abouts, Whats
    <2> QED
      BY <2>1, RecordIs
  <1>3. /\ pc = "inject" /\ step = 1 /\ step' = 1 /\ history' = history /\ attempt' = attempt
        /\ written' = written /\ report' = report /\ prior' = prior /\ approved' = approved
        /\ \/ pc' = "start" /\ stored' = Append(stored, x)
           \/ pc' = "raised" /\ stored' = stored
    BY <1>1 DEF InjectAdaptations, PlaceInv
  <1>4. \A s : Attempts(s)' = Attempts(s)
    BY <1>3, AttemptsSame
  <1>5. stored' \in Seq(Records)
    <2>1. stored \in Seq(Records)
      BY <1>1 DEF LoopTypeOK
    <2>2. Append(stored, x) \in Seq(Records)
      BY <1>2, <2>1, AppendProperties
    <2> QED
      BY <1>3, <2>1, <2>2
  <1>6. LoopTypeOK'
    BY <1>1, <1>3, <1>5 DEF LoopTypeOK, Places, InjectAdaptations
  <1>7. PlaceInv'
    BY <1>3 DEF PlaceInv
  <1>8. AttemptsInv'
    BY <1>1, <1>3, <1>4, AttemptsKept DEF Waiting
  <1>9. Status' = Status
    BY <1>3, StatusSame
  <1>10. \A i \in 1..Len(F) : F[i] # x
    BY <1>2 DEF GoodFeedback
  <1>11. \A i \in 1..Len(P) : P[i] # x
    BY <1>2 DEF GoodAccount
  <1>12. RecordsInv(F, P)
    OBVIOUS
  <1>13. \A i \in 1..Len(stored) : Comes(stored[i], F, P)
    BY <1>12 DEF RecordsInv
  <1>14. \A i \in 1..Len(stored) : stored[i].about # "improvement"
    BY <1>1, <1>3, <1>13, NothingImproved
  <1>15. CASE pc' = "start" /\ stored' = Append(stored, x)
    <2>1. ImproveInv'
      BY <1>1, <1>2, <1>3, <1>9, <1>15, ImproveAppended
    <2>2. (\A i \in 1..Len(stored) : Comes(stored[i], F, P))'
      <3>1. Comes(x, F, P)'
        BY DEF Comes
      <3>2. step' = step /\ ~(pc \in {"improve", "returned", "raised"} /\ step = 4)
        BY <1>3
      <3> QED
        BY <1>1, <1>2, <1>13, <1>15, <3>1, <3>2, ComesAppended
    <2>3. CopiesInv(3, F)' /\ CopiesInv(4, P)'
      <3>1. Waiting' <=> Waiting
        BY <1>3, <1>15 DEF Waiting
      <3>2. CopiesInv(3, F) /\ CopiesInv(4, P) /\ step' = step
        BY <1>3, <1>12 DEF RecordsInv
      <3>3. CopiesInv(3, F)'
        BY <1>1, <1>2, <1>3, <1>4, <1>10, <1>15, <3>1, <3>2, CopiesOthers
      <3>4. CopiesInv(4, P)'
        BY <1>1, <1>2, <1>3, <1>4, <1>11, <1>15, <3>1, <3>2, CopiesOthers
      <3> QED
        BY <3>3, <3>4
    <2>4. WrittenInv(3, F)' /\ WrittenInv(4, P)'
      BY <1>3 DEF WrittenInv
    <2>5. AccountInv(P)'
      <3>1. \A i \in 1..Len(stored') : stored'[i].about # "improvement"
        <4>1. \A i \in 1..Len(stored') : stored'[i] = x \/ (i \in 1..Len(stored) /\ stored'[i] = stored[i])
          BY <1>1, <1>2, <1>15, AppendIs DEF LoopTypeOK
        <4> QED
          BY <1>2, <1>14, <4>1
      <3> QED
        BY <1>3, <1>15, <3>1 DEF AccountInv
    <2>6. RecordsInv(F, P)'
      BY <2>2, <2>3, <2>4, <2>5 DEF RecordsInv
    <2> QED
      BY <1>3, <1>6, <1>7, <1>8, <2>1, <2>6, LoopInvNext
  <1>16. CASE pc' = "raised" /\ stored' = stored
    <2>1. ImproveInv'
      BY <1>1, <1>3, <1>9, <1>16, ImproveSame
    <2>2. (\A i \in 1..Len(stored) : Comes(stored[i], F, P))'
      BY <1>3, <1>13, <1>16, ComesStill
    <2>3. CopiesInv(3, F)' /\ CopiesInv(4, P)'
      <3>1. CopiesInv(3, F) /\ CopiesInv(4, P)
        BY <1>12 DEF RecordsInv
      <3>2. /\ ~Begun(3) /\ ~Begun(3)' /\ ~Begun(4) /\ ~Begun(4)'
            /\ Now(3, Len(F)) = 0 /\ Now(3, Len(F))' = 0 /\ Now(4, Len(P)) = 0 /\ Now(4, Len(P))' = 0
        BY <1>3 DEF Begun, Now
      <3>3. \A r : Copies(r)' = Copies(r)
        BY <1>16, CopiesSame
      <3> QED
        BY <1>4, <3>1, <3>2, <3>3, CopiesUntouched
    <2>4. WrittenInv(3, F)' /\ WrittenInv(4, P)'
      BY <1>3 DEF WrittenInv
    <2>5. AccountInv(P)'
      BY <1>3, <1>14, <1>16 DEF AccountInv
    <2>6. RecordsInv(F, P)'
      BY <2>2, <2>3, <2>4, <2>5 DEF RecordsInv
    <2> QED
      BY <1>3, <1>6, <1>7, <1>8, <2>1, <2>6, LoopInvNext
  <1> QED
    BY <1>3, <1>15, <1>16

LEMMA StartKeeps ==
    ASSUME LoopInv, StartAttempt
    PROVE  LoopInv'
  <1> PICK F, P, st : /\ F = FeedbackRecords /\ P = PersistedRecords /\ st = Status
                      /\ GoodFeedback(F, st) /\ GoodAccount(P, st) /\ RecordsInv(F, P)
    BY LoopInvIs
  <1> PICK h : h = State("STARTED")
    OBVIOUS
  <1>1. LoopTypeOK /\ PlaceInv /\ AttemptsInv /\ ImproveInv
    BY DEF LoopInv
  <1>2. /\ pc = "start" /\ pc' = "operation" /\ written' = 0 /\ history' = Append(history, h)
        /\ injected' = injected /\ prior' = prior /\ step' = step /\ attempt' = attempt
        /\ report' = report /\ approved' = approved /\ stored' = stored
    BY DEF StartAttempt
  <1>3. h \in States /\ h.step = step /\ h.status = "STARTED"
    BY <1>1, StateIs
  <1>4. history' \in Seq(States)
    <2>1. history \in Seq(States)
      BY <1>1 DEF LoopTypeOK
    <2>2. Append(history, h) \in Seq(States)
      BY <1>3, <2>1, AppendProperties
    <2> QED
      BY <1>2, <2>2
  <1>5. \A s : Attempts(s)' = Attempts(s) + IF s = step THEN 1 ELSE 0
    <2> TAKE s
    <2>1. Attempts(s)' = Attempts(s) + IF h.step = s /\ h.status = "STARTED" THEN 1 ELSE 0
      BY <1>1, <1>2, <1>3, AttemptsStep DEF LoopTypeOK
    <2> QED
      BY <1>3, <2>1
  <1>6. LoopTypeOK'
    BY <1>1, <1>2, <1>4 DEF LoopTypeOK, Places
  <1>7. PlaceInv'
    BY <1>2 DEF PlaceInv
  <1>8. AttemptsInv'
    <2> SUFFICES ASSUME NEW s \in 1..4
                 PROVE  /\ Attempts(s)' <= MaxAttempts
                        /\ step < s => Attempts(s)' = 0
                        /\ step = s => Attempts(s)' <= attempt
      BY <1>2 DEF AttemptsInv, Waiting
    <2>1. Attempts(s) \in Nat /\ attempt \in 1..MaxAttempts /\ MaxAttempts \in Nat /\ step \in Int
      BY <1>1, AttemptsOf, AgentAssumption DEF LoopTypeOK
    <2>2. /\ Attempts(s) <= MaxAttempts
          /\ step < s => Attempts(s) = 0
          /\ step = s => Attempts(s) <= attempt - 1
      BY <1>1, <1>2 DEF AttemptsInv, Waiting
    <2> QED
      BY <1>5, <2>1, <2>2
  <1>9. ImproveInv'
    <2>1. Status' = Status
      BY <1>2, StatusSame
    <2>2. approved = <<>>
      BY <1>1, <1>2 DEF ImproveInv
    <2> QED
      BY <1>1, <1>2, <2>1, <2>2, ImproveSame
  <1>10. (\A i \in 1..Len(stored) : Comes(stored[i], F, P))'
    <2>1. \A i \in 1..Len(stored) : Comes(stored[i], F, P)
      BY DEF RecordsInv
    <2> QED
      BY <1>2, <2>1, ComesStill
  <1>11. CopiesInv(3, F)' /\ CopiesInv(4, P)'
    <2>1. CopiesInv(3, F) /\ CopiesInv(4, P) /\ Len(F) \in Nat /\ Len(P) \in Nat
      BY DEF RecordsInv, GoodFeedback, GoodAccount
    <2>2. CopiesInv(3, F)'
      BY <1>1, <1>2, <1>5, <2>1, CopiesStart
    <2>3. CopiesInv(4, P)'
      BY <1>1, <1>2, <1>5, <2>1, CopiesStart
    <2> QED
      BY <2>2, <2>3
  <1>12. WrittenInv(3, F)' /\ WrittenInv(4, P)'
    <2>1. Len(F) \in Nat /\ Len(P) \in Nat
      BY DEF GoodFeedback, GoodAccount
    <2> QED
      BY <1>2, <2>1 DEF WrittenInv
  <1>13. AccountInv(P)'
    <2>1. AccountInv(P) /\ Len(stored) \in Nat
      BY <1>1 DEF RecordsInv, LoopTypeOK
    <2> QED
      BY <1>2, <2>1, AccountKept
  <1>14. RecordsInv(F, P)'
    BY <1>10, <1>11, <1>12, <1>13 DEF RecordsInv
  <1> QED
    BY <1>2, <1>6, <1>7, <1>8, <1>9, <1>14, LoopInvNext

LEMMA WriteKeeps ==
    ASSUME LoopInv, WriteRecord
    PROVE  LoopInv'
  <1> PICK F, P, st : /\ F = FeedbackRecords /\ P = PersistedRecords /\ st = Status
                      /\ GoodFeedback(F, st) /\ GoodAccount(P, st) /\ RecordsInv(F, P)
    BY LoopInvIs
  <1> PICK R, w : R = RecordsOf(step) /\ w = written
    OBVIOUS
  <1>1. LoopTypeOK /\ PlaceInv /\ AttemptsInv /\ ImproveInv
    BY DEF LoopInv
  <1>2. /\ pc = "operation" /\ pc' = pc /\ w < Len(R) /\ stored' = Append(stored, R[w + 1])
        /\ written' = w + 1 /\ injected' = injected /\ prior' = prior /\ step' = step
        /\ attempt' = attempt /\ report' = report /\ approved' = approved /\ history' = history
    BY DEF WriteRecord
  <1>3. (step = 3 /\ R = F) \/ (step = 4 /\ R = P)
    <2>1. step \in {1, 2, 3, 4} /\ w \in Nat
      BY <1>1 DEF LoopTypeOK
    <2>2. step \in {1, 2} => R = <<>>
      BY DEF RecordsOf, Steps
    <2>3. Len(<<>>) = 0
      OBVIOUS
    <2>4. step \notin {1, 2}
      BY <1>2, <2>1, <2>2, <2>3
    <2>5. step = 3 => R = F
      BY DEF RecordsOf, Steps
    <2>6. step = 4 => R = P
      BY DEF RecordsOf, Steps
    <2> QED
      BY <2>1, <2>4, <2>5, <2>6
  <1>4. /\ F \in Seq(Records) /\ P \in Seq(Records) /\ Distinct(F) /\ Distinct(P)
        /\ Len(F) \in Nat /\ Len(P) \in Nat
    BY DEF GoodFeedback, GoodAccount
  <1> PICK x : x = R[w + 1]
    OBVIOUS
  <1>5. w \in Nat /\ w + 1 \in 1..Len(R) /\ x \in Records
    <2>1. w \in Nat
      BY <1>1 DEF LoopTypeOK
    <2> QED
      BY <1>2, <1>3, <1>4, <2>1
  <1>6. /\ step = 3 => x.about = "feedback"
        /\ step = 4 => x.about \in {"record", "summary", "task", "run"}
    BY <1>3, <1>5 DEF GoodFeedback, GoodAccount
  <1>7. x.about # "improvement"
    BY <1>3, <1>6
  <1>8. \A s : Attempts(s)' = Attempts(s)
    BY <1>2, AttemptsSame
  <1>9. stored' \in Seq(Records)
    <2>1. stored \in Seq(Records)
      BY <1>1 DEF LoopTypeOK
    <2>2. Append(stored, x) \in Seq(Records)
      BY <1>5, <2>1, AppendProperties
    <2> QED
      BY <1>2, <2>2
  <1>10. LoopTypeOK'
    BY <1>1, <1>2, <1>5, <1>9 DEF LoopTypeOK
  <1>11. PlaceInv'
    BY <1>1, <1>2, <1>3 DEF PlaceInv
  <1>12. AttemptsInv'
    BY <1>1, <1>2, <1>8, AttemptsKept DEF Waiting
  <1>13. ImproveInv'
    <2>1. Status' = Status
      BY <1>2, StatusSame
    <2> QED
      BY <1>1, <1>2, <1>5, <1>7, <2>1, ImproveAppended
  <1>14. (\A i \in 1..Len(stored) : Comes(stored[i], F, P))'
    <2>1. \A i \in 1..Len(stored) : Comes(stored[i], F, P)
      BY DEF RecordsInv
    <2>2. Comes(x, F, P)'
      BY <1>2, <1>3, <1>5 DEF Comes
    <2>3. stored' = Append(stored, x) /\ step' = step /\ ~(pc \in {"improve", "returned", "raised"})
      BY <1>2
    <2> QED
      BY <1>1, <1>5, <2>1, <2>2, <2>3, ComesAppended
  <1>15. CopiesInv(3, F)' /\ CopiesInv(4, P)'
    <2>1. CopiesInv(3, F) /\ CopiesInv(4, P)
      BY DEF RecordsInv
    <2>2. (Waiting' <=> Waiting) /\ stored' = Append(stored, x)
      BY <1>2 DEF Waiting
    <2>3. CASE step = 3
      <3>1. CopiesInv(3, F)'
        BY <1>1, <1>2, <1>3, <1>4, <1>8, <2>1, <2>3, CopiesWrite
      <3>2. \A i \in 1..Len(P) : P[i] # x
        BY <1>6, <2>3 DEF GoodAccount
      <3>3. CopiesInv(4, P)'
        BY <1>1, <1>2, <1>5, <1>8, <2>1, <2>2, <2>3, <3>2, CopiesOthers
      <3> QED
        BY <3>1, <3>3
    <2>4. CASE step = 4
      <3>1. CopiesInv(4, P)'
        BY <1>1, <1>2, <1>3, <1>4, <1>8, <2>1, <2>4, CopiesWrite
      <3>2. \A i \in 1..Len(F) : F[i] # x
        BY <1>6, <2>4 DEF GoodFeedback
      <3>3. CopiesInv(3, F)'
        BY <1>1, <1>2, <1>5, <1>8, <2>1, <2>2, <2>4, <3>2, CopiesOthers
      <3> QED
        BY <3>1, <3>3
    <2> QED
      BY <1>3, <2>3, <2>4
  <1>16. WrittenInv(3, F)' /\ WrittenInv(4, P)'
    BY <1>2, <1>3, <1>4, <1>5 DEF WrittenInv
  <1>17. AccountInv(P)'
    <2> PICK q, p : q = stored /\ p = Append(q, x)
      OBVIOUS
    <2>1. /\ Len(p) = Len(q) + 1 /\ Len(q) \in Nat /\ p[Len(q) + 1] = x
          /\ \A i \in 1..Len(q) : p[i] = q[i]
          /\ \A i \in 1..(Len(q) + 1) : i \in 1..Len(q) \/ i = Len(q) + 1
      BY <1>1, <1>5, AppendIs DEF LoopTypeOK
    <2>2. \A i \in 1..Len(q) : q[i].about # "improvement"
      <3>1. \A i \in 1..Len(stored) : Comes(stored[i], F, P)
        BY DEF RecordsInv
      <3> QED
        BY <1>1, <1>2, <3>1, NothingImproved
    <2>3. \A i \in 1..Len(p) : p[i].about # "improvement"
      BY <1>7, <2>1, <2>2
    <2>4. stored' = p
      BY <1>2
    <2>5. step = 4 => Len(p) >= w + 1 /\ \A i \in 1..(w + 1) : p[Len(p) - (w + 1) + i] = P[i]
      <3> SUFFICES ASSUME step = 4
                   PROVE  Len(p) >= w + 1 /\ \A i \in 1..(w + 1) : p[Len(p) - (w + 1) + i] = P[i]
        OBVIOUS
      <3>1. Len(q) >= w /\ \A i \in 1..w : q[Len(q) - w + i] = P[i]
        BY <1>2 DEF RecordsInv, AccountInv, EndsWith
      <3>2. \A i \in 1..w : Len(q) - w + i \in 1..Len(q) /\ Len(p) - (w + 1) + i = Len(q) - w + i
        BY <1>5, <2>1, <3>1
      <3>3. Len(p) - (w + 1) + (w + 1) = Len(q) + 1 /\ P[w + 1] = x
        BY <1>3, <1>5, <2>1
      <3>4. \A i \in 1..(w + 1) : i \in 1..w \/ i = w + 1
        BY <1>5
      <3> QED
        BY <1>5, <2>1, <3>1, <3>2, <3>3, <3>4
    <2>6. (step = 4 /\ pc = "operation" => EndsWith(Len(stored), P, written))'
      BY <1>2, <2>4, <2>5 DEF EndsWith
    <2> QED
      BY <1>2, <2>3, <2>4, <2>6 DEF AccountInv
  <1>18. RecordsInv(F, P)'
    BY <1>14, <1>15, <1>16, <1>17 DEF RecordsInv
  <1> QED
    BY <1>2, <1>10, <1>11, <1>12, <1>13, <1>18, LoopInvNext

-----------------------------------------------------------------------------
(***************************************************************************)
(* What self-improvement finds at the end of a run.                        *)
(***************************************************************************)
Lists(q, S) == q \in Seq(S) /\ Distinct(q)

LEMMA ListsTogether ==
    ASSUME NEW A, NEW B, NEW q, NEW g, Lists(q, A), Lists(g, B), A \cap B = {}
    PROVE  Lists(q \o g, A \cup B)
  <1> DEFINE T == A \cup B
  <1>0. /\ q \in Seq(T) /\ g \in Seq(T) /\ Distinct(q) /\ Distinct(g)
        /\ \A i \in 1..Len(q) : \A j \in 1..Len(g) : q[i] # g[j]
    BY DEF Lists
  <1> HIDE DEF T
  <1> PICK c : c = q \o g
    OBVIOUS
  <1>1. /\ c \in Seq(T) /\ Len(c) = Len(q) + Len(g)
        /\ \A i \in 1..Len(c) : c[i] = IF i <= Len(q) THEN q[i] ELSE g[i - Len(q)]
    BY <1>0, ConcatProperties
  <1>2. Len(q) \in Nat /\ Len(g) \in Nat
    BY <1>0
  <1>3. \A i \in 1..Len(c) : \/ i \in 1..Len(q) /\ c[i] = q[i]
                             \/ i - Len(q) \in 1..Len(g) /\ c[i] = g[i - Len(q)]
    BY <1>1, <1>2
  <1>4. Distinct(c)
    <2> SUFFICES ASSUME NEW i \in 1..Len(c), NEW j \in 1..Len(c), c[i] = c[j]
                 PROVE  i = j
      BY DEF Distinct
    <2>1. CASE i \in 1..Len(q) /\ c[i] = q[i]
      <3>1. j \in 1..Len(q) /\ c[j] = q[j]
        BY <1>0, <1>3, <2>1
      <3> QED
        BY <1>0, <2>1, <3>1 DEF Distinct
    <2>2. CASE i - Len(q) \in 1..Len(g) /\ c[i] = g[i - Len(q)]
      <3>1. j - Len(q) \in 1..Len(g) /\ c[j] = g[j - Len(q)]
        BY <1>0, <1>3, <2>2
      <3> PICK a, b : a = i - Len(q) /\ b = j - Len(q)
        OBVIOUS
      <3>a. a \in 1..Len(g) /\ b \in 1..Len(g) /\ g[a] = g[b]
        BY <2>2, <3>1
      <3>2. a = b
        BY <1>0, <3>a DEF Distinct
      <3> QED
        BY <1>1, <1>2, <3>2
    <2> QED
      BY <1>3, <2>1, <2>2
  <1> QED
    BY <1>1, <1>4 DEF Lists, T

LEMMA IfApprovedIs ==
    ASSUME NEW t \in Targets
    PROVE  Lists(IfApproved(t), {x \in {t} : Optimized(x)})
  <1> PICK S : S = {x \in {t} : Optimized(x)}
    OBVIOUS
  <1>1. CASE IfApproved(t) = <<>>
    <2>1. <<>> \in Seq(S) /\ 1..Len(<<>>) = {}
      BY EmptySeq
    <2> QED
      BY <1>1, <2>1 DEF Lists, Distinct
  <1>2. CASE IfApproved(t) = <<t>> /\ Optimized(t)
    <2> PICK q : q = <<t>>
      OBVIOUS
    <2>1. q \in Seq(S) /\ Len(q) = 1 /\ q[1] = t
      BY <1>2
    <2>2. 1..1 = {1}
      OBVIOUS
    <2> QED
      BY <1>2, <2>1, <2>2 DEF Lists, Distinct
  <1>3. IfApproved(t) = <<>> \/ (IfApproved(t) = <<t>> /\ Optimized(t))
    BY Zenon DEF IfApproved
  <1> QED
    BY <1>1, <1>2, <1>3

LEMMA ApprovedIs ==
    /\ Approved \in Seq(Targets) /\ Distinct(Approved)
    /\ \A i \in 1..Len(Approved) : Optimized(Approved[i])
  <1> PICK O : O = {x \in Targets : Optimized(x)}
    OBVIOUS
  <1> PICK a, b, c : /\ a = IfApproved("policy_violation_guard") /\ b = IfApproved("retry_limit")
                     /\ c = IfApproved("policy_gate")
    OBVIOUS
  <1> PICK A, B, C : /\ A = {x \in {"policy_violation_guard"} : Optimized(x)}
                     /\ B = {x \in {"retry_limit"} : Optimized(x)}
                     /\ C = {x \in {"policy_gate"} : Optimized(x)}
    OBVIOUS
  <1>1. Lists(a, A) /\ Lists(b, B) /\ Lists(c, C)
    BY IfApprovedIs DEF Targets
  <1>2. A \cap B = {} /\ (A \cup B) \cap C = {}
    OBVIOUS
  <1>3. (A \cup B) \cup C \subseteq O
    BY DEF Targets
  <1>4. Lists(a \o b, A \cup B)
    BY <1>1, <1>2, ListsTogether
  <1>5. Lists(a \o b \o c, (A \cup B) \cup C)
    BY <1>1, <1>2, <1>4, ListsTogether
  <1> PICK e : e = a \o b \o c
    OBVIOUS
  <1>6. e \in Seq((A \cup B) \cup C) /\ Distinct(e)
    BY <1>5 DEF Lists
  <1>7. e \in Seq(Targets) /\ \A i \in 1..Len(e) : e[i] \in O
    BY <1>3, <1>6
  <1>8. Approved = e
    BY Zenon DEF Approved
  <1> QED
    BY <1>6, <1>7, <1>8

\* Behind the whole account of a report, evidence is not of its own making.
LEMMA EvidenceIsGood ==
    ASSUME LoopInv, step = 4, pc = "operation", written = Len(PersistedRecords),
           NEW target \in Targets, Optimized(target)
    PROVE  Earned(target)
  <1> PICK F, P, st : /\ F = FeedbackRecords /\ P = PersistedRecords /\ st = Status
                      /\ GoodFeedback(F, st) /\ GoodAccount(P, st) /\ RecordsInv(F, P)
    BY LoopInvIs
  <1>1. LoopTypeOK /\ ImproveInv
    BY DEF LoopInv
  <1>2. \A i \in 1..Len(stored) : \/ stored[i] = Record("decision", "injected", "applied")
                                  \/ \E j \in 1..Len(F) : stored[i] = F[j]
                                  \/ \E j \in 1..Len(P) : stored[i] = P[j]
    BY DEF RecordsInv, Comes
  <1>3. Record("decision", "injected", "applied").stream = "decision"
    BY RecordIs
  <1>4. st = "success" =>
           \A i \in 1..Len(stored) : /\ stored[i].stream # "failure"
                                     /\ stored[i].stream = "execution" => stored[i].what = "success"
    <2> SUFFICES ASSUME st = "success", NEW i \in 1..Len(stored)
                 PROVE  /\ stored[i].stream # "failure"
                        /\ stored[i].stream = "execution" => stored[i].what = "success"
      OBVIOUS
    <2> PICK r : r = stored[i]
      OBVIOUS
    <2>1. CASE r = Record("decision", "injected", "applied")
      BY <1>3, <2>1
    <2>2. CASE \E j \in 1..Len(F) : r = F[j]
      <3>1. r.stream \in {"decision", "failure"} /\ r.stream # "failure"
        BY <2>2 DEF GoodFeedback
      <3> QED
        BY <3>1
    <2>3. CASE \E j \in 1..Len(P) : r = P[j]
      BY <2>3 DEF GoodAccount
    <2> QED
      BY <1>2, <2>1, <2>2, <2>3
  <1> PICK m, n : m = Len(prior) /\ n = Len(stored)
    OBVIOUS
  <1>5. m \in Nat /\ n \in Nat /\ Limit \in Nat
    BY <1>1, AgentAssumption DEF LoopTypeOK
  <1>6. RecentPast \subseteq Recent
    BY <1>5 DEF RecentPast, Recent
  <1>7. CASE target = "policy_violation_guard"
    <2>1. Violations(prior, RecentPast) # {}
      BY <1>7 DEF Optimized
    <2>2. Violations(prior, RecentPast) \subseteq Violations(prior, Recent)
      BY <1>6 DEF Violations
    <2> QED
      BY <1>7, <2>1, <2>2 DEF Earned
  <1>8. CASE target = "policy_gate"
    <2>1. Failures(prior, RecentPast) # {} \/ Failures(stored, RecentOwn) # {}
      BY <1>8 DEF Optimized
    <2>2. Failures(prior, RecentPast) \subseteq Failures(prior, Recent)
      BY <1>6 DEF Failures
    <2>3. st = "success" => Failures(stored, RecentOwn) = {}
      BY <1>4 DEF Failures, RecentOwn
    <2> QED
      BY <1>8, <2>1, <2>2, <2>3 DEF Earned
  <1>9. CASE target = "retry_limit"
    <2> SUFFICES ASSUME st = "success"
                 PROVE  \E from \in Horizons : Under(from..Len(prior))
      BY <1>9 DEF Earned
    <2> PICK own, GP, EP : /\ own = Cardinality(Executions(stored, RecentOwn))
                           /\ GP = Cardinality(Successes(prior, RecentPast))
                           /\ EP = Cardinality(Executions(prior, RecentPast))
      OBVIOUS
    <2>1. Successes(stored, RecentOwn) = Executions(stored, RecentOwn)
      BY <1>4 DEF Successes, Executions, RecentOwn
    <2>2. 10 * (GP + own) < 8 * (EP + own)
      <3>1. 10 * Good < 8 * Entries
        BY <1>9 DEF Optimized
      <3> QED
        BY <2>1, <3>1, Zenon DEF Good, Entries
    <2>3. own \in Nat /\ GP \in Nat /\ EP \in Nat /\ IsFiniteSet(Executions(stored, RecentOwn))
      <3>1. 1 \in Int /\ m \in Int /\ n \in Int
        BY <1>5
      <3>2. IsFiniteSet(1..m) /\ IsFiniteSet(1..n)
        BY <3>1, FS_Interval
      <3>3. /\ Executions(stored, RecentOwn) \in SUBSET (1..n)
            /\ Successes(prior, RecentPast) \in SUBSET (1..m)
            /\ Executions(prior, RecentPast) \in SUBSET (1..m)
        BY DEF Executions, Successes, RecentOwn, RecentPast
      <3>4. /\ IsFiniteSet(Executions(stored, RecentOwn))
            /\ IsFiniteSet(Successes(prior, RecentPast))
            /\ IsFiniteSet(Executions(prior, RecentPast))
        BY <3>2, <3>3, FS_Subset
      <3> QED
        BY <3>4, FS_CardinalityType
    <2>4. n < Limit
      <3> SUFFICES ASSUME n >= Limit
                   PROVE  FALSE
        BY <1>5
      <3>1. RecentPast = {}
        BY <1>5 DEF RecentPast
      <3>2. Successes(prior, RecentPast) = {} /\ Executions(prior, RecentPast) = {}
        BY <3>1 DEF Successes, Executions
      <3>3. GP = 0 /\ EP = 0
        BY <3>2, FS_EmptySet
      <3> QED
        BY <2>2, <2>3, <3>3
    <2>5. own >= 2
      <3> PICK w : w = Len(P)
        OBVIOUS
      <3>1. w \in Nat /\ w >= 3 /\ P[1].stream = "execution" /\ P[2].stream = "execution"
        BY <1>1 DEF LoopTypeOK, GoodAccount
      <3>2. n >= w /\ \A i \in 1..w : stored[n - w + i] = P[i]
        BY DEF RecordsInv, AccountInv, EndsWith
      <3> PICK x, y : x = n - w + 1 /\ y = n - w + 2
        OBVIOUS
      <3>3. x \in 1..n /\ y \in 1..n /\ x # y /\ stored[x] = P[1] /\ stored[y] = P[2]
        <4>1. x \in 1..n /\ y \in 1..n /\ x # y /\ 1 \in 1..w /\ 2 \in 1..w
          BY <1>5, <3>1, <3>2
        <4>2. stored[n - w + 1] = P[1] /\ stored[n - w + 2] = P[2]
          BY <3>2, <4>1
        <4> QED
          BY <4>1, <4>2
      <3>4. RecentOwn = 1..n
        BY <1>5, <2>4 DEF RecentOwn
      <3>5. {x} \cup {y} \in SUBSET Executions(stored, RecentOwn)
        BY <3>1, <3>3, <3>4 DEF Executions
      <3>6. IsFiniteSet({x}) /\ Cardinality({x}) = 1
        BY FS_Singleton
      <3>7. Cardinality({x} \cup {y}) = Cardinality({x}) + 1
        BY <3>3, <3>6, FS_AddElement
      <3>8. Cardinality({x} \cup {y}) <= own
        BY <2>3, <3>5, FS_Subset
      <3> QED
        BY <2>3, <3>6, <3>7, <3>8
    <2> PICK from : from = IF m + n < Limit THEN 1 ELSE m + n - Limit + 1
      OBVIOUS
    <2>6. from \in Horizons
      BY <1>5, <2>4 DEF Horizons
    <2>7. RecentPast = from..Len(prior)
      BY <1>5, <2>4 DEF RecentPast
    <2>8. Under(RecentPast)
      <3>1. 10 * (GP + 2) < 8 * (EP + 2)
        <4>1. \A a, b, c \in Nat : c >= 2 /\ 10 * (a + c) < 8 * (b + c) => 10 * (a + 2) < 8 * (b + 2)
          OBVIOUS
        <4> QED
          BY <2>2, <2>3, <2>5, <4>1
      <3> QED
        BY <3>1 DEF Under
    <2> QED
      BY <2>6, <2>7, <2>8
  <1> QED
    BY <1>7, <1>8, <1>9 DEF Targets

LEMMA PersistKeeps ==
    ASSUME LoopInv, Persist
    PROVE  LoopInv'
  <1> PICK F, P, st : /\ F = FeedbackRecords /\ P = PersistedRecords /\ st = Status
                      /\ GoodFeedback(F, st) /\ GoodAccount(P, st) /\ RecordsInv(F, P)
    BY LoopInvIs
  <1>1. LoopTypeOK /\ PlaceInv /\ AttemptsInv /\ ImproveInv
    BY DEF LoopInv
  <1>2. /\ pc = "operation" /\ pc' = "improve" /\ written = Len(P)
        /\ approved' \in {Approved, <<>>}
        /\ injected' = injected /\ prior' = prior /\ step' = step /\ attempt' = attempt
        /\ written' = written /\ report' = report /\ stored' = stored /\ history' = history
    BY DEF Persist, InStep
  <1>3. step = 4
    BY <1>1 DEF Persist, InStep, Steps, LoopTypeOK
  <1>4. /\ approved' \in Seq(Targets) /\ Distinct(approved')
        /\ \A i \in 1..Len(approved') : Earned(approved'[i])
    <2>1. CASE approved' = Approved
      <3>1. \A i \in 1..Len(Approved) : Approved[i] \in Targets /\ Optimized(Approved[i])
        BY ApprovedIs
      <3>2. \A t \in Targets : Optimized(t) => Earned(t)
        BY <1>2, <1>3, EvidenceIsGood
      <3>3. \A i \in 1..Len(Approved) : Earned(Approved[i])
        BY <3>1, <3>2
      <3> QED
        BY <2>1, <3>3, ApprovedIs
    <2>2. CASE approved' = <<>>
      <3>1. <<>> \in Seq(Targets) /\ 1..Len(<<>>) = {}
        BY EmptySeq
      <3> QED
        BY <2>2, <3>1 DEF Distinct
    <2> QED
      BY <1>2, <2>1, <2>2
  <1>5. \A s : Attempts(s)' = Attempts(s)
    BY <1>2, AttemptsSame
  <1>6. \A i \in 1..Len(stored) : stored[i].about # "improvement"
    <2>1. \A i \in 1..Len(stored) : Comes(stored[i], F, P)
      BY DEF RecordsInv
    <2> QED
      BY <1>1, <1>2, <2>1, NothingImproved
  <1>7. LoopTypeOK'
    BY <1>1, <1>2, <1>4 DEF LoopTypeOK, Places
  <1>8. PlaceInv'
    BY <1>2, <1>3 DEF PlaceInv
  <1>9. AttemptsInv'
    BY <1>1, <1>2, <1>5, AttemptsKept DEF Waiting
  <1>10. ImproveInv'
    <2>1. \A t : Improvement(t).about = "improvement"
      BY RecordIs DEF Improvement
    <2> PICK p : p = approved'
      OBVIOUS
    <2>2. \A i \in 1..Len(p) : Earned(p[i])'
      <3>1. Status' = Status
        BY <1>2, StatusSame
      <3>2. Len(stored) \in Nat /\ Len(prior) \in Nat /\ Len(stored') = Len(stored)
        BY <1>1, <1>2 DEF LoopTypeOK
      <3>3. \A t : Earned(t) => Earned(t)'
        BY <1>2, <3>1, <3>2, EarnedStays
      <3> QED
        BY <1>2, <1>4, <3>3
    <2>3. \A t : \A j \in 1..Len(stored) : stored[j] # Improvement(t)
      BY <1>6, <2>1
    <2>4. \A i, j \in 1..Len(p) : p[i] = p[j] => i = j
      BY <1>4 DEF Distinct
    <2>5. \A t : Improvement(t)' = Improvement(t)
      BY Zenon DEF Improvement, Record, About
    <2>6. (\A i \in 1..Len(approved) :
             Earned(approved[i]) /\ \A j \in 1..Len(stored) : stored[j] # Improvement(approved[i]))'
      <3>1. \A i \in 1..Len(p) :
               Earned(p[i])' /\ \A j \in 1..Len(stored) : stored[j] # Improvement(p[i])'
        BY <2>2, <2>3, <2>5
      <3> QED
        BY <1>2, <3>1
    <2>7. Single(stored)'
      BY <1>2, <1>6 DEF Single
    <2> QED
      BY <1>2, <1>6, <2>3, <2>4, <2>6, <2>7 DEF ImproveInv, Improvement, Record, About
  <1>11. (\A i \in 1..Len(stored) : Comes(stored[i], F, P))'
    <2>1. \A i \in 1..Len(stored) : Comes(stored[i], F, P)
      BY DEF RecordsInv
    <2> QED
      BY <1>2, <1>3, <2>1, ComesStill
  <1>12. CopiesInv(3, F)' /\ CopiesInv(4, P)'
    <2>1. CopiesInv(3, F) /\ CopiesInv(4, P) /\ Len(F) \in Nat /\ Len(P) \in Nat /\ step \in Int
      BY <1>3 DEF RecordsInv, GoodFeedback, GoodAccount
    <2>2. CopiesInv(3, F)'
      BY <1>1, <1>2, <1>5, <2>1, CopiesKept
    <2>3. CopiesInv(4, P)'
      BY <1>1, <1>2, <1>5, <2>1, CopiesKept
    <2> QED
      BY <2>2, <2>3
  <1>13. WrittenInv(3, F)' /\ WrittenInv(4, P)'
    BY <1>2, <1>3 DEF WrittenInv, GoodAccount
  <1>14. AccountInv(P)'
    <2>1. EndsWith(Len(stored), P, Len(P))
      BY <1>2, <1>3 DEF RecordsInv, AccountInv
    <2>2. (EndsWith(Len(stored), P, Len(P)))'
      BY <1>2, <2>1 DEF EndsWith
    <2>3. Len(stored) \in 0..Len(stored)
      BY <1>1 DEF LoopTypeOK
    <2>4. \A i \in 1..Len(stored) : stored[i].about = "improvement" <=> i > Len(stored)
      BY <1>6, <2>3
    <2> QED
      BY <1>2, <2>2, <2>3, <2>4 DEF AccountInv
  <1>15. RecordsInv(F, P)'
    BY <1>11, <1>12, <1>13, <1>14 DEF RecordsInv
  <1> QED
    BY <1>2, <1>7, <1>8, <1>9, <1>10, <1>15, LoopInvNext

LEMMA ImprovementIs ==
    /\ \A t \in Targets : /\ Improvement(t) \in Records /\ Improvement(t).about = "improvement"
                          /\ Improvement(t).stream = "decision"
    /\ \A t, u : Improvement(t) = Improvement(u) => t = u
  <1>1. "decision" \in Streams /\ "improvement" \in Abouts /\ Targets \subseteq Whats
    BY DEF Streams, Abouts, Whats
  <1>2. \A t : Improvement(t).what = t /\ Improvement(t).about = "improvement" /\ Improvement(t).stream = "decision"
    BY RecordIs DEF Improvement
  <1>3. \A t \in Targets : Improvement(t) \in Records
    BY <1>1, RecordIs DEF Improvement
  <1>4. ASSUME NEW t, NEW u, Improvement(t) = Improvement(u)
        PROVE  t = u
    <2>1. Improvement(t).what = Improvement(u).what
      BY <1>4
    <2> QED
      BY <1>2, <2>1
  <1> QED
    BY <1>2, <1>3, <1>4

LEMMA SingleAppended ==
    ASSUME NEW q \in Seq(Records), NEW x \in Records, Single(q), \A j \in 1..Len(q) : q[j] # x
    PROVE  Single(Append(q, x))
  <1> PICK p : p = Append(q, x)
    OBVIOUS
  <1>1. /\ Len(p) = Len(q) + 1 /\ \A i \in 1..Len(q) : p[i] = q[i]
        /\ p[Len(q) + 1] = x /\ \A i \in 1..(Len(q) + 1) : i \in 1..Len(q) \/ i = Len(q) + 1
    BY AppendIs
  <1>2. \A i \in 1..Len(p) : (i = Len(q) + 1 /\ p[i] = x) \/ (i \in 1..Len(q) /\ p[i] = q[i])
    BY <1>1
  <1> SUFFICES ASSUME NEW j \in 1..Len(p), NEW k \in 1..Len(p), p[j].about = "improvement", p[j] = p[k]
               PROVE  j = k
    BY DEF Single
  <1>3. CASE p[j] = x
    <2>1. p[k] = x
      BY <1>3
    <2> QED
      BY <1>2, <1>3, <2>1
  <1>4. CASE p[j] # x
    <2>1. p[k] # x
      BY <1>4
    <2>2. j \in 1..Len(q) /\ p[j] = q[j] /\ k \in 1..Len(q) /\ p[k] = q[k]
      BY <1>2, <1>4, <2>1
    <2> QED
      BY <2>2 DEF Single
  <1> QED
    BY <1>3, <1>4

LEMMA ImprovementStored ==
    ASSUME LoopTypeOK, ImproveInv, approved # <<>>, pc = "improve", pc' = "improve",
           stored' = Append(stored, Improvement(Head(approved))), approved' = Tail(approved),
           prior' = prior, report' = report
    PROVE  /\ stored' \in Seq(Records) /\ approved' \in Seq(Targets) /\ Head(approved) \in Targets
           /\ ImproveInv'
  <1> PICK a, b, t : a = approved /\ b = Tail(a) /\ t = Head(a)
    OBVIOUS
  <1>1. a \in Seq(Targets) /\ a # <<>>
    BY DEF LoopTypeOK
  <1>2. /\ b \in Seq(Targets) /\ t \in Targets /\ t = a[1] /\ Len(a) \in Nat /\ Len(a) > 0
        /\ Len(b) = Len(a) - 1 /\ \A i \in 1..Len(b) : b[i] = a[i + 1]
    BY <1>1
  <1> PICK x : x = Improvement(t)
    OBVIOUS
  <1> PICK q, p : q = stored /\ p = Append(q, x)
    OBVIOUS
  <1>3. x \in Records /\ x.about = "improvement"
    BY <1>2, ImprovementIs
  <1>4. /\ p \in Seq(Records) /\ Len(p) = Len(q) + 1 /\ p[Len(q) + 1] = x /\ \A i \in 1..Len(q) : p[i] = q[i]
        /\ \A i \in 1..(Len(q) + 1) : i \in 1..Len(q) \/ i = Len(q) + 1
    BY <1>3, AppendIs DEF LoopTypeOK
  <1>5. \A i \in 1..Len(p) : (i = Len(q) + 1 /\ p[i] = x) \/ (i \in 1..Len(q) /\ p[i] = q[i])
    BY <1>4
  <1>6. /\ \A i \in 1..Len(a) : Earned(a[i]) /\ \A j \in 1..Len(q) : q[j] # Improvement(a[i])
        /\ \A i, j \in 1..Len(a) : a[i] = a[j] => i = j
        /\ \A u \in Targets, j \in 1..Len(q) : q[j] = Improvement(u) => Earned(u)
        /\ Single(q)
    BY DEF ImproveInv
  <1>7. Earned(t) /\ \A j \in 1..Len(q) : q[j] # x
    <2>1. 1 \in 1..Len(a)
      BY <1>2
    <2> QED
      BY <1>2, <1>6, <2>1
  <1>8. \A i \in 1..Len(b) :
           Earned(b[i]) /\ \A j \in 1..Len(p) : p[j] # Improvement(b[i])
    <2> SUFFICES ASSUME NEW i \in 1..Len(b)
                 PROVE  Earned(b[i]) /\ \A j \in 1..Len(p) : p[j] # Improvement(b[i])
      OBVIOUS
    <2>1. i + 1 \in 1..Len(a) /\ 1 \in 1..Len(a) /\ i + 1 # 1 /\ b[i] = a[i + 1]
      BY <1>2
    <2>2. b[i] # t
      BY <1>2, <1>6, <2>1
    <2>3. x # Improvement(b[i])
      BY <2>2, ImprovementIs
    <2>4. Earned(b[i]) /\ \A j \in 1..Len(q) : q[j] # Improvement(b[i])
      BY <1>6, <2>1
    <2> QED
      BY <1>5, <2>3, <2>4
  <1>9. \A i, j \in 1..Len(b) : b[i] = b[j] => i = j
    <2> SUFFICES ASSUME NEW i \in 1..Len(b), NEW j \in 1..Len(b), b[i] = b[j]
                 PROVE  i = j
      OBVIOUS
    <2>1. i + 1 \in 1..Len(a) /\ j + 1 \in 1..Len(a) /\ a[i + 1] = a[j + 1]
      BY <1>2
    <2>2. i + 1 = j + 1
      BY <1>6, <2>1
    <2> QED
      BY <2>2
  <1>10. \A u \in Targets, j \in 1..Len(p) : p[j] = Improvement(u) => Earned(u)
    <2> SUFFICES ASSUME NEW u \in Targets, NEW j \in 1..Len(p), p[j] = Improvement(u)
                 PROVE  Earned(u)
      OBVIOUS
    <2>1. CASE p[j] = x
      <3>1. u = t
        BY <2>1, ImprovementIs
      <3> QED
        BY <1>7, <3>1
    <2>2. CASE j \in 1..Len(q) /\ p[j] = q[j]
      BY <1>6, <2>2
    <2> QED
      BY <1>5, <2>1, <2>2
  <1>11. Single(p)
    BY <1>3, <1>6, <1>7, SingleAppended DEF LoopTypeOK
  <1>12. stored' = p /\ approved' = b
    OBVIOUS
  <1>13. Status' = Status
    BY StatusSame
  <1>14. \A u : Earned(u) => Earned(u)'
    <2>1. /\ Len(stored) \in Nat /\ Len(prior) \in Nat
          /\ Len(stored') \in Nat /\ Len(stored') >= Len(stored)
      BY <1>4, <1>12 DEF LoopTypeOK
    <2> QED
      BY <1>13, <2>1, EarnedStays
  <1>15. (\A i \in 1..Len(approved) :
            Earned(approved[i]) /\ \A j \in 1..Len(stored) : stored[j] # Improvement(approved[i]))'
    <2>1. \A u : Improvement(u)' = Improvement(u)
      BY Zenon DEF Improvement, Record, About
    <2>2. \A i \in 1..Len(b) :
             Earned(b[i])' /\ \A j \in 1..Len(p) : p[j] # Improvement(b[i])'
      BY <1>8, <1>14, <2>1
    <2> QED
      BY <1>12, <2>2
  <1>16. (\A u \in Targets, j \in 1..Len(stored) : stored[j] = Improvement(u) => Earned(u))'
    BY <1>10, <1>12, <1>14 DEF Improvement, Record, About
  <1>17. Single(stored)'
    BY <1>11, <1>12
  <1>18. (pc \in {"inject", "start", "operation"} => approved = <<>>)'
    OBVIOUS
  <1>19. (\A i, j \in 1..Len(approved) : approved[i] = approved[j] => i = j)'
    BY <1>9, <1>12
  <1>20. ImproveInv'
    BY <1>15, <1>16, <1>17, <1>18, <1>19, Zenon DEF ImproveInv
  <1> QED
    BY <1>2, <1>4, <1>12, <1>20

LEMMA ImproveKeeps ==
    ASSUME LoopInv, Improve
    PROVE  LoopInv'
  <1> PICK F, P, st : /\ F = FeedbackRecords /\ P = PersistedRecords /\ st = Status
                      /\ GoodFeedback(F, st) /\ GoodAccount(P, st) /\ RecordsInv(F, P)
    BY LoopInvIs
  <1>1. LoopTypeOK /\ PlaceInv /\ AttemptsInv /\ ImproveInv
    BY DEF LoopInv
  <1>2. /\ pc = "improve" /\ approved # <<>>
        /\ pc' = pc /\ step' = step /\ attempt' = attempt /\ written' = written
        /\ report' = report /\ history' = history /\ prior' = prior /\ injected' = injected
    BY DEF Improve
  <1>3. step = 4
    BY <1>1, <1>2 DEF PlaceInv
  <1>4. \A s : Attempts(s)' = Attempts(s)
    BY <1>2, AttemptsSame
  <1>5. PlaceInv' /\ AttemptsInv'
    <2>1. PlaceInv'
      BY <1>1, <1>2 DEF PlaceInv
    <2> QED
      BY <1>1, <1>2, <1>4, <2>1, AttemptsKept DEF Waiting
  <1>6. WrittenInv(3, F)' /\ WrittenInv(4, P)'
    BY <1>2 DEF WrittenInv, RecordsInv
  <1>7. /\ \A i \in 1..Len(stored) : Comes(stored[i], F, P)
        /\ CopiesInv(3, F) /\ CopiesInv(4, P) /\ AccountInv(P)
        /\ Len(F) \in Nat /\ Len(P) \in Nat /\ Len(stored) \in Nat /\ step \in Int
    BY <1>1 DEF RecordsInv, GoodFeedback, GoodAccount, LoopTypeOK
  <1>8. CASE stored' = stored /\ approved' = <<>>
    <2>1. LoopTypeOK'
      BY <1>1, <1>2, <1>8, EmptySeq DEF LoopTypeOK
    <2>2. ImproveInv'
      <3>1. Status' = Status
        BY <1>2, StatusSame
      <3>4. Len(stored) \in Nat /\ Len(prior) \in Nat /\ Len(stored') = Len(stored)
        BY <1>1, <1>8 DEF LoopTypeOK
      <3>2. \A t : Earned(t) => Earned(t)'
        BY <1>2, <3>1, <3>4, EarnedStays
      <3>3. 1..Len(approved') = {}
        BY <1>8
      <3> QED
        BY <1>1, <1>2, <1>8, <3>2, <3>3 DEF ImproveInv
    <2>3. (\A i \in 1..Len(stored) : Comes(stored[i], F, P))'
      BY <1>2, <1>3, <1>7, <1>8, ComesStill
    <2>4. CopiesInv(3, F)' /\ CopiesInv(4, P)'
      <3>1. CopiesInv(3, F)'
        BY <1>1, <1>2, <1>4, <1>7, <1>8, CopiesKept
      <3>2. CopiesInv(4, P)'
        BY <1>1, <1>2, <1>4, <1>7, <1>8, CopiesKept
      <3> QED
        BY <3>1, <3>2
    <2>5. AccountInv(P)'
      BY <1>2, <1>7, <1>8, AccountKept
    <2>6. RecordsInv(F, P)'
      BY <1>6, <2>3, <2>4, <2>5 DEF RecordsInv
    <2> QED
      BY <1>2, <1>5, <2>1, <2>2, <2>6, LoopInvNext
  <1>9. CASE stored' = Append(stored, Improvement(Head(approved))) /\ approved' = Tail(approved)
    <2>1. /\ stored' \in Seq(Records) /\ approved' \in Seq(Targets) /\ Head(approved) \in Targets
          /\ ImproveInv'
      BY <1>1, <1>2, <1>9, ImprovementStored
    <2> PICK t, x : t = Head(approved) /\ x = Improvement(t)
      OBVIOUS
    <2>2. t \in Targets /\ x \in Records /\ x.about = "improvement" /\ stored' = Append(stored, x)
      BY <1>9, <2>1, ImprovementIs
    <2>3. LoopTypeOK'
      BY <1>1, <1>2, <2>1 DEF LoopTypeOK
    <2>4. (\A i \in 1..Len(stored) : Comes(stored[i], F, P))'
      <3>1. Comes(x, F, P)'
        BY <1>2, <1>3, <2>2 DEF Comes, Improvement, Record, About
      <3> QED
        BY <1>1, <1>2, <1>7, <2>2, <3>1, ComesAppended
    <2>5. CopiesInv(3, F)' /\ CopiesInv(4, P)'
      <3>1. Waiting' <=> Waiting
        BY <1>2 DEF Waiting
      <3>2. \A i \in 1..Len(F) : F[i] # x
        BY <2>2 DEF GoodFeedback
      <3>3. \A i \in 1..Len(P) : P[i] # x
        BY <2>2 DEF GoodAccount
      <3>4. CopiesInv(3, F)'
        BY <1>1, <1>2, <1>4, <1>7, <2>2, <3>1, <3>2, CopiesOthers
      <3>5. CopiesInv(4, P)'
        BY <1>1, <1>2, <1>4, <1>7, <2>2, <3>1, <3>3, CopiesOthers
      <3> QED
        BY <3>4, <3>5
    <2>6. AccountInv(P)'
      <3> PICK q, p, w : q = stored /\ p = Append(q, x) /\ w = Len(P)
        OBVIOUS
      <3>1. /\ Len(p) = Len(q) + 1 /\ Len(q) \in Nat /\ p[Len(q) + 1] = x
            /\ \A i \in 1..Len(q) : p[i] = q[i]
            /\ \A i \in 1..(Len(q) + 1) : i \in 1..Len(q) \/ i = Len(q) + 1
        BY <1>1, <2>2, AppendIs DEF LoopTypeOK
      <3>2. PICK n \in 0..Len(q) : /\ n >= w /\ \A i \in 1..w : q[n - w + i] = P[i]
                                   /\ \A i \in 1..Len(q) : q[i].about = "improvement" <=> i > n
        BY <1>2, <1>7 DEF AccountInv, EndsWith
      <3>3. \A i \in 1..w : n - w + i \in 1..Len(q) /\ p[n - w + i] = P[i]
        BY <1>7, <3>1, <3>2
      <3>4. \A i \in 1..Len(p) : p[i].about = "improvement" <=> i > n
        <4> TAKE i \in 1..Len(p)
        <4>1. CASE i \in 1..Len(q)
          BY <3>1, <3>2, <4>1
        <4>2. CASE i = Len(q) + 1
          BY <2>2, <3>1, <3>2, <4>2
        <4> QED
          BY <3>1, <4>1, <4>2
      <3>5. n \in 0..Len(p) /\ stored' = p
        BY <2>2, <3>1, <3>2
      <3>6. EndsWith(n, P, w)'
        BY <3>2, <3>3, <3>5 DEF EndsWith
      <3> QED
        BY <1>2, <3>4, <3>5, <3>6 DEF AccountInv
    <2>7. RecordsInv(F, P)'
      BY <1>6, <2>4, <2>5, <2>6 DEF RecordsInv
    <2> QED
      BY <1>2, <1>5, <2>1, <2>3, <2>7, LoopInvNext
  <1> QED
    BY <1>8, <1>9 DEF Improve

-----------------------------------------------------------------------------
(***************************************************************************)
(* The loop keeps its invariant.                                           *)
(***************************************************************************)
LEMMA LoopStarts == Init => LoopInv
  <1> SUFFICES ASSUME Init
               PROVE  LoopInv
    OBVIOUS
  <1>1. /\ pc \in {"inject", "start"} /\ (pc = "inject" <=> injected) /\ step = 1 /\ attempt = 1
        /\ written = 0 /\ approved = <<>> /\ stored = <<>> /\ history = <<>>
    BY DEF Init
  <1>2. LoopTypeOK
    <2>1. <<>> \in Seq(Records) /\ <<>> \in Seq(States) /\ <<>> \in Seq(Targets)
      BY EmptySeq
    <2>2. attempt \in 1..MaxAttempts /\ step \in 1..4
      BY <1>1, AgentAssumption
    <2>3. prior \in Seq(PastRecords)
      BY AgentAssumption DEF Init
    <2>4. report \in [Tasks -> {"completed", "failed", "skipped"}]
      BY DEF Init
    <2> QED
      BY <1>1, <2>1, <2>2, <2>3, <2>4 DEF LoopTypeOK, Init, Places
  <1> PICK F, P, st : F = FeedbackRecords /\ P = PersistedRecords /\ st = Status
    OBVIOUS
  <1>3. GoodFeedback(F, st) /\ GoodAccount(P, st)
    BY <1>2, FeedbackIsGood, AccountIsGood
  <1>4. 1..Len(stored) = {} /\ 1..Len(approved) = {} /\ 1..Len(history) = {} /\ Len(stored) = 0
    BY <1>1
  <1>5. /\ \A r : Copies(r) = 0
        /\ \A s : Attempts(s) = 0
    <2>1. Cardinality({}) = 0
      BY FS_EmptySet
    <2>2. \A r : {i \in 1..Len(stored) : stored[i] = r} = {}
      BY <1>4
    <2>3. \A s : {i \in 1..Len(history) : history[i].step = s /\ history[i].status = "STARTED"} = {}
      BY <1>4
    <2> QED
      BY <2>1, <2>2, <2>3 DEF Copies, Attempts
  <1>6. PlaceInv /\ AttemptsInv
    BY <1>1, <1>5, AgentAssumption DEF PlaceInv, AttemptsInv
  <1>7. ImproveInv
    BY <1>1, <1>4 DEF ImproveInv, Single
  <1>8. CopiesInv(3, F) /\ CopiesInv(4, P)
    <2>1. ~Begun(3) /\ ~Begun(4)
      BY <1>1 DEF Begun
    <2>2. Now(3, Len(F)) = 0 /\ Now(4, Len(P)) = 0
      BY <1>1, <2>1 DEF Now
    <2>3. /\ \A i \in 1..Len(F) : Earlier(3, F, i) = 0
          /\ \A i \in 1..Len(P) : Earlier(4, P, i) = 0
      BY <1>5, <2>2 DEF Earlier
    <2>4. Len(F) \in Nat /\ Len(P) \in Nat
      BY <1>3 DEF GoodFeedback, GoodAccount
    <2>5. \A n \in Nat : \A i \in 1..n : i > 1 => i - 1 \in 1..n
      OBVIOUS
    <2> QED
      BY <1>5, <2>1, <2>3, <2>4, <2>5 DEF CopiesInv
  <1>9. WrittenInv(3, F) /\ WrittenInv(4, P)
    BY <1>1 DEF WrittenInv
  <1>10. AccountInv(P)
    BY <1>1, <1>4 DEF AccountInv
  <1>11. RecordsInv(F, P)
    BY <1>4, <1>8, <1>9, <1>10 DEF RecordsInv
  <1> QED
    BY <1>2, <1>6, <1>7, <1>11 DEF LoopInv

\* Outside of the loop what memory held before may change, as long as the loop has
\* not read it.
LEMMA OutsideKeeps ==
    ASSUME LoopInv, UNCHANGED <<injected, pc, step, attempt, written, report, approved, stored, history>>,
           prior' \in Seq(PastRecords),
           prior' = prior \/ (stored = <<>> /\ approved = <<>>)
    PROVE  LoopInv'
  <1> PICK F, P, st : /\ F = FeedbackRecords /\ P = PersistedRecords /\ st = Status
                      /\ GoodFeedback(F, st) /\ GoodAccount(P, st) /\ RecordsInv(F, P)
    BY LoopInvIs
  <1>1. LoopTypeOK /\ PlaceInv /\ AttemptsInv /\ ImproveInv
    BY DEF LoopInv
  <1>2. LoopTypeOK'
    BY <1>1 DEF LoopTypeOK
  <1>3. PlaceInv'
    BY <1>1 DEF PlaceInv
  <1>4. \A s : Attempts(s)' = Attempts(s)
    BY AttemptsSame
  <1>5. AttemptsInv'
    BY <1>1, <1>4, AttemptsKept DEF Waiting
  <1>6. ImproveInv'
    <2>1. CASE prior' = prior
      <3>1. Status' = Status
        BY StatusSame
      <3>2. pc' \in {"inject", "start", "operation"} => approved = <<>>
        BY <1>1 DEF ImproveInv
      <3> QED
        BY <1>1, <2>1, <3>1, <3>2, ImproveSame
    <2>2. CASE stored = <<>> /\ approved = <<>>
      <3>1. 1..Len(stored') = {} /\ 1..Len(approved') = {} /\ approved' = <<>>
        BY <2>2
      <3> QED
        BY <3>1 DEF ImproveInv, Single
    <2> QED
      BY <2>1, <2>2
  <1>7. (\A i \in 1..Len(stored) : Comes(stored[i], F, P))'
    <2>1. \A i \in 1..Len(stored) : Comes(stored[i], F, P)
      BY DEF RecordsInv
    <2> QED
      BY <2>1, ComesStill
  <1>8. CopiesInv(3, F)' /\ CopiesInv(4, P)'
    <2>1. CopiesInv(3, F) /\ CopiesInv(4, P)
      BY DEF RecordsInv
    <2>2. \A s, n : (Begun(s)' <=> Begun(s)) /\ Now(s, n)' = Now(s, n)
      BY DEF Begun, Now, Waiting
    <2>3. \A r : Copies(r)' = Copies(r)
      BY CopiesSame
    <2> QED
      BY <1>4, <2>1, <2>2, <2>3, CopiesUntouched
  <1>9. WrittenInv(3, F)' /\ WrittenInv(4, P)'
    BY DEF WrittenInv, RecordsInv, Waiting
  <1>10. AccountInv(P)'
    BY DEF AccountInv, EndsWith, RecordsInv
  <1>11. RecordsInv(F, P)'
    BY <1>7, <1>8, <1>9, <1>10 DEF RecordsInv
  <1> QED
    BY <1>2, <1>3, <1>5, <1>6, <1>11, LoopInvNext

LEMMA StepKeeps ==
    ASSUME LoopInv, Step
    PROVE  LoopInv'
  <1>1. LoopTypeOK /\ PlaceInv
    BY DEF LoopInv
  <1>2. /\ Steps[1] = "PLAN" /\ Steps[2] = "EXECUTE" /\ Steps[3] = "VALIDATE" /\ Steps[4] = "REFLECT"
        /\ step \in {1, 2, 3, 4}
    BY <1>1 DEF Steps, LoopTypeOK
  <1>3. CASE InjectAdaptations
    BY <1>3, InjectKeeps
  <1>4. CASE StartAttempt
    BY <1>4, StartKeeps
  <1>5. CASE Plan
    <2>1. pc = "operation" /\ step = 1
      BY <1>2, <1>5 DEF Plan, InStep
    <2>2. CASE Succeeds
      BY <1>5, <2>1, <2>2, SucceedsKeeps DEF Plan
    <2>3. ASSUME NEW type \in FailureTypes, Fails(type)
          PROVE  LoopInv'
      BY <1>5, <2>1, <2>3, FailsKeeps DEF Plan
    <2> QED
      BY <1>5, <2>2, <2>3 DEF Plan
  <1>6. CASE Execute
    <2>1. pc = "operation" /\ step = 2
      BY <1>2, <1>6 DEF Execute, InStep
    <2>2. CASE report' \in Reports /\ Succeeds
      BY <1>6, <2>1, <2>2, ExecuteKeeps DEF Execute
    <2>3. ASSUME NEW type \in FailureTypes, Fails(type), report' = report
          PROVE  LoopInv'
      BY <1>6, <2>1, <2>3, FailsKeeps DEF Execute
    <2> QED
      BY <1>6, <2>2, <2>3 DEF Execute
  <1>7. CASE WriteRecord
    BY <1>7, WriteKeeps
  <1>8. CASE WriteFails
    <2>1. PICK type \in FailureTypes : Fails(type)
      BY <1>8 DEF WriteFails
    <2> QED
      BY <1>8, <2>1, FailsKeeps DEF WriteFails
  <1>9. CASE Validated
    <2>1. pc = "operation" /\ step = 3
      BY <1>2, <1>9 DEF Validated, InStep
    <2> QED
      BY <1>9, <2>1, SucceedsKeeps DEF Validated
  <1>10. CASE Persist
    BY <1>10, PersistKeeps
  <1>11. CASE Improve
    BY <1>11, ImproveKeeps
  <1>12. ASSUME NEW type \in FailureTypes, ImproveRaises(type)
         PROVE  LoopInv'
    <2>1. pc = "improve" /\ step = 4
      BY <1>1, <1>12 DEF ImproveRaises, PlaceInv
    <2>2. CASE type = "TRANSIENT"
      BY <1>12, <2>1, <2>2, SucceedsKeeps DEF ImproveRaises
    <2>3. CASE type # "TRANSIENT"
      BY <1>12, <2>1, <2>3, FailsKeeps DEF ImproveRaises
    <2> QED
      BY <2>2, <2>3
  <1>13. CASE Improved
    <2>1. pc = "improve" /\ step = 4
      BY <1>1, <1>13 DEF Improved, PlaceInv
    <2> QED
      BY <1>13, <2>1, SucceedsKeeps DEF Improved
  <1> QED
    BY <1>3, <1>4, <1>5, <1>6, <1>7, <1>8, <1>9, <1>10, <1>11, <1>12, <1>13 DEF Step

-----------------------------------------------------------------------------
(***************************************************************************)
(* The orchestrator around the loop.                                       *)
(***************************************************************************)
LEMMA RememberedSame ==
    ASSUME RememberedInv, refs' = refs, prior' = prior, executed' = executed
    PROVE  RememberedInv'
  <1>1. \A f : Told(f)' = Told(f)
    BY DEF Told
  <1> QED
    BY <1>1, Zenon DEF RememberedInv, Told

LEMMA NothingRemembered ==
    ASSUME LoopInv, refs = <<>>
    PROVE  RememberedInv
  <1>1. Len(refs) = 0 /\ 1..Len(refs) = {} /\ Len(prior) \in Nat
    BY DEF LoopInv, LoopTypeOK
  <1> QED
    BY <1>1 DEF RememberedInv

LEMMA LegacyStarts == OrchestrationInit => LegacyInv
  <1> SUFFICES ASSUME OrchestrationInit
               PROVE  LegacyInv
    OBVIOUS
  <1>1. LoopInv
    BY LoopStarts DEF OrchestrationInit
  <1>2. /\ stage \in {"none", "planning"} /\ (stage = "planning" => ~injected)
        /\ status = "running" /\ executed = "none" /\ refs = <<>> /\ errors = {}
    BY DEF OrchestrationInit
  <1>3. (stage = "planning" => pc = "start") /\ step = 1 /\ stored = <<>> /\ approved = <<>>
    BY <1>2 DEF OrchestrationInit, Init
  <1>4. <<>> \in Seq({"execution", "failure"})
    BY EmptySeq
  <1>5. LegacyTypeOK
    BY <1>2, <1>4 DEF LegacyTypeOK
  <1>6. LoopIsCalled /\ StageInv /\ OutcomeInv
    BY <1>2, <1>3 DEF LoopIsCalled, StageInv, OutcomeInv
  <1>7. RefsInv
    BY <1>2, Zenon DEF RefsInv
  <1>8. RememberedInv
    BY <1>1, <1>2, NothingRemembered
  <1> QED
    BY <1>1, <1>5, <1>6, <1>7, <1>8 DEF LegacyInv

LEMMA VarsSame ==
    ASSUME LoopInv, UNCHANGED vars
    PROVE  LoopInv' /\ Status' = Status
  <1>1. prior' \in Seq(PastRecords)
    BY DEF LoopInv, LoopTypeOK, vars
  <1>2. UNCHANGED <<injected, prior, pc, step, attempt, written, report, approved, stored, history>>
    BY DEF vars
  <1>3. LoopInv'
    BY <1>1, <1>2, OutsideKeeps
  <1>4. Status' = Status
    BY <1>2, StatusSame
  <1> QED
    BY <1>3, <1>4

LEMMA PlanGoalKeeps ==
    ASSUME LegacyInv, PlanGoal
    PROVE  LegacyInv'
  <1>1. LoopInv'
    BY VarsSame DEF LegacyInv, PlanGoal
  <1>2. /\ stage = "planning" /\ errors = {} /\ status = "running" /\ executed = "none" /\ refs = <<>>
        /\ pc = "start" /\ step = 1 /\ stored = <<>> /\ approved = <<>>
    BY DEF LegacyInv, PlanGoal, StageInv, LoopIsCalled, RefsInv
  <1>3. /\ executed' = "none" /\ refs' = <<>> /\ pc' = pc /\ step' = step /\ stored' = stored
        /\ approved' = approved
        /\ \/ stage' = "ended" /\ errors' = {"planning"} /\ status' = "failed"
           \/ stage' = "execution" /\ errors' = {} /\ status' = "running"
    BY <1>2 DEF PlanGoal, Leaves, vars
  <1>4. LegacyTypeOK'
    BY <1>2, <1>3 DEF LegacyInv, LegacyTypeOK
  <1>5. LoopIsCalled' /\ StageInv'
    BY <1>2, <1>3 DEF LoopIsCalled, StageInv
  <1>6. OutcomeInv'
    BY <1>3 DEF OutcomeInv, Clean
  <1>7. RefsInv'
    BY <1>3, Zenon DEF RefsInv
  <1>8. RememberedInv'
    BY RememberedSame DEF LegacyInv, PlanGoal, vars
  <1> QED
    BY <1>1, <1>4, <1>5, <1>6, <1>7, <1>8 DEF LegacyInv

LEMMA ExecutePlanKeeps ==
    ASSUME LegacyInv, ExecutePlan
    PROVE  LegacyInv'
  <1>1. LoopInv'
    BY VarsSame DEF LegacyInv, ExecutePlan
  <1>2. /\ stage = "execution" /\ errors = {} /\ status = "running" /\ executed = "none" /\ refs = <<>>
        /\ pc = "start" /\ step = 1 /\ stored = <<>> /\ approved = <<>>
    BY DEF LegacyInv, ExecutePlan, StageInv, LoopIsCalled, RefsInv
  <1>3. /\ refs' = <<>> /\ pc' = pc /\ step' = step /\ stored' = stored /\ approved' = approved
        /\ executed' \in {"failed", "success"} /\ stage' = "memory_store"
        /\ status' = (IF executed' = "failed" THEN "failed" ELSE "running")
        /\ errors' = {} \/ (errors' = {"execution"} /\ executed' = "failed")
    BY <1>2 DEF ExecutePlan, Leaves, vars, ExecutionStatus
  <1>4. LegacyTypeOK'
    BY <1>2, <1>3 DEF LegacyInv, LegacyTypeOK
  <1>5. LoopIsCalled' /\ StageInv'
    BY <1>2, <1>3 DEF LoopIsCalled, StageInv
  <1>6. OutcomeInv'
    BY <1>3 DEF OutcomeInv, Clean
  <1>7. RefsInv'
    BY <1>3, Zenon DEF RefsInv
  <1>8. RememberedInv'
    <2>1. 1..Len(refs') = {} /\ Len(refs') = 0
      BY <1>3
    <2>2. Len(prior') \in Nat
      BY <1>1 DEF LoopInv, LoopTypeOK
    <2> QED
      BY <2>1, <2>2 DEF RememberedInv
  <1> QED
    BY <1>1, <1>4, <1>5, <1>6, <1>7, <1>8 DEF LegacyInv

LEMMA PairIs ==
    ASSUME NEW S, NEW a \in S, NEW b \in S
    PROVE  /\ Append(<<>>, a) = <<a>>
           /\ Append(<<a>>, b) = <<a, b>> /\ <<a>> \o <<b>> = <<a, b>>
  <1> PICK p, q, r : p = <<a>> /\ q = <<b>> /\ r = <<a, b>>
    OBVIOUS
  <1>1. /\ p \in Seq(S) /\ Len(p) = 1 /\ p[1] = a /\ q \in Seq(S) /\ Len(q) = 1 /\ q[1] = b
        /\ r \in Seq(S) /\ Len(r) = 2 /\ r[1] = a /\ r[2] = b
    OBVIOUS
  <1>2. Append(<<>>, a) = p
    <2>1. <<>> \in Seq(S) /\ Len(<<>>) = 0
      BY EmptySeq
    <2> PICK c : c = Append(<<>>, a)
      OBVIOUS
    <2>2. c \in Seq(S) /\ Len(c) = 1 /\ c[1] = a
      BY <2>1, AppendProperties
    <2>3. \A i \in 1..Len(c) : c[i] = p[i]
      BY <1>1, <2>2
    <2>4. c = p
      BY <1>1, <2>2, <2>3, SeqEqual
    <2> QED
      BY <2>4
  <1>3. Append(p, b) = r
    <2> PICK c : c = Append(p, b)
      OBVIOUS
    <2>1. c \in Seq(S) /\ Len(c) = Len(p) + 1 /\ c[Len(p) + 1] = b /\ \A i \in 1..Len(p) : c[i] = p[i]
      BY <1>1, AppendProperties
    <2>2. c \in Seq(S) /\ Len(c) = 2 /\ c[1] = a /\ c[2] = b
      BY <1>1, <2>1
    <2>3. \A i \in 1..2 : i = 1 \/ i = 2
      OBVIOUS
    <2>4. \A i \in 1..Len(c) : c[i] = r[i]
      BY <1>1, <2>2, <2>3
    <2>5. c = r
      BY <1>1, <2>2, <2>4, SeqEqual
    <2> QED
      BY <2>5
  <1>4. p \o q = r
    <2>1. Append(p, b) = p \o <<b>>
      BY <1>1, AppendIsConcat
    <2> QED
      BY <1>3, <2>1
  <1> QED
    BY <1>2, <1>3, <1>4

LEMMA RefsAre ==
    /\ Append(<<>>, "execution") = <<"execution">>
    /\ Append(<<"execution">>, "failure") = <<"execution", "failure">>
    /\ <<"execution">> \o <<"failure">> = <<"execution", "failure">>
    /\ <<"execution">> \o <<>> = <<"execution">>
    /\ Len(<<"execution">>) = 1 /\ Len(<<"execution", "failure">>) = 2 /\ Len(<<>>) = 0
    /\ {<<>>, <<"execution">>, <<"execution", "failure">>} \subseteq Seq({"execution", "failure"})
  <1> PICK S, a, b : S = {"execution", "failure"} /\ a = "execution" /\ b = "failure"
    OBVIOUS
  <1>1. a \in S /\ b \in S
    OBVIOUS
  <1>2. /\ <<a>> \in Seq(S) /\ Len(<<a>>) = 1 /\ <<a, b>> \in Seq(S) /\ Len(<<a, b>>) = 2
        /\ <<>> \in Seq(S) /\ Len(<<>>) = 0
    BY <1>1
  <1>3. Append(<<>>, a) = <<a>> /\ Append(<<a>>, b) = <<a, b>> /\ <<a>> \o <<b>> = <<a, b>>
    BY <1>1, PairIs
  <1>4. <<a>> \o <<>> = <<a>>
    BY <1>2, ConcatEmptySeq
  <1> QED
    BY <1>2, <1>3, <1>4, Zenon

LEMMA StoreRecordKeeps ==
    ASSUME LegacyInv, StoreRecord
    PROVE  LegacyInv'
  <1> PICK e, ef : e = <<"execution">> /\ ef = <<"execution", "failure">>
    OBVIOUS
  <1>1. /\ e # <<>> /\ ef # <<>> /\ Len(e) = 1 /\ Len(ef) = 2
        /\ Append(<<>>, "execution") = e /\ Append(e, "failure") = ef
        /\ e \in Seq({"execution", "failure"}) /\ ef \in Seq({"execution", "failure"})
    BY RefsAre
  <1>2. LoopInv /\ LegacyTypeOK /\ LoopIsCalled /\ RefsInv /\ StageInv
    BY DEF LegacyInv
  <1>3. /\ stage = "memory_store" /\ executed \in {"success", "failed"} /\ errors \subseteq {"execution"}
        /\ pc = "start" /\ step = 1 /\ stored = <<>> /\ approved = <<>>
        /\ prior \in Seq(PastRecords)
    BY <1>2 DEF StoreRecord, StageInv, LoopIsCalled, LegacyTypeOK, LoopInv, LoopTypeOK
  <1>4. /\ pc' = pc /\ step' = step /\ stored' = stored /\ approved' = approved /\ status' = status
        /\ executed' = executed /\ injected' = injected /\ attempt' = attempt /\ written' = written
        /\ report' = report /\ history' = history
    BY DEF StoreRecord
  <1>5. \/ refs = <<>>
        \/ refs = e
        \/ refs = ef /\ executed = "failed"
    BY <1>2 DEF RefsInv
  <1>6. Told(Unwritten) \in PastRecords
    <2>1. Unwritten \in {"execution", "failure", "nothing"}
      BY Zenon DEF Unwritten
    <2>2. Unwritten # "nothing"
      BY DEF StoreRecord
    <2> QED
      BY <1>3, <2>1, <2>2 DEF Told, PastRecords
  <1>7. LoopInv'
    <2>1. prior' \in Seq(PastRecords)
      <3> PICK t : t = Told(Unwritten)
        OBVIOUS
      <3>1. Append(prior, t) \in Seq(PastRecords)
        BY <1>3, <1>6, AppendProperties
      <3>2. prior' = Append(prior, t) \/ prior' = prior
        BY Zenon DEF StoreRecord
      <3> QED
        BY <1>3, <3>1, <3>2
    <2> QED
      BY <1>2, <1>3, <1>4, <2>1, OutsideKeeps
  <1>8. \/ /\ stage' = stage /\ errors' = errors
           /\ \/ refs' = e
              \/ refs' = ef /\ executed = "failed"
        \/ /\ stage' = "reflection" /\ errors' = errors \cup {"memory_store"}
           /\ refs' = refs /\ prior' = prior
    <2>1. CASE refs' = Append(refs, Unwritten) /\ prior' = Append(prior, Told(Unwritten)) /\ stage' = stage /\ errors' = errors
      <3>1. CASE refs = <<>>
        <4>1. Unwritten = "execution"
          BY <3>1 DEF Unwritten
        <4> QED
          BY <1>1, <2>1, <3>1, <4>1
      <3>2. CASE refs = e
        <4>1. Unwritten = "failure" /\ executed = "failed"
          BY <1>1, <3>2 DEF Unwritten, StoreRecord
        <4> QED
          BY <1>1, <2>1, <3>2, <4>1
      <3>3. CASE refs = ef
        <4>1. Unwritten = "nothing"
          BY <1>1, <3>3 DEF Unwritten
        <4> QED
          BY <4>1 DEF StoreRecord
      <3> QED
        BY <1>5, <3>1, <3>2, <3>3
    <2>2. CASE Leaves("reflection", TRUE) /\ refs' = refs /\ prior' = prior
      BY <1>3, <2>2 DEF Leaves
    <2> QED
      BY <2>1, <2>2 DEF StoreRecord
  <1>9. LegacyTypeOK'
    BY <1>1, <1>2, <1>4, <1>8 DEF LegacyTypeOK
  <1>10. LoopIsCalled' /\ StageInv' /\ OutcomeInv'
    BY <1>2, <1>3, <1>4, <1>8 DEF LoopIsCalled, StageInv, OutcomeInv
  <1>11. RefsInv'
    <2>1. \/ refs' = <<>>
          \/ refs' = e
          \/ refs' = ef /\ executed' = "failed"
      BY <1>4, <1>5, <1>8
    <2>2. stage' \notin {"none", "planning", "execution"}
      BY <1>3, <1>8
    <2>3. stage' = "memory_store" \/ "memory_store" \in errors'
      BY <1>3, <1>8
    <2> QED
      BY <2>1, <2>2, <2>3, Zenon DEF RefsInv
  <1>12. RememberedInv'
    <2>1. RememberedInv
      BY DEF LegacyInv
    <2>2. CASE refs' = refs /\ prior' = prior
      BY <1>4, <2>1, <2>2, RememberedSame
    <2>3. CASE refs' = Append(refs, Unwritten) /\ prior' = Append(prior, Told(Unwritten))
      <3> PICK p, q, f, g, u : /\ p = prior /\ q = Append(p, Told(u)) /\ f = refs /\ g = Append(f, u)
                               /\ u = Unwritten
        OBVIOUS
      <3> PICK S : S = {"execution", "failure", u}
        OBVIOUS
      <3>1. p \in Seq(PastRecords) /\ Told(u) \in PastRecords /\ f \in Seq(S) /\ u \in S
        <4>1. f \in Seq({"execution", "failure"})
          BY <1>2 DEF LegacyTypeOK
        <4> QED
          BY <1>3, <1>6, <4>1
      <3>2. /\ Len(q) = Len(p) + 1 /\ q[Len(p) + 1] = Told(u) /\ \A i \in 1..Len(p) : q[i] = p[i]
            /\ Len(g) = Len(f) + 1 /\ g[Len(f) + 1] = u /\ \A i \in 1..Len(f) : g[i] = f[i]
            /\ Len(p) \in Nat /\ Len(f) \in Nat
        BY <3>1, AppendProperties
      <3>3. Len(f) <= Len(p) /\ \A i \in 1..Len(f) : p[Len(p) - Len(f) + i] = Told(f[i])
        BY <2>1 DEF RememberedInv
      <3>4. \A i \in 1..Len(g) : q[Len(q) - Len(g) + i] = Told(g[i])
        <4> SUFFICES ASSUME NEW i \in 1..Len(g)
                     PROVE  q[Len(q) - Len(g) + i] = Told(g[i])
          OBVIOUS
        <4>1. CASE i = Len(f) + 1
          BY <3>2, <3>3, <4>1
        <4>2. CASE i # Len(f) + 1
          <5>1. i \in 1..Len(f) /\ Len(p) - Len(f) + i \in 1..Len(p)
            BY <3>2, <3>3, <4>2
          <5>2. Len(q) - Len(g) + i = Len(p) - Len(f) + i
            BY <3>2
          <5>3. q[Len(p) - Len(f) + i] = Told(f[i]) /\ g[i] = f[i]
            BY <3>2, <3>3, <5>1
          <5> QED
            BY <5>2, <5>3
        <4> QED
          BY <4>1, <4>2
      <3>5. Len(g) <= Len(q)
        BY <3>2, <3>3
      <3>6. prior' = q /\ refs' = g
        BY <2>3
      <3>7. \A i : (Told(refs[i]))' = Told(g[i])
        BY <1>4, <3>6 DEF Told
      <3>8. (\A i \in 1..Len(refs) : prior[Len(prior) - Len(refs) + i] = Told(refs[i]))'
        <4> HIDE DEF Told
        <4> QED
          BY <3>4, <3>6, <3>7
      <3>9. (Len(refs) <= Len(prior))'
        BY <3>5, <3>6
      <3> QED
        BY <3>8, <3>9, Zenon DEF RememberedInv
    <2> QED
      BY <2>2, <2>3 DEF StoreRecord
  <1> QED
    BY <1>7, <1>9, <1>10, <1>11, <1>12 DEF LegacyInv

LEMMA StoredKeeps ==
    ASSUME LegacyInv, Stored
    PROVE  LegacyInv'
  <1> PICK e, ef : e = <<"execution">> /\ ef = <<"execution", "failure">>
    OBVIOUS
  <1>1. /\ Len(e) = 1
        /\ <<"execution">> \o <<"failure">> = ef /\ <<"execution">> \o <<>> = e
    BY RefsAre
  <1>2. LoopInv /\ LegacyTypeOK /\ LoopIsCalled /\ RefsInv /\ StageInv
    BY DEF LegacyInv
  <1>3. /\ stage = "memory_store" /\ executed \in {"success", "failed"} /\ errors \subseteq {"execution"}
        /\ pc = "start"
    BY <1>2 DEF Stored, StageInv, LoopIsCalled, LegacyTypeOK
  <1>4. /\ stage' = "reflection" /\ errors' = errors /\ refs' = refs /\ executed' = executed
        /\ status' = status /\ prior' = prior
    BY <1>3 DEF Stored, Leaves, vars
  <1>5. \/ refs = <<>>
        \/ refs = e
        \/ refs = ef /\ executed = "failed"
    BY <1>2 DEF RefsInv
  <1>6. refs = <<"execution">> \o IF executed = "failed" THEN <<"failure">> ELSE <<>>
    <2>1. refs # <<>> /\ ~(executed = "failed" /\ Len(refs) = 1)
      BY Zenon DEF Stored, Unwritten
    <2>2. CASE executed = "failed"
      BY <1>1, <1>5, <2>1, <2>2
    <2>3. CASE executed = "success"
      <3>1. refs = e
        BY <1>5, <2>1, <2>3
      <3> QED
        BY <1>1, <2>3, <3>1
    <2> QED
      BY <1>3, <2>2, <2>3
  <1>7. LoopInv'
    BY <1>2, VarsSame DEF Stored
  <1>8. LegacyTypeOK'
    BY <1>2, <1>4 DEF LegacyTypeOK
  <1>9. LoopIsCalled' /\ StageInv' /\ OutcomeInv'
    BY <1>2, <1>3, <1>4 DEF LoopIsCalled, StageInv, OutcomeInv
  <1>10. RefsInv'
    <2>1. \/ refs' = <<>>
          \/ refs' = e
          \/ refs' = ef /\ executed' = "failed"
      BY <1>4, <1>5
    <2>2. stage' \notin {"none", "planning", "execution"}
      BY <1>4
    <2>3. refs' = <<"execution">> \o IF executed' = "failed" THEN <<"failure">> ELSE <<>>
      BY <1>4, <1>6, Zenon
    <2> QED
      BY <2>1, <2>2, <2>3, Zenon DEF RefsInv
  <1>11. RememberedInv'
    BY <1>4, RememberedSame DEF LegacyInv
  <1> QED
    BY <1>7, <1>8, <1>9, <1>10, <1>11 DEF LegacyInv

LEMMA LoopStepKeeps ==
    ASSUME LegacyInv, LoopStep
    PROVE  LegacyInv'
  <1>1. LoopInv'
    BY StepKeeps DEF LegacyInv, LoopStep
  <1>2. /\ stage \in {"none", "reflection"} /\ stage' = stage /\ status' = status /\ executed' = executed
        /\ refs' = refs /\ errors' = errors
    BY DEF LoopStep, legacyVars
  <1>3. prior' = prior
    BY DEF LoopStep, Step, InjectAdaptations, StartAttempt, Plan, Execute, WriteRecord, WriteFails,
           Validated, Persist, Improve, ImproveRaises, Improved
  <1>4. LegacyTypeOK'
    BY <1>2 DEF LegacyInv, LegacyTypeOK
  <1>5. LoopIsCalled' /\ StageInv' /\ OutcomeInv'
    BY <1>2 DEF LegacyInv, LoopIsCalled, StageInv, OutcomeInv
  <1>6. RefsInv'
    <2>1. RefsInv
      BY DEF LegacyInv
    <2> QED
      BY <1>2, <1>3, <2>1, Zenon DEF RefsInv
  <1>7. RememberedInv'
    BY <1>2, <1>3, RememberedSame DEF LegacyInv
  <1> QED
    BY <1>1, <1>4, <1>5, <1>6, <1>7 DEF LegacyInv

LEMMA ReflectKeeps ==
    ASSUME LegacyInv, Reflect
    PROVE  LegacyInv'
  <1>1. LoopInv' /\ Status' = Status
    BY VarsSame DEF LegacyInv, Reflect
  <1>2. /\ stage = "reflection" /\ stage' = "improvement" /\ executed' = executed /\ refs' = refs
        /\ prior' = prior /\ pc \in {"returned", "raised"} /\ pc' = pc
        /\ errors' = (IF pc = "raised" THEN errors \cup {"reflection"} ELSE errors)
        /\ status' = IF pc = "raised" \/ Status = "failure" THEN "failed"
                     ELSE IF Status = "partial" /\ status # "failed" THEN "partial"
                     ELSE status
    BY DEF Reflect, Leaves, vars
  <1>3. /\ errors \subseteq {"execution", "memory_store"} /\ executed \in {"success", "failed"}
        /\ status = (IF executed = "failed" THEN "failed" ELSE "running")
        /\ "execution" \in errors => executed = "failed"
    BY <1>2 DEF LegacyInv, StageInv, LegacyTypeOK
  <1>4. LegacyTypeOK'
    <2>1. LegacyTypeOK
      BY DEF LegacyInv
    <2>2. status' \in {"running", "success", "partial", "failed"}
      BY <1>2, <1>3
    <2>3. errors' \in SUBSET {"planning", "execution", "memory_store", "reflection", "improvement"}
      BY <1>2, <1>3
    <2> QED
      BY <1>2, <2>1, <2>2, <2>3 DEF LegacyTypeOK
  <1>5. LoopIsCalled'
    BY <1>2 DEF LoopIsCalled
  <1>6. StageInv'
    <2>1. errors' \subseteq {"execution", "memory_store", "reflection"}
      BY <1>2, <1>3
    <2>2. "execution" \in errors' => executed = "failed"
      BY <1>2, <1>3
    <2>3. executed = "failed" => status' = "failed"
      BY <1>2, <1>3
    <2> QED
      BY <1>2, <1>3, <2>1, <2>2, <2>3 DEF StageInv
  <1>7. OutcomeInv'
    <2>1. "reflection" \in errors' <=> pc = "raised"
      BY <1>2, <1>3
    <2>2. status' = IF executed = "failed" \/ pc = "raised" \/ Status = "failure" THEN "failed"
                    ELSE IF Status = "partial" THEN "partial" ELSE "running"
      BY <1>2, <1>3
    <2> QED
      BY <1>1, <1>2, <2>1, <2>2 DEF OutcomeInv
  <1>8. RefsInv'
    <2>1. RefsInv
      BY DEF LegacyInv
    <2>2. "memory_store" \notin errors' => "memory_store" \notin errors
      BY <1>2
    <2>3. stage \notin {"none", "planning", "execution", "memory_store"} /\ executed # "none"
      BY <1>2, <1>3
    <2>4. stage' \notin {"none", "planning", "execution"}
      BY <1>2
    <2> QED
      BY <1>2, <2>1, <2>2, <2>3, <2>4, Zenon DEF RefsInv
  <1>9. RememberedInv'
    BY <1>2, RememberedSame DEF LegacyInv
  <1> QED
    BY <1>1, <1>4, <1>5, <1>6, <1>7, <1>8, <1>9 DEF LegacyInv

LEMMA ApplyActionsKeeps ==
    ASSUME LegacyInv, ApplyActions
    PROVE  LegacyInv'
  <1>1. LoopInv' /\ Status' = Status
    BY VarsSame DEF LegacyInv, ApplyActions
  <1>2. /\ stage = "improvement" /\ stage' = "ended" /\ executed' = executed /\ refs' = refs
        /\ prior' = prior /\ pc' = pc
        /\ \/ errors' = errors \cup {"improvement"} /\ status' = "failed"
           \/ errors' = errors /\ status' = IF status = "running" THEN "success" ELSE status
    BY DEF ApplyActions, Leaves, vars
  <1>3. /\ errors \subseteq {"execution", "memory_store", "reflection"} /\ executed \in {"success", "failed"}
        /\ "execution" \in errors => executed = "failed"
        /\ pc \in {"returned", "raised"}
        /\ "reflection" \in errors <=> pc = "raised"
        /\ status = IF executed = "failed" \/ pc = "raised" \/ Status = "failure" THEN "failed"
                    ELSE IF Status = "partial" THEN "partial" ELSE "running"
    BY <1>2 DEF LegacyInv, StageInv, LegacyTypeOK, LoopIsCalled, OutcomeInv
  <1>4. Status \in {"success", "partial", "failure"}
    BY StatusIs
  <1>5. LegacyTypeOK'
    <2>1. LegacyTypeOK
      BY DEF LegacyInv
    <2>2. status' \in {"running", "success", "partial", "failed"}
      BY <1>2, <1>3
    <2>3. errors' \in SUBSET {"planning", "execution", "memory_store", "reflection", "improvement"}
      BY <1>2, <1>3
    <2> QED
      BY <1>2, <2>1, <2>2, <2>3 DEF LegacyTypeOK
  <1>6. LoopIsCalled'
    BY <1>2, <1>3 DEF LoopIsCalled
  <1>7. StageInv'
    <2>1. "execution" \in errors' => executed = "failed"
      BY <1>2, <1>3
    <2>2. executed = "failed" => status' = "failed"
      BY <1>2, <1>3
    <2> QED
      BY <1>2, <2>1, <2>2 DEF StageInv
  <1>8. OutcomeInv'
    <2>1. Clean' <=> errors' \subseteq {"memory_store"} /\ executed = "success"
      BY <1>2 DEF Clean
    <2>2. Clean' => pc = "returned" /\ errors' = errors
      BY <1>2, <1>3, <2>1
    <2>6. executed = "success" /\ pc # "raised" => errors \subseteq {"memory_store"}
      BY <1>3
    <2>3. status' \in {"success", "partial", "failed"}
      BY <1>2, <1>3
    <2>4. status' = "success" <=> Clean' /\ Status = "success"
      <3>1. status' = "success" => errors' = errors /\ executed = "success" /\ pc # "raised" /\ Status = "success"
        BY <1>2, <1>3, <1>4
      <3>2. status' = "success" => Clean' /\ Status = "success"
        BY <2>1, <2>6, <3>1
      <3>3. Clean' /\ Status = "success" => status' = "success"
        BY <1>2, <1>3, <2>1, <2>2
      <3> QED
        BY <3>2, <3>3
    <2>5. status' = "partial" => Clean' /\ Status = "partial"
      <3>1. status' = "partial" => errors' = errors /\ executed = "success" /\ pc # "raised" /\ Status = "partial"
        BY <1>2, <1>3, <1>4
      <3> QED
        BY <2>1, <2>6, <3>1
    <2> QED
      BY <1>1, <1>2, <2>2, <2>3, <2>4, <2>5 DEF OutcomeInv
  <1>9. RefsInv'
    <2>1. RefsInv
      BY DEF LegacyInv
    <2>2. "memory_store" \notin errors' => "memory_store" \notin errors
      BY <1>2
    <2>3. stage \notin {"none", "planning", "execution", "memory_store"} /\ executed # "none"
      BY <1>2, <1>3
    <2>4. stage' \notin {"none", "planning", "execution"}
      BY <1>2
    <2> QED
      BY <1>2, <2>1, <2>2, <2>3, <2>4, Zenon DEF RefsInv
  <1>10. RememberedInv'
    BY <1>2, RememberedSame DEF LegacyInv
  <1> QED
    BY <1>1, <1>5, <1>6, <1>7, <1>8, <1>9, <1>10 DEF LegacyInv

LEMMA NothingKeeps ==
    ASSUME LegacyInv, UNCHANGED <<vars, legacyVars>>
    PROVE  LegacyInv'
  <1>1. LoopInv' /\ Status' = Status
    BY VarsSame DEF LegacyInv
  <1>2. /\ stage' = stage /\ status' = status /\ executed' = executed /\ refs' = refs /\ errors' = errors
        /\ pc' = pc /\ step' = step /\ stored' = stored /\ approved' = approved /\ prior' = prior
    BY DEF vars, legacyVars
  <1>3. LegacyTypeOK'
    BY <1>2 DEF LegacyInv, LegacyTypeOK
  <1>4. LoopIsCalled'
    BY <1>2 DEF LegacyInv, LoopIsCalled
  <1>5. StageInv'
    BY <1>2 DEF LegacyInv, StageInv
  <1>6. OutcomeInv'
    BY <1>1, <1>2 DEF LegacyInv, OutcomeInv, Clean
  <1>7. RefsInv'
    <2>1. RefsInv
      BY DEF LegacyInv
    <2> QED
      BY <1>2, <2>1, Zenon DEF RefsInv
  <1>8. RememberedInv'
    BY <1>2, RememberedSame DEF LegacyInv
  <1> QED
    BY <1>1, <1>3, <1>4, <1>5, <1>6, <1>7, <1>8 DEF LegacyInv

\* The invariant holds of a run of the loop, by itself and under the orchestrator.
THEOREM LegacyInvHolds == OrchestrationSpec => []LegacyInv
  <1>1. LegacyInv /\ [OrchestrationNext]_<<vars, legacyVars>> => LegacyInv'
    <2> SUFFICES ASSUME LegacyInv, [OrchestrationNext]_<<vars, legacyVars>>
                 PROVE  LegacyInv'
      OBVIOUS
    <2>1. CASE PlanGoal
      BY <2>1, PlanGoalKeeps
    <2>2. CASE ExecutePlan
      BY <2>2, ExecutePlanKeeps
    <2>3. CASE StoreRecord
      BY <2>3, StoreRecordKeeps
    <2>4. CASE Stored
      BY <2>4, StoredKeeps
    <2>5. CASE LoopStep
      BY <2>5, LoopStepKeeps
    <2>6. CASE Reflect
      BY <2>6, ReflectKeeps
    <2>7. CASE ApplyActions
      BY <2>7, ApplyActionsKeeps
    <2>8. CASE Over
      BY <2>8, NothingKeeps DEF Over
    <2>9. CASE UNCHANGED <<vars, legacyVars>>
      BY <2>9, NothingKeeps
    <2> QED
      BY <2>1, <2>2, <2>3, <2>4, <2>5, <2>6, <2>7, <2>8, <2>9 DEF OrchestrationNext
  <1> QED
    BY <1>1, LegacyStarts, PTL DEF OrchestrationSpec

-----------------------------------------------------------------------------
(***************************************************************************)
(* The properties.                                                         *)
(***************************************************************************)
LEMMA CopiesFollow == LoopInv => CopiesAreBounded
  <1> SUFFICES ASSUME LoopInv
               PROVE  CopiesAreBounded
    OBVIOUS
  <1>1. LoopInv /\ LoopTypeOK /\ AttemptsInv
    BY DEF LoopInv
  <1> PICK F, P, st : /\ F = FeedbackRecords /\ P = PersistedRecords /\ st = Status
                      /\ GoodFeedback(F, st) /\ GoodAccount(P, st) /\ RecordsInv(F, P)
    BY <1>1, LoopInvIs
  <1>2. ASSUME NEW s \in 1..4, NEW R, Len(R) \in Nat, CopiesInv(s, R), WrittenInv(s, R),
               NEW i \in 1..Len(R)
        PROVE  /\ Copies(R[i]) <= Attempts(s) /\ Attempts(s) <= MaxAttempts
               /\ i > 1 => Copies(R[i]) <= Copies(R[i - 1])
               /\ i = Len(R) => Copies(R[i]) <= 1
    <2> PICK n : n = Now(s, Len(R))
      OBVIOUS
    <2>1. n \in Nat /\ step \in Int /\ (n > 0 => Begun(s))
      BY <1>1, <1>2 DEF Now, Begun, LoopTypeOK
    <2>2. /\ Attempts(s) \in Nat /\ Attempts(s) <= MaxAttempts /\ MaxAttempts \in Nat
          /\ \A j \in 1..Len(R) : Copies(R[j]) \in Nat
      BY <1>1, AttemptsOf, CopiesOf, AgentAssumption DEF AttemptsInv, LoopTypeOK
    <2>3. \A j \in 1..Len(R) : Earlier(s, R, j) = Copies(R[j]) - IF j <= n THEN 1 ELSE 0
      BY DEF Earlier
    <2>4. /\ Earlier(s, R, i) <= Attempts(s) - IF Begun(s) THEN 1 ELSE 0
          /\ i > 1 => Earlier(s, R, i) <= Earlier(s, R, i - 1)
          /\ i = Len(R) => Earlier(s, R, i) = 0
      BY <1>2 DEF CopiesInv
    <2>5. Copies(R[i]) <= Attempts(s)
      BY <1>2, <2>1, <2>2, <2>3, <2>4
    <2>6. i > 1 => Copies(R[i]) <= Copies(R[i - 1])
      <3> SUFFICES ASSUME i > 1
                   PROVE  Copies(R[i]) <= Copies(R[i - 1])
        OBVIOUS
      <3> PICK j : j = i - 1
        OBVIOUS
      <3>1. j \in 1..Len(R) /\ j + 1 = i /\ j \in Int /\ i \in Int
        BY <1>2
      <3>2. /\ Earlier(s, R, i) = Copies(R[i]) - IF i <= n THEN 1 ELSE 0
            /\ Earlier(s, R, j) = Copies(R[j]) - IF j <= n THEN 1 ELSE 0
            /\ Earlier(s, R, i) <= Earlier(s, R, j)
            /\ Copies(R[i]) \in Nat /\ Copies(R[j]) \in Nat
        BY <1>2, <2>2, <2>3, <2>4, <3>1
      <3>3. Copies(R[i]) <= Copies(R[j])
        BY <2>1, <3>1, <3>2
      <3> QED
        BY <3>3
    <2>7. i = Len(R) => Copies(R[i]) <= 1
      BY <2>2, <2>3, <2>4
    <2> QED
      BY <2>2, <2>5, <2>6, <2>7
  <1>3. /\ CopiesInv(3, F) /\ WrittenInv(3, F) /\ Len(F) \in Nat
        /\ CopiesInv(4, P) /\ WrittenInv(4, P) /\ Len(P) \in Nat
    BY DEF RecordsInv, GoodFeedback, GoodAccount
  <1>4. ASSUME NEW s \in 1..4, NEW R, R = RecordsOf(s), NEW i \in 1..Len(R)
        PROVE  /\ Copies(R[i]) <= Attempts(s)
               /\ i > 1 => Copies(R[i]) <= Copies(R[i - 1])
               /\ i = Len(R) => Copies(R[i]) <= 1
    <2>1. CASE s \in {1, 2}
      <3>1. R = <<>>
        BY <1>4, <2>1 DEF RecordsOf, Steps
      <3>2. 1..Len(R) = {}
        BY <3>1
      <3> QED
        BY <3>2
    <2>2. CASE s = 3
      <3>1. R = F
        BY <1>4, <2>2 DEF RecordsOf, Steps
      <3> QED
        BY <1>2, <1>3, <2>2, <3>1
    <2>3. CASE s = 4
      <3>1. R = P
        BY <1>4, <2>3 DEF RecordsOf, Steps
      <3> QED
        BY <1>2, <1>3, <2>3, <3>1
    <2> QED
      BY <2>1, <2>2, <2>3
  <1> SUFFICES ASSUME NEW s \in 1..4, NEW R, R = RecordsOf(s)
               PROVE  /\ Attempts(s) <= MaxAttempts
                      /\ \A i \in 1..Len(R) :
                            /\ Copies(R[i]) <= IF i = 1 THEN Attempts(s) ELSE Copies(R[i - 1])
                            /\ i = Len(R) => Copies(R[i]) <= 1
    BY Zenon DEF CopiesAreBounded
  <1>5. Attempts(s) <= MaxAttempts
    BY <1>1 DEF AttemptsInv
  <1>6. ASSUME NEW i \in 1..Len(R)
        PROVE  /\ Copies(R[i]) <= IF i = 1 THEN Attempts(s) ELSE Copies(R[i - 1])
               /\ i = Len(R) => Copies(R[i]) <= 1
    <2>1. CASE i = 1
      BY <1>4, <2>1
    <2>2. CASE i # 1
      <3>1. i > 1
        BY <2>2
      <3> QED
        BY <1>4, <2>2, <3>1
    <2> QED
      BY <2>1, <2>2
  <1> QED
    BY <1>5, <1>6

LEMMA ReverseIs ==
    ASSUME NEW T, NEW q \in Seq(T)
    PROVE  /\ Reverse(q) \in Seq(T) /\ Len(Reverse(q)) = Len(q)
           /\ \A i \in 1..Len(q) : Reverse(q)[i] = q[Len(q) - i + 1]
  <1> PICK n : n = Len(q)
    OBVIOUS
  <1>1. n \in Nat /\ \A i \in 1..n : n - i + 1 \in 1..n
    OBVIOUS
  <1>2. [i \in 1..n |-> q[n - i + 1]] \in [1..n -> T]
    BY <1>1
  <1>3. Reverse(q) = [i \in 1..n |-> q[n - i + 1]]
    BY DEF Reverse
  <1> QED
    BY <1>1, <1>2, <1>3

LEMMA SuffixOf ==
    ASSUME NEW T, NEW p \in Seq(T), NEW q \in Seq(T), Len(p) <= Len(q),
           \A i \in 1..Len(p) : q[Len(q) - Len(p) + i] = p[i]
    PROVE  IsSuffix(p, q)
  <1> PICK m, n : m = Len(p) /\ n = Len(q)
    OBVIOUS
  <1> PICK r, s : r = Reverse(p) /\ s = Reverse(q)
    OBVIOUS
  <1>1. m \in Nat /\ n \in Nat /\ m <= n
    OBVIOUS
  <1>2. r \in Seq(T) /\ Len(r) = m /\ \A i \in 1..m : r[i] = p[m - i + 1]
    BY ReverseIs
  <1>3. s \in Seq(T) /\ Len(s) = n /\ \A i \in 1..n : s[i] = q[n - i + 1]
    BY ReverseIs
  <1>4. \A i \in 1..m : r[i] = s[i]
    <2> TAKE i \in 1..m
    <2>1. m - i + 1 \in 1..m /\ i \in 1..n /\ n - i + 1 = n - m + (m - i + 1)
      BY <1>1
    <2>2. q[n - m + (m - i + 1)] = p[m - i + 1]
      BY <2>1
    <2> QED
      BY <1>2, <1>3, <2>1, <2>2
  <1> PICK u, v : u = SubSeq(r, 1, m) /\ v = SubSeq(s, 1, m)
    OBVIOUS
  <1>5. u \in Seq(T) /\ Len(u) = m /\ \A i \in 1..m : u[i] = r[i]
    <2>1. 1 \in Int /\ m \in Int /\ \A i \in 1..m : r[i] \in T
      BY <1>1, <1>2
    <2>2. /\ u \in Seq(T) /\ Len(u) = (IF 1 <= m THEN m - 1 + 1 ELSE 0)
          /\ \A i \in 1..(m - 1 + 1) : u[i] = r[1 + i - 1]
      BY <2>1, SubSeqProperties
    <2> QED
      BY <1>1, <2>2
  <1>6. v \in Seq(T) /\ Len(v) = m /\ \A i \in 1..m : v[i] = s[i]
    <2>1. 1 \in Int /\ m \in Int /\ \A i \in 1..m : s[i] \in T
      BY <1>1, <1>3
    <2>2. /\ v \in Seq(T) /\ Len(v) = (IF 1 <= m THEN m - 1 + 1 ELSE 0)
          /\ \A i \in 1..(m - 1 + 1) : v[i] = s[1 + i - 1]
      BY <2>1, SubSeqProperties
    <2> QED
      BY <1>1, <2>2
  <1>7. u = v
    <2>1. \A i \in 1..Len(u) : u[i] = v[i]
      BY <1>4, <1>5, <1>6
    <2> QED
      BY <1>5, <1>6, <2>1, SeqEqual
  <1> QED
    BY <1>1, <1>2, <1>3, <1>7 DEF IsSuffix, IsPrefix

\* The same, for what is counted in the records there are.
LEMMA CopiesIs ==
    ASSUME LoopTypeOK, NEW r
    PROVE  /\ Copies(r) \in Nat
           /\ Copies(r) = Cardinality(Where(stored, {r}))
           /\ Copies(r) > 0 => \E i \in 1..Len(stored) : stored[i] = r
  <1> PICK q : q = stored
    OBVIOUS
  <1>1. q \in Seq(Records)
    BY DEF LoopTypeOK
  <1>2. /\ Copies(r) = Cardinality(Where(q, {r})) /\ Copies(r) \in Nat
        /\ (\A i \in 1..Len(q) : q[i] # r) => Copies(r) = 0
    BY <1>1, CopiesOf, Zenon
  <1> QED
    BY <1>2

\* The improvements are the last records, and the account stands before them.
LEMMA AccountFollows == LoopInv => ReturnedRunIsOnRecord
  <1> SUFFICES ASSUME LoopInv
               PROVE  ReturnedRunIsOnRecord
    OBVIOUS
  <1>1. LoopInv /\ LoopTypeOK
    BY DEF LoopInv
  <1> PICK F, P, st : /\ F = FeedbackRecords /\ P = PersistedRecords /\ st = Status
                      /\ GoodFeedback(F, st) /\ GoodAccount(P, st) /\ RecordsInv(F, P)
    BY <1>1, LoopInvIs
  <1> PICK q : q = stored
    OBVIOUS
  <1>2. q \in Seq(Records) /\ Len(q) \in Nat /\ P \in Seq(Records) /\ Len(P) \in Nat
    BY <1>1 DEF LoopTypeOK, GoodAccount
  <1> PICK I : I = {i \in 1..Len(q) : q[i].about = "improvement"}
    OBVIOUS
  <1> PICK told : told = Len(q) - Cardinality(I)
    OBVIOUS
  <1>3. ASSUME pc = "returned" \/ I # {}
        PROVE  I = (told + 1)..Len(q) /\ IsSuffix(P, SubSeq(q, 1, told))
    <2>1. pc \in {"improve", "returned"} \/ \E i \in 1..Len(stored) : stored[i].about = "improvement"
      BY <1>3
    <2> PICK n \in 0..Len(q) : /\ EndsWith(n, P, Len(P))
                               /\ \A i \in 1..Len(q) : q[i].about = "improvement" <=> i > n
      BY <2>1 DEF RecordsInv, AccountInv
    <2>2. n \in Nat /\ n <= Len(q) /\ n + 1 \in Int /\ Len(q) \in Int /\ 1 \in Int /\ n \in Int
      BY <1>2
    <2>3. I = (n + 1)..Len(q)
      BY <1>2, <2>2
    <2>4. Cardinality(I) = IF n + 1 > Len(q) THEN 0 ELSE Len(q) - (n + 1) + 1
      BY <2>2, <2>3, FS_Interval
    <2>5. told = n
      BY <1>2, <2>2, <2>4
    <2> PICK v : v = SubSeq(q, 1, n)
      OBVIOUS
    <2>6. v \in Seq(Records) /\ Len(v) = n /\ \A i \in 1..n : v[i] = q[i]
      <3>1. \A i \in 1..n : q[i] \in Records
        BY <1>2, <2>2
      <3>2. /\ v \in Seq(Records) /\ Len(v) = (IF 1 <= n THEN n - 1 + 1 ELSE 0)
            /\ \A i \in 1..(n - 1 + 1) : v[i] = q[1 + i - 1]
        BY <2>2, <3>1, SubSeqProperties
      <3> QED
        BY <2>2, <3>2
    <2>7. n >= Len(P) /\ \A i \in 1..Len(P) : q[n - Len(P) + i] = P[i]
      BY DEF EndsWith
    <2>8. \A i \in 1..Len(P) : v[n - Len(P) + i] = P[i]
      <3> TAKE i \in 1..Len(P)
      <3>1. n - Len(P) + i \in 1..n
        BY <1>2, <2>2, <2>7
      <3> QED
        BY <2>6, <2>7, <3>1
    <2>9. IsSuffix(P, v)
      BY <1>2, <2>6, <2>7, <2>8, SuffixOf
    <2> QED
      BY <2>3, <2>5, <2>9
  <1>4. ASSUME Copies(P[1]) > 0, NEW k \in 1..Len(F)
        PROVE  Copies(F[k]) > 0
    <2>1. \E i \in 1..Len(q) : q[i] = P[1]
      BY <1>1, <1>4, CopiesIs
    <2> PICK i \in 1..Len(q) : q[i] = P[1]
      BY <2>1
    <2>2. P[1].about \in {"record", "summary", "task", "run"}
      BY DEF GoodAccount
    <2>3. P[1] # Record("decision", "injected", "applied")
      BY <2>2, RecordIs
    <2>4. \A j \in 1..Len(F) : P[1] # F[j]
      BY <2>2 DEF GoodFeedback
    <2>5. Comes(P[1], F, P)
      BY DEF RecordsInv
    <2>6. step = 4
      BY <2>3, <2>4, <2>5 DEF Comes
    <2>7. Now(3, Len(F)) = Len(F)
      BY <2>6 DEF Now
    <2>8. Earlier(3, F, k) >= 0
      BY DEF RecordsInv, CopiesInv
    <2>9. Len(F) \in Nat
      BY DEF GoodFeedback
    <2>10. Copies(F[k]) \in Nat
      BY <1>1, CopiesIs
    <2>11. Earlier(3, F, k) = Copies(F[k]) - 1
      BY <2>7, <2>9 DEF Earlier
    <2> QED
      BY <2>8, <2>10, <2>11
  <1> QED
    BY <1>3, <1>4, Zenon DEF ReturnedRunIsOnRecord

\* An improvement that is there was earned, and is there once.
LEMMA ImprovementsFollow == LoopInv => ImprovementsAreEarned
  <1> SUFFICES ASSUME LoopInv
               PROVE  ImprovementsAreEarned
    OBVIOUS
  <1>1. LoopTypeOK /\ ImproveInv
    BY DEF LoopInv
  <1> PICK q : q = stored
    OBVIOUS
  <1>2. q \in Seq(Records) /\ Len(q) \in Nat
    BY <1>1 DEF LoopTypeOK
  <1>3. DOMAIN Confidence = Targets
    BY DEF Confidence, Targets
  <1>4. ASSUME NEW t \in Targets, Copies(Improvement(t)) > 0
        PROVE  Earned(t) /\ Copies(Improvement(t)) = 1
    <2> PICK r : r = Improvement(t)
      OBVIOUS
    <2>1. Copies(r) = Cardinality(Where(q, {r})) /\ \E j \in 1..Len(q) : q[j] = r
      BY <1>1, <1>4, CopiesIs
    <2> PICK j \in 1..Len(q) : q[j] = r
      BY <2>1
    <2>2. Earned(t)
      BY <1>1 DEF ImproveInv
    <2>3. r.about = "improvement"
      BY ImprovementIs
    <2>4. Single(q)
      BY <1>1 DEF ImproveInv
    <2>5. \A k \in 1..Len(q) : q[k] = r => k = j
      BY <2>3, <2>4 DEF Single
    <2>6. Where(q, {r}) = {j}
      BY <2>5 DEF Where
    <2>7. Cardinality({j}) = 1
      BY FS_Singleton
    <2> QED
      BY <2>1, <2>2, <2>6, <2>7
  <1>5. \A t \in Targets : Copies(Improvement(t)) > 0 => Earned(t) /\ Copies(Improvement(t)) = 1
    BY <1>4
  <1> PICK T : T = {t \in Targets : Copies(Improvement(t)) > 0}
    OBVIOUS
  <1>6. \A t \in T : Copies(Improvement(t)) = 1
    BY <1>5
  <1>7. "retry_limit" \in T =>
           \/ Status # "success"
           \/ \E from \in Horizons :
                 10 * (Cardinality(Successes(prior, from..Len(prior))) + 2)
                   < 8 * (Cardinality(Executions(prior, from..Len(prior))) + 2)
    BY <1>5 DEF Earned, Under
  <1>8. "policy_gate" \in T =>
           Status # "success" \/ Failures(prior, {i \in 1..Len(prior) : i + Limit > Len(prior)}) # {}
    BY <1>5 DEF Earned, Recent
  <1>9. "policy_violation_guard" \in T =>
           Violations(prior, {i \in 1..Len(prior) : i + Limit > Len(prior)}) # {}
    BY <1>5 DEF Earned, Recent
  <1>10. T = {target \in DOMAIN Confidence : Copies(Improvement(target)) > 0}
    BY <1>3
  <1> QED
    BY <1>6, <1>7, <1>8, <1>9, <1>10, Zenon DEF ImprovementsAreEarned

\* Behind a run that returned, a failure is in memory exactly where there was one, and
\* so is what the run says of itself.
LEMMA ReturnedIsTold ==
    ASSUME LoopInv, pc = "returned"
    PROVE  /\ (\E i \in 1..Len(stored) : stored[i].stream = "failure") <=> Status # "success"
           /\ Contains(stored, Record("decision", "run", Status))
  <1> PICK F, P, st : /\ F = FeedbackRecords /\ P = PersistedRecords /\ st = Status
                      /\ GoodFeedback(F, st) /\ GoodAccount(P, st) /\ RecordsInv(F, P)
    BY LoopInvIs
  <1> PICK q : q = stored
    OBVIOUS
  <1>1. q \in Seq(Records) /\ Len(q) \in Nat /\ Len(P) \in Nat /\ Len(P) >= 3
    BY DEF LoopInv, LoopTypeOK, GoodAccount
  <1>2. \A i \in 1..Len(P) : \E k \in 1..Len(q) : q[k] = P[i]
    <2> PICK n \in 0..Len(q) : EndsWith(n, P, Len(P))
      BY DEF RecordsInv, AccountInv
    <2> TAKE i \in 1..Len(P)
    <2>1. n >= Len(P) /\ q[n - Len(P) + i] = P[i]
      BY DEF EndsWith
    <2>2. n - Len(P) + i \in 1..Len(q)
      BY <1>1, <2>1
    <2> QED
      BY <2>1, <2>2
  <1>3. Contains(q, Record("decision", "run", st))
    <2>1. P[Len(P)] = Record("decision", "run", st) /\ Len(P) \in 1..Len(P)
      BY <1>1 DEF GoodAccount
    <2> QED
      BY <1>2, <2>1 DEF Contains
  <1>4. st # "success" => \E k \in 1..Len(q) : q[k].stream = "failure"
    <2> SUFFICES ASSUME st # "success"
                 PROVE  \E k \in 1..Len(q) : q[k].stream = "failure"
      OBVIOUS
    <2> PICK i \in 1..Len(P) : P[i].stream = "failure"
      BY DEF GoodAccount
    <2> QED
      BY <1>2
  <1>5. ASSUME st = "success", NEW k \in 1..Len(q)
        PROVE  q[k].stream # "failure"
    <2> PICK r : r = q[k]
      OBVIOUS
    <2>1. Comes(r, F, P)
      BY DEF RecordsInv
    <2>2. r = Record("decision", "injected", "applied") => r.stream = "decision"
      BY RecordIs
    <2>3. \A t \in Targets : r = Improvement(t) => r.stream = "decision"
      BY ImprovementIs
    <2>4. \A j \in 1..Len(F) : r = F[j] => r.stream # "failure"
      BY <1>5 DEF GoodFeedback
    <2>5. \A j \in 1..Len(P) : r = P[j] => r.stream # "failure"
      BY <1>5 DEF GoodAccount
    <2> QED
      BY <2>1, <2>2, <2>3, <2>4, <2>5 DEF Comes
  <1> QED
    BY <1>3, <1>4, <1>5

LEMMA ResultFollows == LegacyInv => ResultAgreesWithMemory
  <1> SUFFICES ASSUME LegacyInv, stage = "ended"
               PROVE  ResultAgreesWithMemory
    BY Zenon DEF ResultAgreesWithMemory
  <1>1. LoopInv /\ RefsInv /\ StageInv
    BY DEF LegacyInv
  <1>2. /\ status \in {"success", "partial", "failed"}
        /\ Clean => pc = "returned"
        /\ status = "success" <=> Clean /\ Status = "success"
        /\ status = "partial" => Clean /\ Status = "partial"
    BY DEF LegacyInv, OutcomeInv
  <1> PICK I : I = {i \in 1..Len(stored) : stored[i].stream = "failure"}
    OBVIOUS
  <1>3. Clean => (I = {} <=> Status = "success") /\ Contains(stored, Record("decision", "run", Status))
    <2> SUFFICES ASSUME Clean
                 PROVE  (I = {} <=> Status = "success") /\ Contains(stored, Record("decision", "run", Status))
      OBVIOUS
    <2>1. /\ (\E i \in 1..Len(stored) : stored[i].stream = "failure") <=> Status # "success"
          /\ Contains(stored, Record("decision", "run", Status))
      BY <1>1, <1>2, ReturnedIsTold
    <2> QED
      BY <2>1
  <1>4. status = "success" <=> Clean /\ I = {}
    BY <1>2, <1>3
  <1>5. status = "partial" => Clean /\ I # {} /\ Contains(stored, Record("decision", "run", "partial"))
    BY <1>2, <1>3
  <1>6. executed # "none" /\ "memory_store" \notin errors =>
           refs = <<"execution">> \o IF executed = "failed" THEN <<"failure">> ELSE <<>>
    BY <1>1, Zenon DEF RefsInv
  <1>7. Contains(refs, "failure") => status = "failed"
    <2>1. CASE refs = <<>>
      <3>1. 1..Len(refs) = {}
        BY <2>1
      <3> QED
        BY <3>1 DEF Contains
    <2>2. CASE refs = <<"execution">>
      <3>1. 1..Len(refs) = {1} /\ refs[1] = "execution"
        BY <2>2
      <3> QED
        BY <3>1 DEF Contains
    <2>3. CASE executed = "failed"
      BY <1>1, <2>3 DEF StageInv
    <2> QED
      BY <1>1, <2>1, <2>2, <2>3, Zenon DEF RefsInv
  <1>8. IsSuffix([i \in DOMAIN refs |-> Told(refs[i])], prior)
    <2> PICK T : T = PastRecords \cup {Told(f) : f \in {"execution", "failure"}}
      OBVIOUS
    <2> PICK f, p, q : f = refs /\ p = [i \in 1..Len(f) |-> Told(f[i])] /\ q = prior
      OBVIOUS
    <2>1. f \in Seq({"execution", "failure"}) /\ Len(f) \in Nat /\ DOMAIN f = 1..Len(f)
      BY DEF LegacyInv, LegacyTypeOK
    <2>2. \A i \in 1..Len(f) : Told(f[i]) \in T
      BY <2>1
    <2>3. p \in Seq(T) /\ Len(p) = Len(f) /\ \A i \in 1..Len(f) : p[i] = Told(f[i])
      BY <2>1, <2>2
    <2>4. q \in Seq(T)
      BY <1>1 DEF LoopInv, LoopTypeOK
    <2>5. Len(f) <= Len(q) /\ \A i \in 1..Len(f) : q[Len(q) - Len(f) + i] = Told(f[i])
      BY DEF LegacyInv, RememberedInv
    <2>6. IsSuffix(p, q)
      BY <2>3, <2>4, <2>5, SuffixOf
    <2> QED
      BY <2>1, <2>6
  <1> QED
    BY <1>2, <1>4, <1>5, <1>6, <1>7, <1>8, Zenon DEF ResultAgreesWithMemory, Clean

-----------------------------------------------------------------------------
\* Whatever raised, and wherever: no record is in memory more often than its step was
\* tried, none more often than the one before it, and the last one of a step once.
THEOREM CopiesAreBoundedHolds == OrchestrationSpec => []CopiesAreBounded
  <1>1. LegacyInv => CopiesAreBounded
    BY CopiesFollow DEF LegacyInv
  <1> QED
    BY <1>1, LegacyInvHolds, PTL

\* The whole account of a run that returned comes last in memory, before its
\* improvements only, and no account begins before the feedback on it is whole.
THEOREM ReturnedRunIsOnRecordHolds == OrchestrationSpec => []ReturnedRunIsOnRecord
  <1>1. LegacyInv => ReturnedRunIsOnRecord
    BY AccountFollows DEF LegacyInv
  <1> QED
    BY <1>1, LegacyInvHolds, PTL

\* Every improvement in memory is there once, and where the run succeeded on evidence
\* of the past it still had in sight, however many copies of its records retries left
\* behind.
THEOREM ImprovementsAreEarnedHolds == OrchestrationSpec => []ImprovementsAreEarned
  <1>1. LegacyInv => ImprovementsAreEarned
    BY ImprovementsFollow DEF LegacyInv
  <1> QED
    BY <1>1, LegacyInvHolds, PTL

\* The result of the orchestrator and what it and its loop left in memory tell the same
\* of the two executions.
THEOREM ResultAgreesWithMemoryHolds == OrchestrationSpec => []ResultAgreesWithMemory
  BY LegacyInvHolds, ResultFollows, PTL

\* The loop run by itself keeps the same invariant.
THEOREM LoopInvHolds == Spec => []LoopInv
  <1>1. LoopInv /\ [Next]_vars => LoopInv'
    <2> SUFFICES ASSUME LoopInv, [Next]_vars
                 PROVE  LoopInv'
      OBVIOUS
    <2>1. CASE Step
      BY <2>1, StepKeeps
    <2>2. CASE UNCHANGED vars
      BY <2>2, VarsSame
    <2> QED
      BY <2>1, <2>2 DEF Next, Done
  <1> QED
    BY <1>1, LoopStarts, PTL DEF Spec

\* And with it the properties that are about the loop alone, whoever calls it.
THEOREM LoopAloneIsSafe ==
    Spec => [](CopiesAreBounded /\ ReturnedRunIsOnRecord /\ ImprovementsAreEarned)
  BY LoopInvHolds, CopiesFollow, AccountFollows, ImprovementsFollow, PTL
=============================================================================
