-------------------------- MODULE PlanGraphProofs --------------------------
(***************************************************************************)
(* The safety properties of PlanGraph, proved for any number of tasks and  *)
(* any dependency lists.                                                   *)
(*                                                                         *)
(* No argument follows a path.  What _dfs has returned from is closed      *)
(* under dependents and every set of such tasks has one that depends on    *)
(* none of the set, which a return preserves; a back edge closes a circle  *)
(* made of a piece of the stack; and what is left when the traversal gets  *)
(* stuck is a set in which every task still waits for another.             *)
(***************************************************************************)
EXTENDS PlanGraph, FiniteSetTheorems, SequenceTheorems, WellFoundedInduction, TLAPS

Searching == {"dfs", "levels", "planned", "cycle_error"}

PlanTypeOK ==
    /\ deps \in [Tasks -> [0..N -> Nat]]
    /\ pc \in {"validate", "build"} \cup Searching \cup Ended
    /\ adjacency \in [Tasks -> SUBSET Tasks] /\ inDegree \in [Tasks -> Int]
    /\ visited \in SUBSET Tasks /\ stack \in Seq(Tasks)
    /\ ready \in SUBSET Tasks /\ nextReady \in SUBSET Tasks
    /\ group \in Seq(Tasks) /\ ordered \in Seq(Tasks) /\ groups \in Seq(Seq(Tasks))

\* Nothing is done before its turn.
Untouched ==
    /\ pc \in {"validate", "build"} => visited = {} /\ stack = <<>>
    /\ pc \in {"validate", "build", "dfs"} =>
          /\ ready = {} /\ nextReady = {}
          /\ group = <<>> /\ ordered = <<>> /\ groups = <<>>

\* The mentions of tasks that are not in the order yet; repeats never go away.
Owed(t) == {m \in Mentions(t) : m[2] = 1 => m[1] \notin Range(ordered)}

GraphIsBuilt ==
    pc \in Searching =>
       /\ \A d, t \in Tasks : t \in adjacency[d] <=> d \in DependsOn(t)
       /\ \A t \in Tasks : inDegree[t] = Cardinality(Owed(t))

-----------------------------------------------------------------------------
\* The tasks whose call of _dfs has returned.
Finished == visited \ Range(stack)

StackIsPath ==
    /\ Range(stack) \subseteq visited
    /\ \A i, j \in 1..Len(stack) : stack[i] = stack[j] => i = j
    /\ \A i \in 1..Len(stack) : i > 1 => stack[i] \in adjacency[stack[i - 1]]

FinishedIsAcyclic ==
    /\ \A t \in Finished : adjacency[t] \subseteq Finished
    /\ \A S \in SUBSET Finished : S # {} => \E t \in S : DependsOn(t) \cap S = {}

SearchInv ==
    /\ StackIsPath /\ FinishedIsAcyclic
    /\ pc \in {"levels", "planned"} => stack = <<>> /\ visited = Tasks

-----------------------------------------------------------------------------
Ordered == Range(ordered)

\* The tasks of the levels before level g.
Above(g) == UNION {Range(groups[h]) : h \in 1..(g - 1)}

Levels == Len(groups)

\* t may be on level g, which comes after all it depends on and just after some of it.
OnLevel(t, g) ==
    /\ DependsOn(t) \subseteq Above(g)
    /\ g > 1 => DependsOn(t) \cap Range(groups[g - 1]) # {}

Ascending(s) == \A i, j \in 1..Len(s) : i < j => s[i] < s[j]

TraversalInv ==
    /\ \A i, j \in 1..Len(ordered) : ordered[i] = ordered[j] => i = j
    /\ ready \cap nextReady = {} /\ ready \cap Ordered = {} /\ nextReady \cap Ordered = {}
    /\ \A t \in Tasks : inDegree[t] = 0 <=> t \in ready \cup nextReady \cup Ordered

LevelsInv ==
    /\ Ordered = Above(Levels + 1) \cup Range(group)
    /\ FlattenSeq(groups) \in Seq(Tasks) /\ FlattenSeq(groups) \o group = ordered
    /\ \A g \in 1..Levels :
          Ascending(groups[g]) /\ \A t \in Range(groups[g]) : OnLevel(t, g)
    /\ Ascending(group) /\ \A s \in Range(group), t \in ready : s < t
    /\ \A t \in Range(group) \cup ready : OnLevel(t, Levels + 1)
    /\ \A t \in nextReady : DependsOn(t) \subseteq Ordered /\ DependsOn(t) \cap Range(group) # {}

PlanInv ==
    /\ PlanTypeOK /\ Untouched /\ GraphIsBuilt /\ SearchInv
    /\ pc \in {"levels", "planned"} => TraversalInv /\ LevelsInv
    /\ pc = "planned" => ready = {} /\ group = <<>> /\ Ordered = Tasks /\ Len(ordered) = N
    /\ CycleErrorIsRight

-----------------------------------------------------------------------------
(***************************************************************************)
(* Sets and sequences.                                                     *)
(***************************************************************************)
LEMMA MinIsLeast ==
    ASSUME NEW S \in SUBSET Nat, S # {}
    PROVE  Min(S) \in S /\ \A y \in S : Min(S) <= y
  <1>1. PICK R : IsWellFoundedOn(R, Nat) /\ \A x, y \in Nat : x < y => <<x, y>> \in R
    <2>1. \A x, y \in Nat : x < y => <<x, y>> \in OpToRel(<, Nat)
      BY Zenon DEF OpToRel
    <2> QED
      BY <2>1, NatLessThanWellFounded, Zenon
  <1>2. PICK x \in S : \A y \in S : ~(<<y, x>> \in R)
    <2>1. IsWellFoundedOn(R, Nat) /\ S \subseteq Nat /\ S # {}
      BY <1>1
    <2> QED
      BY <2>1, WFMin, Zenon
  <1>3. x \in Nat /\ \A y \in S : y \in Nat /\ ~(y < x)
    BY <1>1, <1>2
  <1>4. \A y \in S : x <= y
    BY <1>3
  <1> QED
    BY <1>4 DEF Min

LEMMA RangeOf ==
    ASSUME NEW T, NEW s \in Seq(T)
    PROVE  /\ Range(s) = {s[i] : i \in 1..Len(s)}
           /\ Range(s) \subseteq T
  BY DEF Range

LEMMA RangeOfEmpty == Range(<<>>) = {}
  BY DEF Range

LEMMA RangeOfAppend ==
    ASSUME NEW T, NEW s \in Seq(T), NEW x \in T
    PROVE  /\ Append(s, x) \in Seq(T) /\ Len(Append(s, x)) = Len(s) + 1
           /\ Range(Append(s, x)) = Range(s) \cup {x}
           /\ \A i \in 1..Len(s) : Append(s, x)[i] = s[i]
           /\ Append(s, x)[Len(s) + 1] = x
  <1>1. /\ Append(s, x) \in Seq(T) /\ Len(Append(s, x)) = Len(s) + 1
        /\ \A i \in 1..Len(s) : Append(s, x)[i] = s[i]
        /\ Append(s, x)[Len(s) + 1] = x
    BY AppendProperties
  <1>2. Len(s) \in Nat /\ 1..(Len(s) + 1) = (1..Len(s)) \cup {Len(s) + 1}
    OBVIOUS
  <1>3. /\ Range(Append(s, x)) = {Append(s, x)[i] : i \in 1..(Len(s) + 1)}
        /\ Range(s) = {s[i] : i \in 1..Len(s)}
    BY <1>1, RangeOf
  <1>4. Range(Append(s, x)) = Range(s) \cup {x}
    BY <1>1, <1>2, <1>3
  <1> QED
    BY <1>1, <1>4

LEMMA RangeOfFront ==
    ASSUME NEW T, NEW s \in Seq(T), s # <<>>, \A i, j \in 1..Len(s) : s[i] = s[j] => i = j
    PROVE  /\ Front(s) \in Seq(T) /\ Len(Front(s)) = Len(s) - 1
           /\ Last(s) \in Range(s) /\ Len(s) \in 1..Len(s)
           /\ Range(Front(s)) = Range(s) \ {Last(s)}
           /\ \A i \in 1..(Len(s) - 1) : Front(s)[i] = s[i]
  <1>1. Len(s) \in Nat /\ Len(s) > 0
    BY EmptySeq
  <1>2. Front(s) \in Seq(T) /\ Len(Front(s)) = Len(s) - 1 /\ \A i \in 1..(Len(s) - 1) : Front(s)[i] = s[i]
    <2>1. 1 \in Int /\ Len(s) - 1 \in Int /\ \A i \in 1..(Len(s) - 1) : s[i] \in T
      BY <1>1
    <2> DEFINE f == SubSeq(s, 1, Len(s) - 1)
    <2>2. /\ f \in Seq(T) /\ Len(f) = IF 1 <= Len(s) - 1 THEN Len(s) - 1 - 1 + 1 ELSE 0
          /\ \A i \in 1..(Len(s) - 1 - 1 + 1) : f[i] = s[1 + i - 1]
      BY <2>1, SubSeqProperties
    <2> HIDE DEF f
    <2>3. Len(f) = Len(s) - 1
      <3>1. Len(f) = IF 1 <= Len(s) - 1 THEN Len(s) - 1 - 1 + 1 ELSE 0
        BY <2>2
      <3>2. PICK n \in Nat : n = Len(s) /\ n > 0
        BY <1>1
      <3> QED
        BY <3>1, <3>2
    <2>4. ASSUME NEW i \in 1..(Len(s) - 1)
          PROVE  f[i] = s[i]
      <3>1. i \in 1..(Len(s) - 1 - 1 + 1) /\ 1 + i - 1 = i
        BY <1>1
      <3> QED
        BY <2>2, <3>1
    <2> QED
      BY <2>2, <2>3, <2>4 DEF Front, f
  <1>3. Last(s) \in Range(s) /\ Len(s) \in 1..Len(s)
    BY <1>1, RangeOf DEF Last
  <1>4. Range(Front(s)) = {s[i] : i \in 1..(Len(s) - 1)}
    BY <1>2, RangeOf
  <1>5. Range(s) = {s[i] : i \in 1..Len(s)}
    BY RangeOf
  <1>6. Range(Front(s)) = Range(s) \ {Last(s)}
    BY <1>1, <1>4, <1>5 DEF Last
  <1> QED
    BY <1>2, <1>3, <1>6

LEMMA MentionsOf ==
    ASSUME NEW t \in Tasks, deps \in [Tasks -> [0..N -> Nat]]
    PROVE  /\ IsFiniteSet(Mentions(t))
           /\ \A d, k : <<d, k>> \in Mentions(t) <=> d \in Tasks /\ k \in 1..deps[t][d]
           /\ \A m \in Mentions(t) : m = <<m[1], m[2]>>
  <1> DEFINE f == [d \in Tasks |-> {d} \X (1..deps[t][d])]
             F == {{d} \X (1..deps[t][d]) : d \in Tasks}
  <1>1. IsFiniteSet(Tasks)
    BY PlanAssumption, FS_Interval DEF Tasks
  <1>2. f \in Surjection(Tasks, F)
    BY DEF Surjection
  <1>3. IsFiniteSet(F)
    BY <1>1, <1>2, FS_Surjection
  <1>4. ASSUME NEW d \in Tasks
        PROVE  IsFiniteSet({d} \X (1..deps[t][d]))
    <2>1. deps[t][d] \in Int /\ 1 \in Int
      BY PlanAssumption DEF Tasks
    <2> QED
      BY <2>1, FS_Interval, FS_Singleton, FS_Product
  <1>5. IsFiniteSet(UNION F)
    BY <1>3, <1>4, FS_UNION
  <1>6. \A d, k : <<d, k>> \in Mentions(t) <=> d \in Tasks /\ k \in 1..deps[t][d]
    BY DEF Mentions
  <1>7. \A m \in Mentions(t) : m = <<m[1], m[2]>>
    BY DEF Mentions
  <1> QED
    BY <1>5, <1>6, <1>7 DEF Mentions

-----------------------------------------------------------------------------
(***************************************************************************)
(* FlattenSeq is defined by a recursive function on the positions.  That   *)
(* there is one such function is seen from the least length without one    *)
(* and the least position where two differ.                                *)
(***************************************************************************)
IsFlattening(f, gs, n) ==
    f = [i \in 1..n |-> IF i = 1 THEN gs[i] ELSE f[i - 1] \o gs[i]]

LEMMA LeastNumber ==
    ASSUME NEW B \in SUBSET Nat, NEW n \in B
    PROVE  \E m \in B : \A y \in B : m <= y
  BY MinIsLeast

LEMMA FlatteningExists ==
    ASSUME NEW gs, NEW n \in Nat
    PROVE  \E f : IsFlattening(f, gs, n)
  <1> DEFINE B == {k \in Nat : ~\E f : IsFlattening(f, gs, k)}
  <1> SUFFICES ASSUME n \in B
               PROVE  FALSE
    OBVIOUS
  <1>1. PICK m \in B : \A y \in B : m <= y
    BY LeastNumber
  <1>2. m # 0
    <2> DEFINE f == [i \in 1..0 |-> gs[i]]
    <2>1. IsFlattening(f, gs, 0)
      BY DEF IsFlattening
    <2> QED
      BY <2>1
  <1>3. m - 1 \in Nat /\ m - 1 \notin B
    BY <1>1, <1>2
  <1>4. PICK f : IsFlattening(f, gs, m - 1)
    BY <1>3
  <1> DEFINE g == [i \in 1..m |-> IF i = m
                                     THEN IF i = 1 THEN gs[i] ELSE f[i - 1] \o gs[i]
                                     ELSE f[i]]
  <1>5. IsFlattening(g, gs, m)
    <2>1. \A i \in 1..m : i # 1 => i - 1 \in 1..m /\ i - 1 # m /\ g[i - 1] = f[i - 1]
      BY <1>1
    <2>2. \A i \in 1..m : i # m => i \in 1..(m - 1) /\ g[i] = f[i]
      BY <1>1
    <2>3. \A i \in 1..(m - 1) : f[i] = IF i = 1 THEN gs[i] ELSE f[i - 1] \o gs[i]
      BY <1>4 DEF IsFlattening
    <2>4. \A i \in 1..m : g[i] = IF i = 1 THEN gs[i] ELSE g[i - 1] \o gs[i]
      BY <2>1, <2>2, <2>3
    <2>5. g = [i \in 1..m |-> g[i]]
      OBVIOUS
    <2> HIDE DEF g
    <2>6. g = [i \in 1..m |-> IF i = 1 THEN gs[i] ELSE g[i - 1] \o gs[i]]
      BY <2>4, <2>5
    <2> QED
      BY <2>6 DEF IsFlattening
  <1> QED
    BY <1>1, <1>5

LEMMA FlatteningsAgree ==
    ASSUME NEW gs, NEW hs, NEW f, NEW g, NEW n \in Nat, NEW m \in Nat, n <= m,
           \A i \in 1..n : gs[i] = hs[i],
           IsFlattening(f, gs, n), IsFlattening(g, hs, m)
    PROVE  \A k \in 1..n : f[k] = g[k]
  <1> SUFFICES ASSUME NEW k \in 1..n
               PROVE  f[k] = g[k]
    OBVIOUS
  <1> DEFINE B == {i \in 1..n : f[i] # g[i]}
  <1> SUFFICES ASSUME k \in B
               PROVE  FALSE
    OBVIOUS
  <1>1. PICK i \in B : \A j \in B : i <= j
    <2>1. B \in SUBSET Nat /\ k \in B
      OBVIOUS
    <2> HIDE DEF B
    <2> QED
      BY <2>1, LeastNumber
  <1>2. /\ \A j \in 1..n : f[j] = IF j = 1 THEN gs[j] ELSE f[j - 1] \o gs[j]
        /\ \A j \in 1..m : g[j] = IF j = 1 THEN hs[j] ELSE g[j - 1] \o hs[j]
    BY DEF IsFlattening
  <1>3. i \in 1..n /\ i \in 1..m /\ gs[i] = hs[i]
    OBVIOUS
  <1>4. i # 1
    BY <1>1, <1>2, <1>3
  <1>5. i - 1 \in 1..n /\ i - 1 \notin B
    BY <1>1, <1>4
  <1> QED
    BY <1>2, <1>3, <1>4, <1>5

LEMMA FlattenIs ==
    ASSUME NEW T, NEW gs \in Seq(T), gs # <<>>
    PROVE  \E f : IsFlattening(f, gs, Len(gs)) /\ FlattenSeq(gs) = f[Len(gs)]
  <1> DEFINE f == CHOOSE flatten : IsFlattening(flatten, gs, Len(gs))
  <1>1. Len(gs) \in Nat /\ Len(gs) # 0
    BY EmptySeq
  <1>2. IsFlattening(f, gs, Len(gs))
    BY <1>1, FlatteningExists
  <1>3. FlattenSeq(gs) = f[Len(gs)]
    BY <1>1 DEF FlattenSeq, IsFlattening
  <1> QED
    BY <1>2, <1>3

LEMMA FlattenOfAppend ==
    ASSUME NEW T, NEW gs \in Seq(Seq(T)), NEW g \in Seq(T)
    PROVE  FlattenSeq(Append(gs, g)) = FlattenSeq(gs) \o g
  <1> DEFINE n == Len(gs)
             hs == Append(gs, g)
  <1>1. /\ n \in Nat /\ hs \in Seq(Seq(T)) /\ Len(hs) = n + 1 /\ hs # <<>>
        /\ hs[n + 1] = g /\ \A i \in 1..n : hs[i] = gs[i]
    BY AppendProperties
  <1>2. PICK f : IsFlattening(f, hs, n + 1) /\ FlattenSeq(hs) = f[n + 1]
    BY <1>1, FlattenIs
  <1>3. f[n + 1] = IF n + 1 = 1 THEN g ELSE f[n + 1 - 1] \o g
    <2>1. n + 1 \in 1..(n + 1)
      BY <1>1
    <2>2. \A i \in 1..(n + 1) : f[i] = IF i = 1 THEN hs[i] ELSE f[i - 1] \o hs[i]
      BY <1>2 DEF IsFlattening
    <2> HIDE DEF hs, n
    <2> QED
      BY <1>1, <2>1, <2>2
  <1>4. CASE gs = <<>>
    <2>1. n = 0 /\ FlattenSeq(gs) = <<>>
      BY <1>4 DEF FlattenSeq
    <2>2. <<>> \o g = g
      OBVIOUS
    <2> QED
      BY <1>2, <1>3, <2>1, <2>2
  <1>5. CASE gs # <<>>
    <2>1. PICK e : IsFlattening(e, gs, n) /\ FlattenSeq(gs) = e[n]
      BY <1>5, FlattenIs
    <2>2. n # 0 /\ n \in 1..n /\ n <= n + 1 /\ n + 1 # 1 /\ n + 1 - 1 = n
      BY <1>1, <1>5, EmptySeq
    <2>3. e[n] = f[n]
      <3>1. n \in Nat /\ n + 1 \in Nat /\ \A i \in 1..n : gs[i] = hs[i]
        BY <1>1
      <3> HIDE DEF hs, n
      <3>2. \A k \in 1..n : e[k] = f[k]
        BY <1>2, <2>1, <2>2, <3>1, FlatteningsAgree
      <3> QED
        BY <2>2, <3>2
    <2> QED
      BY <1>2, <1>3, <2>1, <2>2, <2>3
  <1> QED
    BY <1>4, <1>5

-----------------------------------------------------------------------------
(***************************************************************************)
(* The search.                                                             *)
(***************************************************************************)
LEMMA InitInv == Init => PlanInv
  <1> SUFFICES ASSUME Init
               PROVE  PlanInv
    OBVIOUS
  <1> USE DEF Init
  <1>1. deps \in [Tasks -> [0..N -> Nat]]
    BY PlanAssumption
  <1>2. PlanTypeOK /\ Untouched
    BY <1>1 DEF PlanTypeOK, Untouched
  <1>3. GraphIsBuilt
    BY DEF GraphIsBuilt, Searching
  <1>4. Finished = {} /\ Range(stack) = {} /\ Len(stack) = 0
    BY RangeOfEmpty DEF Finished
  <1>5. SearchInv
    BY <1>4 DEF SearchInv, StackIsPath, FinishedIsAcyclic
  <1> QED
    BY <1>2, <1>3, <1>5 DEF PlanInv, CycleErrorIsRight

\* What an invariant says of the graph and the search, when no step of it is taken.
LEMMA SearchIsKept ==
    ASSUME SearchInv, UNCHANGED <<deps, adjacency, visited, stack>>,
           pc' \in {"levels", "planned"} => stack = <<>> /\ visited = Tasks
    PROVE  SearchInv'
  BY DEF SearchInv, StackIsPath, FinishedIsAcyclic, Finished, DependsOn

LEMMA GraphIsKept ==
    ASSUME GraphIsBuilt, UNCHANGED <<deps, adjacency, inDegree, ordered>>, pc \in Searching
    PROVE  GraphIsBuilt'
  BY DEF GraphIsBuilt, Owed, Mentions, DependsOn

LEMMA ValidateStep == PlanInv /\ Validate => PlanInv'
  <1> SUFFICES ASSUME PlanInv, Validate
               PROVE  PlanInv'
    OBVIOUS
  <1> USE DEF PlanInv, Validate
  <1>1. pc' \in {"value_error", "build"} /\ pc = "validate"
    OBVIOUS
  <1>2. PlanTypeOK' /\ Untouched'
    BY <1>1 DEF PlanTypeOK, Untouched, Ended
  <1>3. GraphIsBuilt' /\ CycleErrorIsRight'
    BY <1>1 DEF GraphIsBuilt, Searching, CycleErrorIsRight
  <1>4. SearchInv'
    BY <1>1, SearchIsKept
  <1> QED
    BY <1>1, <1>2, <1>3, <1>4

LEMMA BuildStep == PlanInv /\ Build => PlanInv'
  <1> SUFFICES ASSUME PlanInv, Build
               PROVE  PlanInv'
    OBVIOUS
  <1> USE DEF PlanInv, Build
  <1>1. /\ pc = "build" /\ pc' = "dfs" /\ PlanTypeOK
        /\ visited = {} /\ stack = <<>> /\ ordered = <<>> /\ ready = {} /\ nextReady = {}
        /\ group = <<>> /\ groups = <<>>
    BY DEF Untouched
  <1>2. \A t \in Tasks : Cardinality(Mentions(t)) \in Nat
    BY <1>1, MentionsOf, FS_CardinalityType DEF PlanTypeOK
  <1>3. PlanTypeOK'
    BY <1>1, <1>2 DEF PlanTypeOK, Searching
  <1>4. Untouched' /\ CycleErrorIsRight'
    BY <1>1 DEF Untouched, CycleErrorIsRight
  <1>5. GraphIsBuilt'
    <2>1. ASSUME NEW t \in Tasks
          PROVE  inDegree'[t] = Cardinality(Owed(t)')
      <3>1. Owed(t)' = Mentions(t)
        BY <1>1, RangeOfEmpty DEF Owed, Mentions
      <3> QED
        BY <3>1
    <2>2. \A d, t \in Tasks : t \in adjacency'[d] <=> d \in DependsOn(t)'
      BY DEF DependsOn
    <2> QED
      BY <2>1, <2>2 DEF GraphIsBuilt
  <1>6. Finished' = {} /\ Range(stack)' = {} /\ Len(stack') = 0
    BY <1>1, RangeOfEmpty DEF Finished
  <1>7. SearchInv'
    BY <1>1, <1>6 DEF SearchInv, StackIsPath, FinishedIsAcyclic
  <1> QED
    BY <1>1, <1>3, <1>4, <1>5, <1>7

\* A call of _dfs on a task that was not visited leaves the finished ones as they are.
LEMMA CallStep ==
    ASSUME PlanInv, pc = "dfs", NEW n \in Tasks, n \notin visited,
           stack # <<>> => n \in adjacency[Last(stack)],
           stack' = Append(stack, n), visited' = visited \cup {n},
           UNCHANGED <<deps, malformed, pc, levelState>>
    PROVE  PlanInv'
  <1> USE DEF PlanInv, levelState
  <1>1. PlanTypeOK /\ StackIsPath /\ FinishedIsAcyclic /\ stack \in Seq(Tasks) /\ Len(stack) \in Nat
    BY DEF SearchInv, PlanTypeOK
  <1>2. /\ stack' \in Seq(Tasks) /\ Len(stack') = Len(stack) + 1
        /\ Range(stack') = Range(stack) \cup {n}
        /\ \A i \in 1..Len(stack) : stack'[i] = stack[i]
        /\ stack'[Len(stack) + 1] = n
    BY <1>1, RangeOfAppend
  <1>3. PlanTypeOK' /\ Untouched' /\ CycleErrorIsRight'
    BY <1>1, <1>2 DEF PlanTypeOK, Untouched, CycleErrorIsRight
  <1>4. GraphIsBuilt'
    BY GraphIsKept DEF Searching
  <1>5. Finished' = Finished
    BY <1>1, <1>2 DEF Finished, StackIsPath
  <1>6. FinishedIsAcyclic'
    BY <1>1, <1>5 DEF FinishedIsAcyclic, DependsOn
  <1>7. StackIsPath'
    <2>1. (Range(stack) \subseteq visited)'
      BY <1>1, <1>2 DEF StackIsPath
    <2>2. \A i \in 1..Len(stack) : stack[i] \in visited
      BY <1>1, RangeOf DEF StackIsPath
    <2>3. ASSUME NEW i \in 1..Len(stack'), NEW j \in 1..Len(stack'), stack'[i] = stack'[j]
          PROVE  i = j
      BY <1>1, <1>2, <2>2, <2>3 DEF StackIsPath
    <2>4. ASSUME NEW i \in 1..Len(stack'), i > 1
          PROVE  stack'[i] \in adjacency'[stack'[i - 1]]
      <3>1. CASE i \in 1..Len(stack)
        <4>1. i - 1 \in 1..Len(stack)
          BY <2>4, <3>1
        <4> QED
          BY <1>1, <1>2, <2>4, <3>1, <4>1 DEF StackIsPath
      <3>2. CASE i = Len(stack) + 1
        <4>1. i - 1 = Len(stack) /\ i - 1 \in 1..Len(stack) /\ stack # <<>>
          BY <1>1, <2>4, <3>2, EmptySeq
        <4> QED
          BY <1>2, <3>2, <4>1 DEF Last
      <3>3. i \in 1..Len(stack) \/ i = Len(stack) + 1
        BY <1>1, <1>2
      <3> QED
        BY <3>1, <3>2, <3>3
    <2> QED
      BY <2>1, <2>3, <2>4 DEF StackIsPath
  <1> QED
    BY <1>3, <1>4, <1>6, <1>7 DEF SearchInv

LEMMA TasksAreNumbers == Tasks \subseteq Nat /\ IsFiniteSet(Tasks) /\ Cardinality(Tasks) = N
  <1>1. 1 \in Int /\ N \in Int
    BY PlanAssumption
  <1> QED
    BY <1>1, PlanAssumption, FS_Interval DEF Tasks

LEMMA DfsRootStep == PlanInv /\ DfsRoot => PlanInv'
  <1> SUFFICES ASSUME PlanInv, DfsRoot
               PROVE  PlanInv'
    OBVIOUS
  <1>1. /\ pc = "dfs" /\ stack = <<>> /\ visited # Tasks /\ visited \subseteq Tasks
        /\ UNCHANGED <<deps, malformed, pc, levelState>>
    BY DEF DfsRoot, PlanInv, PlanTypeOK
  <1> DEFINE U == Tasks \ visited
             n == Min(U)
  <1>2. U \in SUBSET Nat /\ U # {}
    BY <1>1, TasksAreNumbers
  <1>3. n \in U
    BY <1>2, MinIsLeast
  <1>4. stack' = <<n>> /\ visited' = visited \cup {n}
    BY DEF DfsRoot
  <1> HIDE DEF n
  <1>5. stack' = Append(stack, n)
    BY <1>1, <1>4
  <1> QED
    BY <1>1, <1>3, <1>4, <1>5, CallStep

LEMMA ActiveOf ==
    ASSUME PlanInv, pc = "dfs", stack # <<>>
    PROVE  /\ Last(stack) \in Tasks /\ Last(stack) \in Range(stack) /\ Len(stack) \in 1..Len(stack)
           /\ Active(Last(stack)) \in SUBSET Nat
           /\ Active(Last(stack)) \subseteq adjacency[Last(stack)]
           /\ adjacency[Last(stack)] \subseteq Tasks
  <1>1. stack \in Seq(Tasks) /\ adjacency \in [Tasks -> SUBSET Tasks]
    BY DEF PlanInv, PlanTypeOK
  <1>2. Len(stack) \in Nat /\ Len(stack) # 0
    BY <1>1, EmptySeq
  <1>3. Last(stack) \in Tasks /\ Last(stack) \in Range(stack)
    BY <1>1, <1>2, RangeOf DEF Last
  <1> QED
    BY <1>1, <1>2, <1>3, TasksAreNumbers DEF Active

LEMMA DfsCallStep == PlanInv /\ DfsCall => PlanInv'
  <1> SUFFICES ASSUME PlanInv, DfsCall
               PROVE  PlanInv'
    OBVIOUS
  <1>1. /\ pc = "dfs" /\ stack # <<>> /\ Active(Last(stack)) # {}
        /\ UNCHANGED <<deps, malformed, pc, levelState>>
    BY DEF DfsCall
  <1> DEFINE m == Min(Active(Last(stack)))
  <1>2. m \in Active(Last(stack))
    BY <1>1, ActiveOf, MinIsLeast
  <1>3. m \notin visited /\ stack' = Append(stack, m) /\ visited' = visited \cup {m}
    BY DEF DfsCall
  <1> HIDE DEF m
  <1>4. m \in Tasks /\ m \in adjacency[Last(stack)]
    BY <1>1, <1>2, ActiveOf
  <1> QED
    BY <1>1, <1>3, <1>4, CallStep

\* A back edge closes a circle: the piece of the stack from the task it leads to.
LEMMA BackEdgeClosesCircle ==
    ASSUME PlanInv, pc = "dfs", stack # <<>>, NEW m \in Range(stack), m \in adjacency[Last(stack)]
    PROVE  Cyclic
  <1>1. /\ stack \in Seq(Tasks) /\ StackIsPath /\ GraphIsBuilt /\ Len(stack) \in Nat
        /\ \A d, t \in Tasks : t \in adjacency[d] <=> d \in DependsOn(t)
    BY DEF PlanInv, PlanTypeOK, SearchInv, GraphIsBuilt, Searching
  <1>2. PICK k \in 1..Len(stack) : m = stack[k]
    BY <1>1, RangeOf
  <1> DEFINE S == {stack[j] : j \in k..Len(stack)}
  <1>3. \A j \in k..Len(stack) : j \in 1..Len(stack) /\ stack[j] \in Tasks /\ stack[j] \in S
    BY <1>1
  <1>4. S \in SUBSET Tasks /\ m \in S /\ Last(stack) \in S /\ Last(stack) \in Tasks
    BY <1>2, <1>3 DEF Last
  <1>5. ASSUME NEW t \in S
        PROVE  DependsOn(t) \cap S # {}
    <2>1. PICK j \in k..Len(stack) : t = stack[j]
      OBVIOUS
    <2>2. CASE j = k
      <3>1. Last(stack) \in DependsOn(t)
        BY <1>1, <1>2, <1>4, <2>1, <2>2
      <3> QED
        BY <1>4, <3>1
    <2>3. CASE j # k
      <3>1. j - 1 \in k..Len(stack) /\ j > 1
        BY <2>3
      <3>2. stack[j] \in adjacency[stack[j - 1]]
        BY <1>1, <1>3, <3>1 DEF StackIsPath
      <3>3. stack[j - 1] \in DependsOn(t) /\ stack[j - 1] \in S
        BY <1>1, <1>3, <2>1, <3>1, <3>2
      <3> QED
        BY <3>3
    <2> QED
      BY <2>2, <2>3
  <1> HIDE DEF S
  <1> QED
    BY <1>4, <1>5 DEF Cyclic

LEMMA DfsBackEdgeStep == PlanInv /\ DfsBackEdge => PlanInv'
  <1> SUFFICES ASSUME PlanInv, DfsBackEdge
               PROVE  PlanInv'
    OBVIOUS
  <1>1. /\ pc = "dfs" /\ pc' = "cycle_error" /\ stack # <<>> /\ Active(Last(stack)) # {}
        /\ UNCHANGED <<deps, malformed, visited, stack, adjacency, inDegree, ready, nextReady,
                       group, ordered, groups>>
    BY DEF DfsBackEdge, levelState
  <1> DEFINE m == Min(Active(Last(stack)))
  <1>2. m \in Active(Last(stack)) /\ m \in visited
    BY <1>1, ActiveOf, MinIsLeast DEF DfsBackEdge
  <1> HIDE DEF m
  <1>3. m \in Range(stack) /\ m \in adjacency[Last(stack)]
    BY <1>2 DEF Active
  <1>4. Cyclic
    BY <1>1, <1>3, BackEdgeClosesCircle
  <1>5. CycleErrorIsRight'
    BY <1>1, <1>4 DEF CycleErrorIsRight, Cyclic, DependsOn
  <1>6. PlanTypeOK' /\ Untouched'
    BY <1>1 DEF PlanInv, PlanTypeOK, Untouched, Searching
  <1>7. GraphIsBuilt' /\ SearchInv'
    BY <1>1, GraphIsKept, SearchIsKept DEF PlanInv, Searching
  <1> QED
    BY <1>1, <1>5, <1>6, <1>7 DEF PlanInv

\* The task that _dfs returns from is a source among the finished ones.
LEMMA DfsReturnStep == PlanInv /\ DfsReturn => PlanInv'
  <1> SUFFICES ASSUME PlanInv, DfsReturn
               PROVE  PlanInv'
    OBVIOUS
  <1>1. /\ pc = "dfs" /\ stack # <<>> /\ Active(Last(stack)) = {} /\ stack' = Front(stack)
        /\ UNCHANGED <<deps, malformed, pc, visited, adjacency, inDegree, ready, nextReady,
                       group, ordered, groups>>
    BY DEF DfsReturn, levelState
  <1>2. PlanTypeOK /\ StackIsPath /\ FinishedIsAcyclic /\ stack \in Seq(Tasks) /\ Len(stack) \in Nat
        /\ \A d, t \in Tasks : t \in adjacency[d] <=> d \in DependsOn(t)
    BY <1>1 DEF PlanInv, SearchInv, PlanTypeOK, GraphIsBuilt, Searching
  <1> DEFINE n == Last(stack)
  <1>3. n \in Tasks /\ n \in Range(stack) /\ adjacency[n] \subseteq Tasks
    BY <1>1, ActiveOf
  <1>4. /\ stack' \in Seq(Tasks) /\ Len(stack') = Len(stack) - 1
        /\ Range(stack') = Range(stack) \ {n}
        /\ \A i \in 1..(Len(stack) - 1) : stack'[i] = stack[i]
    BY <1>1, <1>2, RangeOfFront DEF StackIsPath
  <1>5. Finished' = Finished \cup {n} /\ n \notin Finished
    BY <1>1, <1>2, <1>3, <1>4 DEF Finished, StackIsPath
  <1>6. adjacency[n] \subseteq Finished
    BY <1>1 DEF Active, Finished
  <1> HIDE DEF n
  <1>7. PlanTypeOK' /\ Untouched' /\ CycleErrorIsRight'
    BY <1>1, <1>4 DEF PlanInv, PlanTypeOK, Untouched, CycleErrorIsRight
  <1>8. GraphIsBuilt'
    BY <1>1, GraphIsKept DEF PlanInv, Searching
  <1>9. StackIsPath'
    <2>1. (Range(stack) \subseteq visited)'
      BY <1>1, <1>2, <1>4 DEF StackIsPath
    <2>2. \A i \in 1..Len(stack') : i \in 1..Len(stack) /\ stack'[i] = stack[i]
      BY <1>2, <1>4
    <2>3. \A i \in 1..Len(stack') : i > 1 => i - 1 \in 1..Len(stack')
      BY <1>2, <1>4
    <2>4. \A i, j \in 1..Len(stack') : stack'[i] = stack'[j] => i = j
      BY <1>2, <2>2 DEF StackIsPath
    <2>5. ASSUME NEW i \in 1..Len(stack'), i > 1
          PROVE  stack'[i] \in adjacency'[stack'[i - 1]]
      <3>1. stack[i] \in adjacency[stack[i - 1]] /\ stack'[i] = stack[i]
        BY <1>2, <2>2, <2>5 DEF StackIsPath
      <3>2. stack'[i - 1] = stack[i - 1]
        BY <2>2, <2>3, <2>5
      <3> QED
        BY <1>1, <3>1, <3>2
    <2> QED
      BY <2>1, <2>4, <2>5 DEF StackIsPath
  <1>10. FinishedIsAcyclic'
    <2>1. \A t \in Finished' : adjacency'[t] \subseteq Finished'
      BY <1>1, <1>2, <1>5, <1>6 DEF FinishedIsAcyclic
    <2>2. ASSUME NEW S \in SUBSET Finished', S # {}
          PROVE  \E t \in S : DependsOn(t) \cap S = {}
      <3>1. CASE n \notin S
        BY <1>2, <1>5, <2>2, <3>1 DEF FinishedIsAcyclic
      <3>2. CASE n \in S
        <4>1. Finished \subseteq Tasks
          BY <1>2 DEF Finished, PlanTypeOK
        <4>2. ASSUME NEW d \in DependsOn(n) \cap S
              PROVE  FALSE
          <5>1. d \in Tasks /\ n \in adjacency[d]
            BY <1>2, <1>3, <4>2 DEF DependsOn
          <5>2. d \in Finished \/ d = n
            BY <1>5
          <5> QED
            BY <1>2, <1>5, <1>6, <5>1, <5>2 DEF FinishedIsAcyclic
        <4> QED
          BY <3>2, <4>2
      <3> QED
        BY <3>1, <3>2
    <2> QED
      BY <1>1, <2>1, <2>2 DEF FinishedIsAcyclic, DependsOn
  <1> QED
    BY <1>1, <1>7, <1>8, <1>9, <1>10 DEF PlanInv, SearchInv

-----------------------------------------------------------------------------
(***************************************************************************)
(* The traversal.                                                          *)
(***************************************************************************)
LEMMA OwedOf ==
    ASSUME PlanInv, pc \in Searching, NEW t \in Tasks
    PROVE  /\ IsFiniteSet(Owed(t)) /\ inDegree[t] = Cardinality(Owed(t))
           /\ \A d, k : <<d, k>> \in Owed(t) <=>
                 d \in Tasks /\ k \in 1..deps[t][d] /\ (k = 1 => d \notin Ordered)
           /\ \A m \in Owed(t) : m = <<m[1], m[2]>>
           /\ inDegree[t] = 0 <=> Owed(t) = {}
           /\ inDegree[t] = 0 => DependsOn(t) \subseteq Ordered
  <1>1. PlanTypeOK /\ GraphIsBuilt /\ deps \in [Tasks -> [0..N -> Nat]]
    BY DEF PlanInv, PlanTypeOK
  <1>2. /\ IsFiniteSet(Mentions(t))
        /\ \A d, k : <<d, k>> \in Mentions(t) <=> d \in Tasks /\ k \in 1..deps[t][d]
        /\ \A m \in Mentions(t) : m = <<m[1], m[2]>>
    BY <1>1, MentionsOf
  <1>3. IsFiniteSet(Owed(t))
    BY <1>2, FS_Subset DEF Owed
  <1>4. inDegree[t] = Cardinality(Owed(t))
    BY <1>1 DEF GraphIsBuilt
  <1>5. \A m \in Owed(t) : m \in Mentions(t) /\ m = <<m[1], m[2]>>
    BY <1>2 DEF Owed
  <1>6. ASSUME NEW d, NEW k
        PROVE  <<d, k>> \in Owed(t) <=>
                  d \in Tasks /\ k \in 1..deps[t][d] /\ (k = 1 => d \notin Ordered)
    <2>1. <<d, k>>[1] = d /\ <<d, k>>[2] = k
      OBVIOUS
    <2> QED
      BY <1>2, <2>1 DEF Owed, Ordered
  <1>7. inDegree[t] = 0 <=> Owed(t) = {}
    BY <1>3, <1>4, FS_EmptySet
  <1>8. ASSUME Owed(t) = {}, NEW d \in DependsOn(t)
        PROVE  d \in Ordered
    <2>1. d \in Tasks /\ deps[t][d] > 0
      BY DEF DependsOn
    <2>2. deps[t][d] \in Nat
      BY <1>1, <2>1, PlanAssumption DEF Tasks
    <2>3. <<d, 1>> \notin Owed(t) /\ 1 \in 1..deps[t][d]
      BY <1>8, <2>1, <2>2
    <2> QED
      BY <1>6, <2>1, <2>3
  <1> QED
    BY <1>3, <1>4, <1>5, <1>6, <1>7, <1>8

LEMMA StartLevelsStep == PlanInv /\ StartLevels => PlanInv'
  <1> SUFFICES ASSUME PlanInv, StartLevels
               PROVE  PlanInv'
    OBVIOUS
  <1>1. /\ pc = "dfs" /\ stack = <<>> /\ visited = Tasks /\ pc' = "levels"
        /\ ready' = {t \in Tasks : inDegree[t] = 0}
        /\ UNCHANGED <<deps, malformed, adjacency, visited, stack, inDegree, nextReady,
                       group, ordered, groups>>
    BY DEF StartLevels, search
  <1>2. PlanTypeOK /\ nextReady = {} /\ group = <<>> /\ ordered = <<>> /\ groups = <<>>
    BY <1>1 DEF PlanInv, Untouched
  <1>3. PlanTypeOK' /\ Untouched' /\ CycleErrorIsRight'
    BY <1>1, <1>2 DEF PlanTypeOK, Untouched, CycleErrorIsRight, Searching
  <1>4. GraphIsBuilt' /\ SearchInv'
    BY <1>1, GraphIsKept, SearchIsKept DEF PlanInv, Searching
  <1>5. Ordered = {} /\ Range(group) = {} /\ Len(ordered) = 0 /\ Len(group) = 0 /\ Levels = 0
    BY <1>2, RangeOfEmpty DEF Ordered, Levels
  <1>6. Ordered' = {} /\ Range(group)' = {} /\ Len(ordered') = 0 /\ Len(group') = 0 /\ Levels' = 0
    BY <1>1, <1>2, <1>5 DEF Ordered, Levels
  <1>7. TraversalInv'
    BY <1>1, <1>2, <1>6 DEF TraversalInv
  <1>8. Above(1)' = {}
    BY DEF Above
  <1>9. \A t \in ready' : OnLevel(t, 1)'
    <2>1. ASSUME NEW t \in ready'
          PROVE  DependsOn(t) = {}
      BY <1>1, <1>5, OwedOf DEF Searching
    <2> QED
      BY <1>1, <1>8, <2>1 DEF OnLevel, DependsOn
  <1>10. FlattenSeq(groups)' = <<>>
    BY <1>1, <1>2 DEF FlattenSeq
  <1>11. /\ (Ordered = Above(Levels + 1) \cup Range(group))'
         /\ (FlattenSeq(groups) \in Seq(Tasks) /\ FlattenSeq(groups) \o group = ordered)'
    <2>1. Above(Levels + 1)' = {}
      BY <1>6 DEF Above
    <2>2. <<>> \in Seq(Tasks) /\ <<>> \o <<>> = <<>>
      OBVIOUS
    <2> QED
      BY <1>1, <1>2, <1>6, <1>10, <2>1, <2>2
  <1>12. /\ \A g \in 1..Levels' :
               Ascending(groups[g])' /\ \A t \in Range(groups[g])' : OnLevel(t, g)'
         /\ Ascending(group)' /\ \A s \in Range(group)', t \in ready' : s < t
         /\ \A t \in Range(group)' \cup ready' : OnLevel(t, Levels + 1)'
         /\ \A t \in nextReady' :
               DependsOn(t)' \subseteq Ordered' /\ DependsOn(t)' \cap Range(group)' # {}
    BY <1>1, <1>2, <1>6, <1>9 DEF Ascending
  <1>13. LevelsInv'
    BY <1>11, <1>12 DEF LevelsInv
  <1> QED
    BY <1>1, <1>3, <1>4, <1>7, <1>13 DEF PlanInv

\* A task that is put in the order is one its dependents wait for no longer.
LEMMA PopTaskOwes ==
    ASSUME PlanInv, PopTask, NEW n, n = Min(ready), NEW t \in Tasks
    PROVE  /\ n \in ready /\ n \in Tasks /\ \A s \in ready : n <= s
           /\ Ordered' = Ordered \cup {n}
           /\ inDegree'[t] = Cardinality(Owed(t)')
           /\ inDegree'[t] \in Int
           /\ inDegree'[t] = 0 <=> Owed(t)' = {}
           /\ inDegree'[t] = 0 <=> inDegree[t] = 0 \/ (t \in adjacency[n] /\ inDegree'[t] = 0)
           /\ t \in adjacency[n] => inDegree[t] # 0
           /\ inDegree'[t] = 0 => DependsOn(t) \subseteq Ordered \cup {n}
  <1>1. /\ pc = "levels" /\ ready # {} /\ ordered' = Append(ordered, n)
        /\ inDegree'[t] = IF t \in adjacency[n] THEN inDegree[t] - 1 ELSE inDegree[t]
        /\ UNCHANGED <<deps, adjacency>>
    BY DEF PopTask, search
  <1>2. PlanTypeOK /\ GraphIsBuilt /\ TraversalInv /\ pc \in Searching
    BY <1>1 DEF PlanInv, Searching
  <1>3. ready \in SUBSET Nat
    BY <1>2, TasksAreNumbers DEF PlanTypeOK
  <1>4. n \in ready /\ n \in Tasks /\ \A s \in ready : n <= s
    BY <1>1, <1>2, <1>3, MinIsLeast DEF PlanTypeOK
  <1>5. Ordered' = Ordered \cup {n}
    BY <1>1, <1>2, <1>4, RangeOfAppend DEF Ordered, PlanTypeOK
  <1>6. n \notin Ordered
    BY <1>2, <1>4 DEF TraversalInv
  <1>7. /\ IsFiniteSet(Owed(t)) /\ inDegree[t] = Cardinality(Owed(t))
        /\ \A d, k : <<d, k>> \in Owed(t) <=>
              d \in Tasks /\ k \in 1..deps[t][d] /\ (k = 1 => d \notin Ordered)
        /\ \A m \in Owed(t) : m = <<m[1], m[2]>>
        /\ inDegree[t] = 0 <=> Owed(t) = {}
    BY <1>2, OwedOf
  <1>8. Owed(t)' = Owed(t) \ {<<n, 1>>}
    <2>1. Owed(t)' = {m \in Mentions(t) : m[2] = 1 => m[1] \notin Ordered'}
      BY <1>1 DEF Owed, Mentions, Ordered
    <2>2. Owed(t) = {m \in Mentions(t) : m[2] = 1 => m[1] \notin Ordered}
      BY DEF Owed, Ordered
    <2>3. \A m \in Mentions(t) : m = <<m[1], m[2]>>
      BY <1>2, MentionsOf DEF PlanTypeOK
    <2>4. \A m \in Mentions(t) : m = <<n, 1>> <=> m[1] = n /\ m[2] = 1
      BY <2>3
    <2> QED
      BY <1>5, <2>1, <2>2, <2>4
  <1>9. t \in adjacency[n] <=> <<n, 1>> \in Owed(t)
    <2>1. t \in adjacency[n] <=> deps[t][n] > 0
      BY <1>2, <1>4 DEF GraphIsBuilt, DependsOn
    <2>2. deps[t][n] \in Nat
      BY <1>2, <1>4, PlanAssumption DEF PlanTypeOK, Tasks
    <2> QED
      BY <1>4, <1>6, <1>7, <2>1, <2>2
  <1>10. /\ IsFiniteSet(Owed(t) \ {<<n, 1>>})
         /\ Cardinality(Owed(t) \ {<<n, 1>>}) =
               IF <<n, 1>> \in Owed(t) THEN Cardinality(Owed(t)) - 1 ELSE Cardinality(Owed(t))
    BY <1>7, FS_RemoveElement
  <1>11. inDegree'[t] = Cardinality(Owed(t)') /\ inDegree[t] \in Nat
    BY <1>1, <1>7, <1>8, <1>9, <1>10, FS_CardinalityType
  <1>12. inDegree'[t] = 0 <=> Owed(t)' = {}
    BY <1>8, <1>10, <1>11, FS_EmptySet
  <1>13. t \in adjacency[n] => inDegree[t] # 0
    BY <1>7, <1>9
  <1>14. inDegree'[t] = 0 <=> inDegree[t] = 0 \/ (t \in adjacency[n] /\ inDegree'[t] = 0)
    BY <1>1, <1>13
  <1>15. ASSUME inDegree'[t] = 0, NEW d \in DependsOn(t)
         PROVE  d \in Ordered \cup {n}
    <2>1. d \in Tasks /\ deps[t][d] > 0
      BY DEF DependsOn
    <2>2. deps[t][d] \in Nat
      BY <1>2, <2>1, PlanAssumption DEF PlanTypeOK, Tasks
    <2>3. <<d, 1>> \notin Owed(t) \/ <<d, 1>> = <<n, 1>>
      BY <1>8, <1>12, <1>15
    <2> QED
      BY <1>7, <2>1, <2>2, <2>3
  <1>16. inDegree'[t] \in Int
    BY <1>1, <1>11
  <1> QED
    BY <1>4, <1>5, <1>11, <1>12, <1>13, <1>14, <1>15, <1>16

LEMMA PopTaskTraversal ==
    ASSUME PlanInv, PopTask
    PROVE  PlanTypeOK' /\ GraphIsBuilt' /\ TraversalInv'
  <1>1. /\ pc = "levels" /\ pc' = "levels" /\ ready # {}
        /\ ready' = ready \ {Min(ready)} /\ ordered' = Append(ordered, Min(ready))
        /\ group' = Append(group, Min(ready))
        /\ nextReady' = nextReady \cup {t \in adjacency[Min(ready)] : inDegree'[t] = 0}
        /\ inDegree' = [t \in Tasks |-> IF t \in adjacency[Min(ready)]
                                           THEN inDegree[t] - 1 ELSE inDegree[t]]
        /\ UNCHANGED <<deps, malformed, adjacency, visited, stack, groups>>
    BY DEF PopTask, search
  <1>2. PlanTypeOK /\ GraphIsBuilt /\ TraversalInv /\ pc \in Searching
    BY <1>1 DEF PlanInv, Searching
  <1> PICK n : n = Min(ready)
    OBVIOUS
  <1>3. n \in Tasks /\ n \in ready
    <2>1. ready \in SUBSET Nat
      BY <1>2, TasksAreNumbers DEF PlanTypeOK
    <2> QED
      BY <1>1, <1>2, <2>1, MinIsLeast DEF PlanTypeOK
  <1>4. Ordered' = Ordered \cup {n}
    BY <1>3, PopTaskOwes
  <1>5. adjacency[n] \subseteq Tasks
    BY <1>2, <1>3 DEF PlanTypeOK
  <1>6. PlanTypeOK'
    <2>1. \A t \in Tasks : inDegree'[t] \in Int
      BY PopTaskOwes
    <2>2. inDegree' \in [Tasks -> Int]
      BY <1>1, <2>1
    <2>3. ready' \in SUBSET Tasks /\ nextReady' \in SUBSET Tasks
      BY <1>1, <1>2, <1>5 DEF PlanTypeOK
    <2>4. ordered' \in Seq(Tasks) /\ group' \in Seq(Tasks)
      BY <1>1, <1>2, <1>3, RangeOfAppend DEF PlanTypeOK
    <2> QED
      BY <1>1, <1>2, <2>2, <2>3, <2>4 DEF PlanTypeOK
  <1>7. GraphIsBuilt'
    <2>1. \A t \in Tasks : inDegree'[t] = Cardinality(Owed(t)')
      BY PopTaskOwes
    <2>2. \A d, t \in Tasks : t \in adjacency'[d] <=> d \in DependsOn(t)'
      BY <1>1, <1>2 DEF GraphIsBuilt, DependsOn
    <2> QED
      BY <2>1, <2>2 DEF GraphIsBuilt
  <1>8. TraversalInv'
    <2>1. n \notin Ordered /\ n \notin nextReady
      BY <1>2, <1>3 DEF TraversalInv
    <2>2. ASSUME NEW i \in 1..Len(ordered'), NEW j \in 1..Len(ordered'), ordered'[i] = ordered'[j]
          PROVE  i = j
      <3>1. /\ Len(ordered') = Len(ordered) + 1 /\ Len(ordered) \in Nat
            /\ \A k \in 1..Len(ordered) : ordered'[k] = ordered[k] /\ ordered[k] \in Ordered
            /\ ordered'[Len(ordered) + 1] = n
        BY <1>1, <1>2, <1>3, RangeOfAppend, RangeOf DEF PlanTypeOK, Ordered
      <3>2. \A k \in 1..Len(ordered') : k \in 1..Len(ordered) \/ k = Len(ordered) + 1
        BY <3>1
      <3> QED
        BY <1>2, <2>1, <2>2, <3>1, <3>2 DEF TraversalInv
    <2> DEFINE new == {t \in adjacency[n] : inDegree'[t] = 0}
    <2>3. ASSUME NEW t \in new
          PROVE  t \in Tasks /\ inDegree[t] # 0
      BY <1>5, PopTaskOwes
    <2>4. inDegree[n] = 0 /\ n \notin new
      BY <1>2, <1>3, <2>3 DEF TraversalInv
    <2>5. ready' = ready \ {n} /\ nextReady' = nextReady \cup new
      BY <1>1
    <2>6. \A t \in new : t \notin ready /\ t \notin Ordered
      BY <1>2, <2>3 DEF TraversalInv
    <2>7. ready' \cap nextReady' = {} /\ ready' \cap Ordered' = {} /\ nextReady' \cap Ordered' = {}
      BY <1>2, <1>4, <2>1, <2>4, <2>5, <2>6 DEF TraversalInv
    <2>8. ASSUME NEW t \in Tasks
          PROVE  inDegree'[t] = 0 <=> t \in ready' \cup nextReady' \cup Ordered'
      <3>1. inDegree'[t] = 0 <=> inDegree[t] = 0 \/ t \in new
        BY PopTaskOwes
      <3>2. inDegree[t] = 0 <=> t \in ready \cup nextReady \cup Ordered
        BY <1>2 DEF TraversalInv
      <3>3. ready' \cup nextReady' \cup Ordered' = ready \cup nextReady \cup Ordered \cup new
        BY <1>3, <1>4, <2>5
      <3> QED
        BY <3>1, <3>2, <3>3
    <2> QED
      BY <2>2, <2>7, <2>8 DEF TraversalInv
  <1> QED
    BY <1>6, <1>7, <1>8

LEMMA PopTaskLevels ==
    ASSUME PlanInv, PopTask
    PROVE  LevelsInv'
  <1> PICK n : n = Min(ready)
    OBVIOUS
  <1>1. /\ pc = "levels" /\ ready # {}
        /\ ready' = ready \ {n} /\ ordered' = Append(ordered, n) /\ group' = Append(group, n)
        /\ nextReady' = nextReady \cup {t \in adjacency[n] : inDegree'[t] = 0}
        /\ UNCHANGED <<deps, adjacency, groups>>
    BY DEF PopTask, search
  <1>2. PlanTypeOK /\ GraphIsBuilt /\ LevelsInv /\ pc \in Searching
    BY <1>1 DEF PlanInv, Searching
  <1>3. n \in Tasks /\ n \in ready /\ \A s \in ready : n <= s
    <2>1. ready \in SUBSET Nat
      BY <1>2, TasksAreNumbers DEF PlanTypeOK
    <2> QED
      BY <1>1, <1>2, <2>1, MinIsLeast DEF PlanTypeOK
  <1>4. /\ Ordered' = Ordered \cup {n}
        /\ \A t \in Tasks : inDegree'[t] = 0 => DependsOn(t) \subseteq Ordered \cup {n}
    BY <1>3, PopTaskOwes
  <1>5. /\ Len(group') = Len(group) + 1 /\ Len(group) \in Nat
        /\ Range(group') = Range(group) \cup {n} /\ Range(group) \subseteq Tasks
        /\ \A k \in 1..Len(group) : group'[k] = group[k] /\ group[k] \in Range(group)
        /\ group'[Len(group) + 1] = n
    BY <1>1, <1>2, <1>3, RangeOfAppend, RangeOf DEF PlanTypeOK
  <1>6. \A s \in Range(group) : s < n
    BY <1>2, <1>3 DEF LevelsInv
  <1>7. \A g : Above(g)' = Above(g) /\ Levels' = Levels
    BY <1>1 DEF Above, Levels
  <1>8. ASSUME NEW t, NEW g
        PROVE  OnLevel(t, g)' <=> OnLevel(t, g)
    BY <1>1 DEF OnLevel, Above, DependsOn
  <1>9. (Ordered = Above(Levels + 1) \cup Range(group))'
    <2>1. Above(Levels + 1)' = Above(Levels + 1)
      BY <1>1 DEF Above, Levels
    <2> QED
      BY <1>2, <1>4, <1>5, <2>1 DEF LevelsInv
  <1>10. FlattenSeq(groups') \in Seq(Tasks) /\ FlattenSeq(groups') \o group' = ordered'
    <2> PICK f : f = FlattenSeq(groups)
      OBVIOUS
    <2>1. f \in Seq(Tasks) /\ f \o group = ordered /\ FlattenSeq(groups') = f
      BY <1>1, <1>2 DEF LevelsInv
    <2>2. f \o Append(group, n) = Append(f \o group, n)
      <3>1. group \in Seq(Tasks)
        BY <1>2 DEF PlanTypeOK
      <3>2. <<n>> \in Seq(Tasks) /\ f \o group \in Seq(Tasks)
        <4>1. f \o group \in Seq(Tasks)
          BY <2>1, <3>1, ConcatProperties
        <4>2. <<n>> \in Seq(Tasks)
          BY <1>3
        <4> QED
          BY <4>1, <4>2
      <3>3. Append(group, n) = group \o <<n>> /\ Append(f \o group, n) = (f \o group) \o <<n>>
        BY <1>3, <3>1, <3>2, AppendIsConcat
      <3>4. (f \o group) \o <<n>> = f \o (group \o <<n>>)
        <4>1. f \in Seq(Tasks) /\ group \in Seq(Tasks) /\ <<n>> \in Seq(Tasks)
          BY <2>1, <3>1, <3>2
        <4> QED
          BY <4>1, ConcatAssociative
      <3> QED
        BY <3>3, <3>4
    <2> QED
      BY <1>1, <2>1, <2>2
  <1>11. ASSUME NEW g \in 1..Levels'
         PROVE  Ascending(groups[g])' /\ \A t \in Range(groups[g])' : OnLevel(t, g)'
    <2>1. g \in 1..Levels /\ groups' = groups
      BY <1>1, <1>7
    <2> QED
      BY <1>2, <1>8, <2>1 DEF LevelsInv, Ascending
  <1>12. Ascending(group')
    <2>1. \A k \in 1..Len(group') : k \in 1..Len(group) \/ k = Len(group) + 1
      BY <1>5
    <2>2. Ascending(group)
      BY <1>2 DEF LevelsInv
    <2> SUFFICES ASSUME NEW i \in 1..Len(group'), NEW j \in 1..Len(group'), i < j
                 PROVE  group'[i] < group'[j]
      BY DEF Ascending
    <2>3. i \in 1..Len(group)
      BY <1>5
    <2>4. CASE j \in 1..Len(group)
      BY <1>5, <2>2, <2>3, <2>4 DEF Ascending
    <2>5. CASE j = Len(group) + 1
      BY <1>5, <1>6, <2>3, <2>5
    <2> QED
      BY <2>1, <2>4, <2>5
  <1>13. \A s \in Range(group'), t \in ready' : s < t
    <2>1. \A t \in ready' : t \in ready /\ n < t
      BY <1>1, <1>2, <1>3, TasksAreNumbers DEF PlanTypeOK
    <2> QED
      BY <1>2, <1>5, <2>1 DEF LevelsInv
  <1>14. ASSUME NEW t \in Range(group') \cup ready'
         PROVE  OnLevel(t, Levels + 1)'
    <2>1. t \in Range(group) \cup ready
      BY <1>1, <1>3, <1>5
    <2>2. OnLevel(t, Levels + 1)
      BY <1>2, <2>1 DEF LevelsInv
    <2> QED
      BY <1>1, <2>2 DEF OnLevel, Above, DependsOn, Levels
  <1>15. ASSUME NEW t \in nextReady'
         PROVE  DependsOn(t)' \subseteq Ordered' /\ DependsOn(t)' \cap Range(group)' # {}
    <2>1. DependsOn(t)' = DependsOn(t)
      BY <1>1 DEF DependsOn
    <2>2. CASE t \in nextReady
      BY <1>2, <1>4, <1>5, <2>1, <2>2 DEF LevelsInv
    <2>3. CASE t \in adjacency[n] /\ inDegree'[t] = 0
      <3>1. t \in Tasks
        BY <1>2, <1>3, <2>3 DEF PlanTypeOK
      <3>2. n \in DependsOn(t)
        BY <1>2, <1>3, <2>3, <3>1 DEF GraphIsBuilt
      <3> QED
        BY <1>4, <1>5, <2>1, <2>3, <3>1, <3>2
    <2> QED
      BY <1>1, <2>2, <2>3
  <1> QED
    BY <1>9, <1>10, <1>11, <1>12, <1>13, <1>14, <1>15 DEF LevelsInv

LEMMA PopTaskStep == PlanInv /\ PopTask => PlanInv'
  <1> SUFFICES ASSUME PlanInv, PopTask
               PROVE  PlanInv'
    OBVIOUS
  <1>1. pc = "levels" /\ pc' = "levels" /\ UNCHANGED <<deps, adjacency, visited, stack>>
    BY DEF PopTask, search
  <1>2. Untouched' /\ CycleErrorIsRight'
    BY <1>1 DEF Untouched, CycleErrorIsRight
  <1>3. SearchInv'
    BY <1>1, SearchIsKept DEF PlanInv, SearchInv
  <1> QED
    BY <1>1, <1>2, <1>3, PopTaskTraversal, PopTaskLevels DEF PlanInv

LEMMA EndLevelLevels ==
    ASSUME PlanInv, EndLevel
    PROVE  groups' \in Seq(Seq(Tasks)) /\ LevelsInv'
  <1>1. /\ pc = "levels" /\ ready = {} /\ groups' = Append(groups, group)
        /\ ready' = nextReady /\ group' = <<>> /\ nextReady' = {}
        /\ UNCHANGED <<deps, adjacency, ordered>>
    BY DEF EndLevel, search
  <1>2. PlanTypeOK /\ LevelsInv /\ group \in Seq(Tasks) /\ groups \in Seq(Seq(Tasks))
    BY <1>1 DEF PlanInv, PlanTypeOK
  <1>3. /\ groups' \in Seq(Seq(Tasks)) /\ Levels' = Levels + 1 /\ Levels \in Nat
        /\ \A h \in 1..Levels : groups'[h] = groups[h]
        /\ groups'[Levels + 1] = group
    BY <1>1, <1>2, RangeOfAppend DEF Levels
  <1>4. Range(group') = {} /\ Len(group') = 0
    BY <1>1, RangeOfEmpty
  <1>5. ASSUME NEW g \in 1..(Levels + 1)
        PROVE  Above(g)' = Above(g)
    <2>1. \A h \in 1..(g - 1) : groups'[h] = groups[h]
      BY <1>3
    <2>2. {Range(groups'[h]) : h \in 1..(g - 1)} = {Range(groups[h]) : h \in 1..(g - 1)}
      BY <2>1
    <2> QED
      BY <2>2 DEF Above
  <1>6. Above(Levels + 1)' = Ordered
    <2>1. Above(Levels + 1)' = UNION {Range(groups'[h]) : h \in 1..(Levels + 1)}
      BY <1>3 DEF Above
    <2> PICK n \in Nat : n = Levels
      BY <1>3
    <2>2. \A x : x \in Above(n + 1) <=> \E h \in 1..n : x \in Range(groups[h])
      BY DEF Above
    <2>3. \A x : x \in Above(Levels + 1)' <=> \E h \in 1..(n + 1) : x \in Range(groups'[h])
      BY <2>1
    <2>4. /\ \A h \in 1..n : h \in 1..(n + 1) /\ groups'[h] = groups[h]
          /\ \A h \in 1..(n + 1) : h \in 1..n \/ h = n + 1
          /\ groups'[n + 1] = group /\ n + 1 \in 1..(n + 1)
      BY <1>3
    <2>5. \A x : x \in Above(Levels + 1)' <=> x \in Above(n + 1) \/ x \in Range(group)
      BY <2>2, <2>3, <2>4, Zenon
    <2>6. Ordered = Above(n + 1) \cup Range(group)
      BY <1>2 DEF LevelsInv
    <2> QED
      BY <2>5, <2>6
  <1>7. Ordered' = Ordered /\ \A t : DependsOn(t)' = DependsOn(t)
    BY <1>1 DEF Ordered, DependsOn
  <1>8. (Ordered = Above(Levels + 1) \cup Range(group))'
    BY <1>4, <1>6, <1>7
  <1>9. FlattenSeq(groups') \in Seq(Tasks) /\ FlattenSeq(groups') \o group' = ordered'
    <2>1. FlattenSeq(groups') = FlattenSeq(groups) \o group
      BY <1>1, <1>2, FlattenOfAppend
    <2>2. FlattenSeq(groups') = ordered
      BY <1>2, <2>1 DEF LevelsInv
    <2> QED
      BY <1>1, <1>2, <2>2 DEF PlanTypeOK
  <1>10. ASSUME NEW g \in 1..(Levels + 1), NEW t, OnLevel(t, g)
         PROVE  OnLevel(t, g)'
    <2>1. g > 1 => g - 1 \in 1..Levels
      BY <1>3
    <2>2. g > 1 => groups'[g - 1] = groups[g - 1]
      BY <1>3, <2>1
    <2> QED
      BY <1>5, <1>7, <1>10, <2>2 DEF OnLevel
  <1>11. ASSUME NEW g \in 1..Levels'
         PROVE  Ascending(groups'[g]) /\ \A t \in Range(groups'[g]) : OnLevel(t, g)'
    <2>1. g \in 1..(Levels + 1) /\ (g \in 1..Levels \/ g = Levels + 1)
      BY <1>3
    <2>2. CASE g \in 1..Levels
      BY <1>2, <1>3, <1>10, <2>1, <2>2 DEF LevelsInv
    <2>3. CASE g = Levels + 1
      <3>1. \A t \in Range(group) : OnLevel(t, g)
        BY <1>2, <2>3 DEF LevelsInv
      <3>2. Ascending(group)
        BY <1>2 DEF LevelsInv
      <3>3. groups'[g] = group
        BY <1>3, <2>3
      <3> QED
        BY <1>10, <2>1, <3>1, <3>2, <3>3
    <2> QED
      BY <2>1, <2>2, <2>3
  <1>12. Ascending(group')
    BY <1>4 DEF Ascending
  <1>13. ASSUME NEW t \in Range(group') \cup ready'
         PROVE  OnLevel(t, Levels + 1)'
    <2>1. t \in nextReady
      BY <1>1, <1>4
    <2>2. DependsOn(t) \subseteq Ordered /\ DependsOn(t) \cap Range(group) # {}
      BY <1>2, <2>1 DEF LevelsInv
    <2>3. Levels' + 1 - 1 = Levels + 1
      BY <1>3
    <2>4. groups'[Levels' + 1 - 1] = group
      BY <1>3, <2>3
    <2>5. DependsOn(t)' = DependsOn(t)
      BY <1>1 DEF DependsOn
    <2>6. (DependsOn(t) \subseteq Above(Levels + 1))'
      BY <1>6, <2>2, <2>5
    <2>7. (DependsOn(t) \cap Range(groups[Levels + 1 - 1]) # {})'
      BY <2>2, <2>4, <2>5
    <2> QED
      BY <2>6, <2>7 DEF OnLevel, Above, DependsOn, Levels
  <1> QED
    BY <1>1, <1>3, <1>4, <1>8, <1>9, <1>11, <1>12, <1>13 DEF LevelsInv

LEMMA EndLevelStep == PlanInv /\ EndLevel => PlanInv'
  <1> SUFFICES ASSUME PlanInv, EndLevel
               PROVE  PlanInv'
    OBVIOUS
  <1>1. /\ pc = "levels" /\ pc' = "levels" /\ ready = {} /\ ready' = nextReady
        /\ group' = <<>> /\ nextReady' = {}
        /\ UNCHANGED <<deps, adjacency, visited, stack, inDegree, ordered>>
    BY DEF EndLevel, search
  <1>2. PlanTypeOK /\ TraversalInv
    BY <1>1 DEF PlanInv
  <1>3. PlanTypeOK'
    BY <1>1, <1>2, EndLevelLevels DEF PlanTypeOK
  <1>4. Untouched' /\ CycleErrorIsRight'
    BY <1>1 DEF Untouched, CycleErrorIsRight
  <1>5. GraphIsBuilt' /\ SearchInv'
    BY <1>1, GraphIsKept, SearchIsKept DEF PlanInv, SearchInv, Searching
  <1>6. TraversalInv'
    BY <1>1, <1>2 DEF TraversalInv, Ordered
  <1> QED
    BY <1>1, <1>3, <1>4, <1>5, <1>6, EndLevelLevels DEF PlanInv

\* The traversal stops short of a task only if each one left waits for another one left,
\* or for a mention that is never crossed out.
LEMMA FinishStep == PlanInv /\ Finish => PlanInv'
  <1> SUFFICES ASSUME PlanInv, Finish
               PROVE  PlanInv'
    OBVIOUS
  <1>1. /\ pc = "levels" /\ ready = {} /\ group = <<>>
        /\ pc' = IF Len(ordered) = N THEN "planned" ELSE "cycle_error"
        /\ UNCHANGED <<deps, malformed, adjacency, visited, stack, inDegree, ready, nextReady,
                       group, ordered, groups>>
    BY DEF Finish, search
  <1>2. PlanTypeOK /\ TraversalInv /\ LevelsInv /\ pc \in Searching
    BY <1>1 DEF PlanInv, Searching
  <1>3. nextReady = {}
    BY <1>1, <1>2, RangeOfEmpty DEF LevelsInv
  <1>4. /\ Ordered = {ordered[i] : i \in 1..Len(ordered)} /\ Ordered \subseteq Tasks
        /\ ordered \in [1..Len(ordered) -> Ordered] /\ Len(ordered) \in Nat
    BY <1>2, RangeOf DEF PlanTypeOK, Ordered
  <1>5. /\ IsFiniteSet(Ordered) /\ Cardinality(Ordered) = Len(ordered)
    <2>1. ordered \in Surjection(1..Len(ordered), Ordered)
      BY <1>4 DEF Surjection
    <2>2. ordered \in Injection(1..Len(ordered), Ordered)
      BY <1>2, <1>4 DEF Injection, IsInjective, TraversalInv
    <2>3. 1 \in Int /\ Len(ordered) \in Int
      BY <1>4
    <2>4. IsFiniteSet(1..Len(ordered)) /\ Cardinality(1..Len(ordered)) = Len(ordered)
      <3>1. /\ IsFiniteSet(1..Len(ordered))
            /\ Cardinality(1..Len(ordered)) =
                  IF 1 > Len(ordered) THEN 0 ELSE Len(ordered) - 1 + 1
        BY <2>3, FS_Interval
      <3>2. PICK n \in Nat : n = Len(ordered)
        BY <1>4
      <3> QED
        BY <3>1, <3>2
    <2> QED
      BY <2>1, <2>2, <2>4, FS_Surjection
  <1>6. Len(ordered) = N <=> Ordered = Tasks
    <2>1. Ordered \in SUBSET Tasks
      BY <1>4
    <2> QED
      BY <1>5, <2>1, TasksAreNumbers, FS_Subset
  <1>7. CycleErrorIsRight'
    <2>1. CASE Len(ordered) = N
      BY <1>1, <2>1 DEF CycleErrorIsRight
    <2>2. CASE Len(ordered) # N
      <3> DEFINE S == Tasks \ Ordered
      <3>1. S \in SUBSET Tasks /\ S # {}
        BY <1>4, <1>6, <2>2
      <3>2. ASSUME ~RepeatsADependency, NEW t \in S
            PROVE  DependsOn(t) \cap S # {}
        <4>1. inDegree[t] # 0
          BY <1>1, <1>2, <1>3 DEF TraversalInv
        <4>2. PICK m \in Owed(t) : m = <<m[1], m[2]>>
          BY <1>2, <4>1, OwedOf
        <4> PICK d, k : d = m[1] /\ k = m[2]
          OBVIOUS
        <4>3. <<d, k>> \in Owed(t)
          BY <4>2
        <4>4. d \in Tasks /\ k \in 1..deps[t][d] /\ (k = 1 => d \notin Ordered)
          BY <1>2, <4>3, OwedOf
        <4>5. deps[t][d] \in Nat
          BY <1>2, <4>4, PlanAssumption DEF PlanTypeOK, Tasks
        <4>6. ~(deps[t][d] > 1)
          BY <3>2, <4>4 DEF RepeatsADependency
        <4>7. d \in DependsOn(t) /\ d \in S
          BY <4>4, <4>5, <4>6 DEF DependsOn
        <4> QED
          BY <4>7
      <3>3. Cyclic \/ RepeatsADependency
        BY <3>1, <3>2 DEF Cyclic
      <3> QED
        BY <1>1, <3>3 DEF CycleErrorIsRight, Cyclic, RepeatsADependency, DependsOn
    <2> QED
      BY <2>1, <2>2
  <1>8. pc' \in {"planned", "cycle_error"} /\ (pc' = "planned" => Len(ordered) = N)
    BY <1>1
  <1>9. PlanTypeOK' /\ Untouched'
    BY <1>1, <1>2, <1>8 DEF PlanTypeOK, Untouched, Searching
  <1>10. GraphIsBuilt' /\ SearchInv'
    BY <1>1, <1>2, GraphIsKept, SearchIsKept DEF PlanInv, SearchInv
  <1>11. TraversalInv'
    BY <1>1, <1>2 DEF TraversalInv, Ordered
  <1>12. LevelsInv'
    BY <1>1, <1>2 DEF LevelsInv, Ordered, Above, OnLevel, Levels, Ascending, DependsOn
  <1>13. pc' = "planned" => ready' = {} /\ group' = <<>> /\ Ordered' = Tasks /\ Len(ordered') = N
    BY <1>1, <1>6, <1>8 DEF Ordered
  <1> QED
    BY <1>7, <1>9, <1>10, <1>11, <1>12, <1>13 DEF PlanInv

LEMMA StutterStep == PlanInv /\ UNCHANGED vars => PlanInv'
  <1> SUFFICES ASSUME PlanInv, UNCHANGED vars
               PROVE  PlanInv'
    OBVIOUS
  <1>1. UNCHANGED <<deps, malformed, pc, adjacency, inDegree, visited, stack, ready,
                    nextReady, group, ordered, groups>>
    BY DEF vars
  <1>2. PlanTypeOK' /\ Untouched' /\ GraphIsBuilt'
    BY <1>1 DEF PlanInv, PlanTypeOK, Untouched, GraphIsBuilt, Owed, Mentions, DependsOn
  <1>3. SearchInv'
    BY <1>1, SearchIsKept DEF PlanInv, SearchInv
  <1>4. CycleErrorIsRight'
    BY <1>1 DEF PlanInv, CycleErrorIsRight, Cyclic, RepeatsADependency, DependsOn
  <1>5. TraversalInv => TraversalInv'
    BY <1>1 DEF TraversalInv, Ordered
  <1>6. LevelsInv => LevelsInv'
    BY <1>1 DEF LevelsInv, Ordered, Above, OnLevel, Levels, Ascending, DependsOn
  <1>7. Ordered' = Ordered
    BY <1>1 DEF Ordered
  <1> QED
    BY <1>1, <1>2, <1>3, <1>4, <1>5, <1>6, <1>7 DEF PlanInv

-----------------------------------------------------------------------------
\* The state of build_execution_plan has the types the code gives it, and the search and
\* the traversal are related to the graph as described above.
THEOREM PlanInvHolds == Spec => []PlanInv
  <1>1. PlanInv /\ [Next]_vars => PlanInv'
    <2> SUFFICES ASSUME PlanInv, [Next]_vars
                 PROVE  PlanInv'
      OBVIOUS
    <2>1. CASE Validate
      BY <2>1, ValidateStep
    <2>2. CASE Build
      BY <2>2, BuildStep
    <2>3. CASE DfsRoot
      BY <2>3, DfsRootStep
    <2>4. CASE DfsCall
      BY <2>4, DfsCallStep
    <2>5. CASE DfsBackEdge
      BY <2>5, DfsBackEdgeStep
    <2>6. CASE DfsReturn
      BY <2>6, DfsReturnStep
    <2>7. CASE StartLevels
      BY <2>7, StartLevelsStep
    <2>8. CASE PopTask
      BY <2>8, PopTaskStep
    <2>9. CASE EndLevel
      BY <2>9, EndLevelStep
    <2>10. CASE Finish
      BY <2>10, FinishStep
    <2>11. CASE UNCHANGED vars
      BY <2>11, StutterStep
    <2> QED
      BY <2>1, <2>2, <2>3, <2>4, <2>5, <2>6, <2>7, <2>8, <2>9, <2>10, <2>11
      DEF Next, Step, Done
  <1> QED
    BY <1>1, InitInv, PTL DEF Spec

\* The depth-first search of has_cycle finds every cycle: an input that reaches
\* traverse_levels has none, whatever the number and the order of the tasks.
THEOREM SearchFindsCyclesHolds == Spec => []SearchFindsCycles
  <1>1. PlanInv => SearchFindsCycles
    <2> SUFFICES ASSUME PlanInv, pc \in {"levels", "planned"}
                 PROVE  ~Cyclic
      BY DEF SearchFindsCycles
    <2>1. FinishedIsAcyclic /\ stack = <<>> /\ visited = Tasks
      BY DEF PlanInv, SearchInv
    <2>2. Finished = Tasks
      BY <2>1, RangeOfEmpty DEF Finished
    <2> QED
      BY <2>1, <2>2 DEF Cyclic, FinishedIsAcyclic
  <1> QED
    BY <1>1, PlanInvHolds, PTL

\* A PlanningCycleError is raised only for a circle of tasks or a repeated dependency.
THEOREM CycleErrorIsRightHolds == Spec => []CycleErrorIsRight
  <1>1. PlanInv => CycleErrorIsRight
    BY DEF PlanInv
  <1> QED
    BY <1>1, PlanInvHolds, PTL

\* The plan that is returned holds every task once, behind all it depends on, and its
\* groups are the levels of the graph: what Runner.run takes for granted.
THEOREM PlanIsLevelledHolds == Spec => []PlanIsLevelled
  <1>1. PlanInv => PlanIsLevelled
    <2> SUFFICES ASSUME PlanInv, pc = "planned"
                 PROVE  PlanIsLevelled
      BY DEF PlanIsLevelled
    <2>1. /\ PlanTypeOK /\ LevelsInv /\ group = <<>> /\ Ordered = Tasks /\ Len(ordered) = N
      BY DEF PlanInv
    <2>2. FlattenSeq(groups) = ordered
      BY <2>1, ConcatEmptySeq DEF LevelsInv
    <2>3. ASSUME NEW g \in 1..Len(groups)
          PROVE  Ascending(groups[g]) /\ \A t \in Range(groups[g]) : OnLevel(t, g)
      BY <2>1 DEF LevelsInv, Levels
    <2>4. ASSUME NEW g \in 1..Len(groups), NEW i \in 1..Len(groups[g])
          PROVE  OnLevel(groups[g][i], g)
      <3>1. groups[g] \in Seq(Tasks)
        BY <2>1 DEF PlanTypeOK
      <3>2. groups[g][i] \in Range(groups[g])
        BY <3>1, RangeOf
      <3> QED
        BY <2>3, <3>2
    <2> QED
      BY <2>1, <2>2, <2>3, <2>4 DEF PlanIsLevelled, Ascending, OnLevel, Above, Ordered
  <1> QED
    BY <1>1, PlanInvHolds, PTL
=============================================================================
