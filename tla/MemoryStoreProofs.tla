------------------------- MODULE MemoryStoreProofs -------------------------
(***************************************************************************)
(* What a directory with one MemoryStore promises, proved for any number   *)
(* of callers, records and crashes.  OneStore is the hypothesis of every   *)
(* theorem: two instances over one directory lose records.                 *)
(*                                                                         *)
(* The inductive invariant has three layers.  The lock and the order of    *)
(* construction leave at most one writer inside _atomic_write; so what a   *)
(* writer read, wrote and is about to rename is still what it was; so the  *)
(* stream only ever changes by one record, appended by the lock's holder.  *)
(***************************************************************************)
EXTENDS MemoryStore, FiniteSetTheorems, TLAPS

OneStore == \A s, t \in Stores : s = t

Writing == {"open", "write", "rename"}
Holding == Writing \cup {"release"}
Waiting == Writing \cup {"save"}

\* The first construction is over before any caller begins.
Construction ==
    /\ \A c \in Callers : pc[c] # "new"
    /\ \A s \in Stores :
        /\ pc[s] \notin {"save", "release"}
        /\ pc[s] # "idle" => lock[s] = NoOne /\ \A c \in Callers : pc[c] = "idle"
        /\ pc[s] = "idle" => name["json"] # Missing
        /\ pc[s] \in Writing => name["json"] = Missing /\ payload[s] = <<>>

Locking == \A c \in Callers : pc[c] \in Holding <=> lock[StoreOf[c]] = c

\* The temporary file between its opening and its renaming.
Descriptors ==
    \A w \in Writers :
        /\ pc[w] # "write" => fd[w] = Missing
        /\ pc[w] = "write" =>
              fd[w] = name["tmp"] /\ name["tmp"] # Missing /\ content[fd[w]] = Empty
        /\ pc[w] = "rename" =>
              name["tmp"] # Missing /\ content[name["tmp"]] = Json(payload[w])

TwoFiles == name["tmp"] # Missing => name["tmp"] # name["json"]

\* What the holder of the lock is about to make of the stream.
Payloads ==
    \A c \in Callers :
        /\ pc[c] \in Writing => payload[c] = Append(Stream.log, rec[c])
        /\ pc[c] = "release" => rec[c] \in Range(Stream.log)

\* Records are told apart by caller and number; a record under way is newer
\* than those its caller has in the stream.
Keys ==
    /\ \A i \in 1..Len(Stream.log) :
          /\ Stream.log[i].n <= logged[Stream.log[i].by]
          /\ \A j \in 1..(i - 1) :
                Stream.log[j].by = Stream.log[i].by => Stream.log[j].n # Stream.log[i].n
    /\ \A c \in Callers :
          /\ pc[c] # "idle" => rec[c] \in Records /\ rec[c].by = c /\ rec[c].n = logged[c]
          /\ pc[c] \in Waiting =>
                \A i \in 1..Len(Stream.log) :
                    Stream.log[i].by = c => Stream.log[i].n < rec[c].n

PendingIds ==
    \A c \in Callers : pc[c] \in Waiting =>
        /\ rec[c].id <= Len(Stream.log) + 1
        /\ \A i \in 1..Len(Stream.log) :
              Stream.log[i].by = c => Stream.log[i].id < rec[c].id

StoreInv ==
    /\ TypeOK
    /\ Construction
    /\ Locking
    /\ Descriptors
    /\ TwoFiles
    /\ AlwaysReadable
    /\ Payloads
    /\ NoLostRecord
    /\ Keys
    /\ IdsTrackPositions
    /\ PendingIds

-----------------------------------------------------------------------------
(***************************************************************************)
(* Consequences of the invariant in a state.                               *)
(***************************************************************************)

\* A writer is a caller or a store, never both.
LEMMA WriterKinds ==
    /\ Callers \subseteq Writers /\ Stores \subseteq Writers
    /\ \A c \in Callers : c \notin Stores /\ StoreOf[c] \in Stores /\ c # NoOne
    /\ NoOne \notin Stores
  BY StoreAssumption DEF Writers

\* There are at least two files, and Missing is none of them.
LEMMA FilesFacts ==
    /\ Files \subseteq Int /\ Missing \notin Files /\ Missing \in Int
    /\ 1 \in Files /\ 2 \in Files
  <1>1. Cardinality(Writers) \in Nat
    BY StoreAssumption, FS_Union, FS_CardinalityType DEF Writers
  <1> QED
    BY <1>1 DEF Files, Missing

\* What is known of a record's fields.
LEMMA RecordFields ==
    /\ NoRecord \notin Records
    /\ \A r \in Records : r.by \in Callers /\ r.n \in 1..MaxLogs /\ r.n \in Nat /\ r.id \in Nat
    /\ \A c \in Callers, n \in 1..MaxLogs, i \in 1..(Cardinality(Callers) * MaxLogs) :
          [by |-> c, n |-> n, id |-> i] \in Records
  <1>1. Cardinality(Callers) \in Nat /\ MaxLogs \in Nat
    BY StoreAssumption, FS_CardinalityType
  <1>2. Cardinality(Callers) * MaxLogs \in Nat
    BY <1>1
  <1> QED
    BY <1>1, <1>2, StoreAssumption DEF Records, NoRecord

\* With one store, at most one writer is inside an append or a construction.
LEMMA OneWriter ==
    ASSUME OneStore, Construction, Locking,
           NEW v \in Writers, NEW w \in Writers,
           pc[v] \in Holding, pc[w] \in Holding
    PROVE  v = w
  <1>1. CASE v \in Callers /\ w \in Callers
    BY <1>1, WriterKinds DEF OneStore, Locking
  <1>2. CASE v \in Stores /\ w \in Stores
    BY <1>2 DEF OneStore
  <1>3. CASE \E c \in Callers, s \in Stores : {v, w} = {c, s}
    BY <1>3 DEF Construction, Holding, Writing
  <1> QED
    BY <1>1, <1>2, <1>3 DEF Writers

\* A caller inside a call goes through a store that has been constructed.
LEMMA BusyCallerHasAStore ==
    ASSUME Construction, NEW c \in Callers, pc[c] # "idle"
    PROVE  /\ name["json"] # Missing
           /\ \A s \in Stores : pc[s] = "idle"
           /\ Stream = content[name["json"]]
  <1>1. \A s \in Stores : pc[s] = "idle"
    BY DEF Construction
  <1>2. name["json"] # Missing
    BY <1>1, WriterKinds DEF Construction
  <1> QED
    BY <1>1, <1>2 DEF Stream

\* The stream is a list of records in every state.
LEMMA StreamType ==
    ASSUME TypeOK, AlwaysReadable
    PROVE  /\ Stream.log \in Seq(Records)
           /\ Stream = Json(Stream.log)
           /\ Len(Stream.log) \in Nat
           /\ \A i \in 1..Len(Stream.log) : Stream.log[i] \in Records
  <1>1. CASE name["json"] = Missing
    BY <1>1 DEF Stream, Json
  <1>2. CASE name["json"] # Missing
    <2>1. content[name["json"]] \in [kind : {"empty", "torn", "json"}, log : Seq(Records)]
      BY <1>2 DEF TypeOK
    <2>2. Stream = content[name["json"]] /\ Stream.kind = "json"
      BY <1>2 DEF Stream, AlwaysReadable
    <2> QED
      BY <2>1, <2>2 DEF Json
  <1> QED
    BY <1>1, <1>2

\* The file OpenTmp creates is new: no name and no descriptor stands for it.
LEMMA FreeFileIsFree ==
    ASSUME OneStore, TypeOK, Construction, Locking, Descriptors,
           NEW w \in Writers, pc[w] = "open", name["tmp"] = Missing
    PROVE  FreeFile \in Files /\ FreeFile # name["json"] /\ FreeFile # Missing
  <1>1. \A v \in Writers : fd[v] = Missing
    BY OneWriter DEF Descriptors, Holding, Writing
  <1>2. Range(name) \cup Range(fd) \subseteq {Missing, name["json"]}
    BY <1>1 DEF TypeOK, Range
  <1>3. \E f \in Files : f \notin Range(name) \cup Range(fd)
    <2>1. 1 # Missing /\ 2 # Missing
      BY DEF Missing
    <2> QED
      BY <1>2, <2>1, FilesFacts
  <1>4. FreeFile \in Files /\ FreeFile \notin Range(name) \cup Range(fd)
    BY <1>3 DEF FreeFile
  <1>5. name["json"] \in Range(name)
    BY DEF TypeOK, Range
  <1> QED
    BY <1>4, <1>5, FilesFacts

-----------------------------------------------------------------------------
(***************************************************************************)
(* The steps, and what they do to the stream.                              *)
(***************************************************************************)

\* Next by the action that takes the step.
LEMMA StepCases ==
    ASSUME Next
    PROVE  \/ \E c \in Callers : NextId(c) \/ BeginAppend(c) \/ Return(c)
           \/ \E s \in Stores : Construct(s)
           \/ \E w \in Writers : \/ OpenTmp(w) \/ WriteTmp(w) \/ WriteFails(w)
                                 \/ RenameFails(w) \/ Rename(w)
           \/ Crash
           \/ UNCHANGED vars
  BY WriterKinds DEF Next, CallerStep, StoreStep, Write, Quiet

\* A writer's own file is not the one readers see.
LEMMA OwnFileIsTmp ==
    ASSUME Descriptors, TwoFiles, NEW w \in Writers, fd[w] # Missing
    PROVE  fd[w] = name["tmp"] /\ fd[w] # name["json"] /\ pc[w] = "write"
  BY DEF Descriptors, TwoFiles

\* Opening leaves the JSON file alone.
LEMMA OpenKeepsStream ==
    ASSUME OneStore, StoreInv, NEW w \in Writers, OpenTmp(w)
    PROVE  Stream' = Stream /\ name'["json"] = name["json"]
  <1> DEFINE f == IF name["tmp"] = Missing THEN FreeFile ELSE name["tmp"]
  <1>1. f \in Files /\ f # name["json"]
    BY FreeFileIsFree DEF StoreInv, OpenTmp, TwoFiles, TypeOK
  <1>2. /\ name' = [name EXCEPT !["tmp"] = f]
        /\ content' = [content EXCEPT ![f] = Empty]
    BY DEF OpenTmp
  <1>3. name'["json"] = name["json"]
    BY <1>2 DEF StoreInv, TypeOK
  <1>4. name["json"] # Missing => content'[name["json"]] = content[name["json"]]
    BY <1>1, <1>2 DEF StoreInv, TypeOK
  <1> QED
    BY <1>3, <1>4 DEF Stream

\* So do writing, failing and dying.
LEMMA WriteKeepsStream ==
    ASSUME StoreInv,
           \/ \E w \in Writers : WriteTmp(w) \/ WriteFails(w)
           \/ Crash
    PROVE  Stream' = Stream
  <1>1. name' = name
    BY DEF WriteTmp, WriteFails, Crash
  <1>2. ASSUME name["json"] # Missing
        PROVE  content'[name["json"]] = content[name["json"]]
    <2>1. name["json"] \in Files
      BY <1>2 DEF StoreInv, TypeOK
    <2>2. ASSUME NEW w \in Writers, WriteTmp(w) \/ WriteFails(w)
          PROVE  content'[name["json"]] = content[name["json"]]
      <3>1. fd[w] # name["json"]
        BY <1>2, <2>2, OwnFileIsTmp DEF StoreInv, WriteTmp, WriteFails, Descriptors
      <3> QED
        BY <2>1, <2>2, <3>1 DEF StoreInv, TypeOK, WriteTmp, WriteFails
    <2>3. CASE Crash
      <3>1. name["json"] \notin Range(fd)
        BY <1>2, OwnFileIsTmp DEF StoreInv, Range, TypeOK
      <3> QED
        BY <2>1, <2>3, <3>1 DEF Crash
    <2> QED
      BY <2>2, <2>3
  <1> QED
    BY <1>1, <1>2 DEF Stream

\* A renaming puts the list its writer wrote in the place of the stream.
LEMMA RenameShowsPayload ==
    ASSUME StoreInv, NEW w \in Writers, Rename(w)
    PROVE  /\ Stream' = Json(payload[w])
           /\ w \in Callers => Stream' = Json(Append(Stream.log, rec[w]))
           /\ w \in Stores => Stream' = Stream
  <1>1. name'["json"] = name["tmp"] /\ name["tmp"] # Missing /\ content' = content
    BY DEF Rename
  <1>2. content[name["tmp"]] = Json(payload[w])
    BY DEF StoreInv, Descriptors, Rename
  <1>3. Stream' = Json(payload[w])
    BY <1>1, <1>2 DEF Stream
  <1>4. ASSUME w \in Callers
        PROVE  payload[w] = Append(Stream.log, rec[w])
    BY <1>4 DEF StoreInv, Payloads, Rename, Writing
  <1>5. ASSUME w \in Stores
        PROVE  Stream = Json(payload[w])
    BY <1>5 DEF StoreInv, Construction, Rename, Writing, Stream, Json
  <1> QED
    BY <1>3, <1>4, <1>5

\* The stream changes by a caller's renaming only.
LEMMA StreamKept ==
    ASSUME OneStore, StoreInv, Next, \A c \in Callers : ~Rename(c)
    PROVE  Stream' = Stream
  <1>1. CASE name' = name /\ content' = content
    BY <1>1 DEF Stream
  <1>2. CASE \E w \in Writers : OpenTmp(w)
    BY <1>2, OpenKeepsStream
  <1>3. CASE (\E w \in Writers : WriteTmp(w) \/ WriteFails(w)) \/ Crash
    BY <1>3, WriteKeepsStream
  <1>4. CASE \E w \in Writers : Rename(w)
    BY <1>4, RenameShowsPayload DEF Writers
  <1> QED
    BY <1>1, <1>2, <1>3, <1>4, StepCases
       DEF NextId, BeginAppend, Return, Construct, RenameFails, vars

-----------------------------------------------------------------------------
(***************************************************************************)
(* Type correctness.  Ids stay in range because the keys of the stream's   *)
(* records are distinct pairs of a caller and a number.                    *)
(***************************************************************************)

\* While a caller may still log, the stream is shorter than its bound.
LEMMA RoomForARecord ==
    ASSUME TypeOK, AlwaysReadable, Keys, NEW c \in Callers, logged[c] < MaxLogs
    PROVE  Len(Stream.log) + 1 \in 1..(Cardinality(Callers) * MaxLogs)
  <1> DEFINE log == Stream.log
             Key(i) == IF i = Len(log) + 1 THEN <<c, logged[c] + 1>>
                                           ELSE <<log[i].by, log[i].n>>
             f == [i \in 1..(Len(log) + 1) |-> Key(i)]
             T == Callers \X (1..MaxLogs)
  <1>1. /\ Len(log) \in Nat /\ MaxLogs \in Nat /\ logged[c] \in Nat
        /\ \A i \in 1..Len(log) : log[i].by \in Callers /\ log[i].n \in 1..MaxLogs
    BY StreamType, RecordFields, StoreAssumption DEF TypeOK
  <1>2. \A i \in 1..(Len(log) + 1) : Key(i) \in T
    BY <1>1
  <1>3. ASSUME NEW i \in 1..(Len(log) + 1), NEW j \in 1..(i - 1)
        PROVE  Key(i) # Key(j)
    <2>1. j \in 1..Len(log) /\ j \in 1..(Len(log) + 1)
      BY <1>1
    <2>2. CASE i = Len(log) + 1
      <3>1. log[j].by = c => log[j].n # logged[c] + 1
        BY <1>1, <2>1 DEF Keys
      <3> QED
        BY <2>1, <2>2, <3>1, <1>1
    <2>3. CASE i # Len(log) + 1
      <3>1. i \in 1..Len(log)
        BY <1>1, <2>3
      <3>2. log[j].by = log[i].by => log[j].n # log[i].n
        BY <3>1 DEF Keys
      <3> QED
        BY <2>1, <2>3, <3>2, <1>1
    <2> QED
      BY <2>2, <2>3
  <1>4. f \in Injection(1..(Len(log) + 1), T)
    <2>1. \A i, j \in 1..(Len(log) + 1) : Key(i) = Key(j) => i = j
      <3>1. SUFFICES ASSUME NEW i \in 1..(Len(log) + 1), NEW j \in 1..(Len(log) + 1),
                            Key(i) = Key(j), i # j
                     PROVE  FALSE
        OBVIOUS
      <3>2. CASE j < i
        <4>1. j \in 1..(i - 1)
          BY <1>1, <3>2
        <4> QED
          BY <1>3, <3>1, <4>1
      <3>3. CASE i < j
        <4>1. i \in 1..(j - 1)
          BY <1>1, <3>3
        <4> QED
          BY <1>3, <3>1, <4>1
      <3> QED
        BY <1>1, <3>1, <3>2, <3>3
    <2> QED
      BY <1>2, <2>1 DEF Injection, IsInjective
  <1>5. IsFiniteSet(T) /\ Cardinality(T) = Cardinality(Callers) * MaxLogs
    <2>1. IsFiniteSet(1..MaxLogs) /\ Cardinality(1..MaxLogs) = MaxLogs
      BY <1>1, FS_Interval
    <2> QED
      BY <2>1, StoreAssumption, FS_Product
  <1>6. Cardinality(1..(Len(log) + 1)) = Len(log) + 1
    <2>1. ASSUME NEW k \in Nat
          PROVE  Cardinality(1..(k + 1)) = k + 1
      BY FS_Interval
    <2> QED
      BY <1>1, <2>1
  <1>7. Cardinality(1..(Len(log) + 1)) <= Cardinality(T)
    BY <1>4, <1>5, FS_Injection
  <1>8. Cardinality(Callers) \in Nat /\ Cardinality(Callers) * MaxLogs \in Nat
    BY <1>1, StoreAssumption, FS_CardinalityType
  <1> HIDE DEF log
  <1> QED
    BY <1>1, <1>5, <1>6, <1>7, <1>8 DEF log

\* A caller's append or a store's construction that fails leaves types alone.
LEMMA FailureTypes ==
    ASSUME TypeOK, NEW w \in Writers, AfterFailure(w)
    PROVE  /\ pc' \in [Writers -> {"new", "idle", "save", "open", "write", "rename", "release"}]
           /\ lock' \in [Stores -> Callers \cup {NoOne}]
           /\ rec' \in [Callers -> Records \cup {NoRecord}]
  BY WriterKinds DEF TypeOK, AfterFailure, Writers

\* Every step keeps the type invariant.
LEMMA TypeStep ==
    ASSUME OneStore, StoreInv, Next
    PROVE  TypeOK'
  <1> DEFINE Contents == [kind : {"empty", "torn", "json"}, log : Seq(Records)]
             PCs == {"new", "idle", "save", "open", "write", "rename", "release"}
  <1>0. /\ name \in [{"json", "tmp"} -> Files \cup {Missing}]
        /\ content \in [Files -> Contents]
        /\ fd \in [Writers -> Files \cup {Missing}]
        /\ lock \in [Stores -> Callers \cup {NoOne}]
        /\ pc \in [Writers -> PCs]
        /\ payload \in [Writers -> Seq(Records)]
        /\ rec \in [Callers -> Records \cup {NoRecord}]
        /\ logged \in [Callers -> 0..MaxLogs]
        /\ acked \subseteq Records
        /\ crashes \in 0..MaxCrashes
    BY DEF StoreInv, TypeOK
  <1>1. ASSUME NEW c \in Callers, NextId(c)
        PROVE  TypeOK'
    <2>1. logged' \in [Callers -> 0..MaxLogs]
      BY <1>0, <1>1, StoreAssumption DEF NextId
    <2>2. rec' \in [Callers -> Records \cup {NoRecord}]
      <3>1. logged[c] + 1 \in 1..MaxLogs
        BY <1>0, <1>1, StoreAssumption DEF NextId
      <3>2. Len(Stream.log) + 1 \in 1..(Cardinality(Callers) * MaxLogs)
        BY <1>1, RoomForARecord DEF StoreInv, NextId
      <3>3. [by |-> c, n |-> logged[c] + 1, id |-> Len(Stream.log) + 1] \in Records
        BY <3>1, <3>2, RecordFields
      <3> QED
        BY <1>0, <1>1, <3>3 DEF NextId
    <2>3. pc' \in [Writers -> PCs]
      BY <1>0, <1>1, WriterKinds DEF NextId
    <2> QED
      BY <1>0, <1>1, <2>1, <2>2, <2>3 DEF NextId, TypeOK
  <1>2. ASSUME NEW c \in Callers, BeginAppend(c)
        PROVE  TypeOK'
    <2>1. payload' \in [Writers -> Seq(Records)]
      <3>1. rec[c] \in Records
        BY <1>2 DEF StoreInv, Keys, BeginAppend
      <3>2. Append(Stream.log, rec[c]) \in Seq(Records)
        BY <3>1, StreamType DEF StoreInv
      <3> QED
        BY <1>0, <1>2, <3>2 DEF BeginAppend
    <2>2. lock' \in [Stores -> Callers \cup {NoOne}]
      <3>1. lock' = [lock EXCEPT ![StoreOf[c]] = c]
        BY <1>2 DEF BeginAppend, StoreInv, AlwaysReadable
      <3> QED
        BY <1>0, <3>1
    <2>3. pc' \in [Writers -> PCs]
      <3>1. pc' = [pc EXCEPT ![c] = "open"]
        BY <1>2 DEF BeginAppend, StoreInv, AlwaysReadable
      <3> QED
        BY <1>0, <3>1
    <2>4. rec' \in [Callers -> Records \cup {NoRecord}]
      BY <1>0, <1>2 DEF BeginAppend
    <2> QED
      BY <1>0, <1>2, <2>1, <2>2, <2>3, <2>4 DEF BeginAppend, TypeOK
  <1>3. ASSUME NEW c \in Callers, Return(c)
        PROVE  TypeOK'
    <2>1. rec[c] \in Records
      BY <1>3 DEF StoreInv, Keys, Return
    <2>2. /\ lock' \in [Stores -> Callers \cup {NoOne}]
          /\ acked' \subseteq Records
          /\ rec' \in [Callers -> Records \cup {NoRecord}]
          /\ pc' \in [Writers -> PCs]
      BY <1>0, <1>3, <2>1, WriterKinds DEF Return
    <2> QED
      BY <1>0, <1>3, <2>2 DEF Return, TypeOK
  <1>4. ASSUME NEW s \in Stores, Construct(s)
        PROVE  TypeOK'
    <2>1. pc' \in [Writers -> PCs]
      BY <1>0, <1>4 DEF Construct
    <2>2. payload' \in [Writers -> Seq(Records)]
      <3>1. <<>> \in Seq(Records)
        OBVIOUS
      <3> QED
        BY <1>0, <1>4, <3>1 DEF Construct
    <2> QED
      BY <1>0, <1>4, <2>1, <2>2 DEF Construct, TypeOK
  <1>5. ASSUME NEW w \in Writers, OpenTmp(w)
        PROVE  TypeOK'
    <2> DEFINE f == IF name["tmp"] = Missing THEN FreeFile ELSE name["tmp"]
    <2>1. f \in Files
      BY <1>0, <1>5, FreeFileIsFree DEF StoreInv, OpenTmp
    <2>2. Empty \in Contents
      BY DEF Empty
    <2>3. /\ name' = [name EXCEPT !["tmp"] = f]
          /\ content' = [content EXCEPT ![f] = Empty]
          /\ fd' = [fd EXCEPT ![w] = f]
          /\ pc' = [pc EXCEPT ![w] = "write"]
      BY <1>5 DEF OpenTmp
    <2>4. /\ name' \in [{"json", "tmp"} -> Files \cup {Missing}]
          /\ content' \in [Files -> Contents]
          /\ fd' \in [Writers -> Files \cup {Missing}]
          /\ pc' \in [Writers -> PCs]
      BY <1>0, <2>1, <2>2, <2>3
    <2> QED
      BY <1>0, <1>5, <2>4 DEF OpenTmp, TypeOK
  <1>6. ASSUME NEW w \in Writers, WriteTmp(w)
        PROVE  TypeOK'
    <2>1. Json(payload[w]) \in Contents /\ Torn \in Contents
      BY <1>0 DEF Json, Torn
    <2>2. content' \in [Files -> Contents]
      <3>1. PICK result \in {Json(payload[w]), Torn} :
               content' = [content EXCEPT ![fd[w]] = result]
        BY <1>6 DEF WriteTmp
      <3> QED
        BY <1>0, <2>1, <3>1
    <2>3. fd' \in [Writers -> Files \cup {Missing}] /\ pc' \in [Writers -> PCs]
      BY <1>0, <1>6 DEF WriteTmp
    <2> QED
      BY <1>0, <1>6, <2>2, <2>3 DEF WriteTmp, TypeOK
  <1>7. ASSUME NEW w \in Writers, WriteFails(w)
        PROVE  TypeOK'
    <2>1. Torn \in Contents
      BY DEF Torn
    <2>2. content' \in [Files -> Contents] /\ fd' \in [Writers -> Files \cup {Missing}]
      BY <1>0, <1>7, <2>1 DEF WriteFails
    <2>3. /\ pc' \in [Writers -> PCs]
          /\ lock' \in [Stores -> Callers \cup {NoOne}]
          /\ rec' \in [Callers -> Records \cup {NoRecord}]
      BY <1>7, FailureTypes DEF WriteFails, StoreInv
    <2> QED
      BY <1>0, <1>7, <2>2, <2>3 DEF WriteFails, TypeOK
  <1>8. ASSUME NEW w \in Writers, RenameFails(w)
        PROVE  TypeOK'
    <2>1. /\ pc' \in [Writers -> PCs]
          /\ lock' \in [Stores -> Callers \cup {NoOne}]
          /\ rec' \in [Callers -> Records \cup {NoRecord}]
      BY <1>8, FailureTypes DEF RenameFails, StoreInv
    <2> QED
      BY <1>0, <1>8, <2>1 DEF RenameFails, TypeOK
  <1>9. ASSUME NEW w \in Writers, Rename(w)
        PROVE  TypeOK'
    <2>1. name' \in [{"json", "tmp"} -> Files \cup {Missing}]
      BY <1>0, <1>9 DEF Rename
    <2>2. pc' \in [Writers -> PCs]
      BY <1>0, <1>9 DEF Rename
    <2> QED
      BY <1>0, <1>9, <2>1, <2>2 DEF Rename, TypeOK
  <1>10. CASE Crash
    <2>1. content' \in [Files -> Contents]
      <3>1. Torn \in Contents
        BY DEF Torn
      <3> QED
        BY <1>0, <1>10, <3>1 DEF Crash
    <2>2. pc' \in [Writers -> PCs]
      BY <1>10 DEF Crash
    <2>3. crashes' \in 0..MaxCrashes
      BY <1>0, <1>10, StoreAssumption DEF Crash
    <2>4. /\ fd' \in [Writers -> Files \cup {Missing}]
          /\ lock' \in [Stores -> Callers \cup {NoOne}]
          /\ payload' \in [Writers -> Seq(Records)]
          /\ rec' \in [Callers -> Records \cup {NoRecord}]
      BY <1>10 DEF Crash
    <2> QED
      BY <1>0, <1>10, <2>1, <2>2, <2>3, <2>4 DEF Crash, TypeOK
  <1>11. CASE UNCHANGED vars
    BY <1>0, <1>11 DEF vars, TypeOK
  <1> QED
    BY <1>1, <1>2, <1>3, <1>4, <1>5, <1>6, <1>7, <1>8, <1>9, <1>10, <1>11, StepCases

-----------------------------------------------------------------------------
(***************************************************************************)
(* The lock, the order of construction and the two files.                  *)
(***************************************************************************)

\* The program counters of everyone but the writer that steps are kept.
LEMMA OthersKeepTheirPlace ==
    ASSUME TypeOK, AlwaysReadable, NEW w \in Writers, NEW v \in Writers, v # w,
           \/ w \in Callers /\ (NextId(w) \/ BeginAppend(w) \/ Return(w))
           \/ w \in Stores /\ Construct(w)
           \/ OpenTmp(w) \/ WriteTmp(w) \/ WriteFails(w) \/ RenameFails(w) \/ Rename(w)
    PROVE  pc'[v] = pc[v]
  BY DEF TypeOK, AlwaysReadable, NextId, BeginAppend, Return, Construct, OpenTmp, WriteTmp,
         WriteFails, RenameFails, AfterFailure, Rename

\* Where each action leaves the writer that takes it.
LEMMA OwnPlace ==
    ASSUME TypeOK, AlwaysReadable, NEW w \in Writers
    PROVE  /\ w \in Callers /\ NextId(w) => pc[w] = "idle" /\ pc'[w] = "save"
           /\ w \in Callers /\ BeginAppend(w) => pc[w] = "save" /\ pc'[w] = "open"
           /\ w \in Callers /\ Return(w) => pc[w] = "release" /\ pc'[w] = "idle"
           /\ OpenTmp(w) => pc[w] = "open" /\ pc'[w] = "write"
           /\ WriteTmp(w) => pc[w] = "write" /\ pc'[w] = "rename"
           /\ WriteFails(w) => pc[w] = "write"
           /\ RenameFails(w) => pc[w] = "rename"
           /\ WriteFails(w) \/ RenameFails(w) =>
                 pc'[w] = IF w \in Stores THEN "new" ELSE "idle"
           /\ Rename(w) => /\ pc[w] = "rename"
                           /\ pc'[w] = IF w \in Stores THEN "idle" ELSE "release"
  BY DEF TypeOK, AlwaysReadable, NextId, BeginAppend, Return, OpenTmp, WriteTmp,
         WriteFails, RenameFails, AfterFailure, Rename

\* What happens to the lock.
LEMMA LockChanges ==
    ASSUME TypeOK, AlwaysReadable, NEW w \in Writers
    PROVE  /\ w \in Callers /\ NextId(w) => lock' = lock
           /\ w \in Callers /\ BeginAppend(w) =>
                 lock[StoreOf[w]] = NoOne /\ lock' = [lock EXCEPT ![StoreOf[w]] = w]
           /\ w \in Callers /\ (Return(w) \/ WriteFails(w) \/ RenameFails(w)) =>
                 lock' = [lock EXCEPT ![StoreOf[w]] = NoOne]
           /\ w \in Stores /\ (Construct(w) \/ WriteFails(w) \/ RenameFails(w)) => lock' = lock
           /\ OpenTmp(w) \/ WriteTmp(w) \/ Rename(w) => lock' = lock
  BY WriterKinds
     DEF AlwaysReadable, NextId, BeginAppend, Return, Construct, OpenTmp, WriteTmp,
         WriteFails, RenameFails, AfterFailure, Rename

\* A caller holds its store's lock exactly while it is inside the with block.
LEMMA LockingStep ==
    ASSUME OneStore, StoreInv, Next
    PROVE  Locking'
  <1> USE DEF Holding, Writing
  <1>0. /\ TypeOK /\ AlwaysReadable /\ Locking /\ Construction
        /\ lock \in [Stores -> Callers \cup {NoOne}]
    BY DEF StoreInv, TypeOK
  <1> SUFFICES ASSUME NEW d \in Callers
               PROVE  (pc[d] \in Holding <=> lock[StoreOf[d]] = d)'
    BY DEF Locking
  <1>d. /\ d \in Writers /\ StoreOf[d] \in Stores /\ d # NoOne
        /\ pc[d] \in Holding <=> lock[StoreOf[d]] = d
    BY <1>0, WriterKinds DEF Locking
  <1>1. ASSUME NEW c \in Callers, NextId(c)
        PROVE  (pc[d] \in Holding <=> lock[StoreOf[d]] = d)'
    BY <1>0, <1>d, <1>1, OthersKeepTheirPlace, OwnPlace, LockChanges, WriterKinds
  <1>2. ASSUME NEW c \in Callers, BeginAppend(c)
        PROVE  (pc[d] \in Holding <=> lock[StoreOf[d]] = d)'
    <2>1. StoreOf[d] = StoreOf[c]
      BY WriterKinds DEF OneStore
    <2>2. lock'[StoreOf[d]] = c /\ lock[StoreOf[d]] = NoOne
      BY <1>0, <1>d, <1>2, <2>1, LockChanges, WriterKinds
    <2> QED
      BY <1>0, <1>d, <1>2, <2>2, OthersKeepTheirPlace, OwnPlace, WriterKinds
  <1>3. ASSUME NEW c \in Callers, pc[c] \in Holding, pc'[c] = "idle",
               lock' = [lock EXCEPT ![StoreOf[c]] = NoOne],
               \A v \in Writers : v # c => pc'[v] = pc[v]
        PROVE  (pc[d] \in Holding <=> lock[StoreOf[d]] = d)'
    <2>1. StoreOf[d] = StoreOf[c] /\ lock[StoreOf[c]] = c
      BY <1>0, <1>3, WriterKinds DEF OneStore, Locking
    <2>2. lock'[StoreOf[d]] = NoOne
      BY <1>0, <1>d, <1>3, <2>1
    <2> QED
      BY <1>d, <1>3, <2>1, <2>2
  <1>4. ASSUME NEW w \in Writers, lock' = lock, pc[w] \in Holding <=> pc'[w] \in Holding,
               \A v \in Writers : v # w => pc'[v] = pc[v]
        PROVE  (pc[d] \in Holding <=> lock[StoreOf[d]] = d)'
    BY <1>d, <1>4
  <1>5. ASSUME NEW s \in Stores, lock' = lock, \A v \in Writers : v # s => pc'[v] = pc[v]
        PROVE  (pc[d] \in Holding <=> lock[StoreOf[d]] = d)'
    BY <1>d, <1>5, WriterKinds
  <1>6. CASE \E c \in Callers : Return(c) \/ WriteFails(c) \/ RenameFails(c)
    BY <1>0, <1>3, <1>6, OthersKeepTheirPlace, OwnPlace, LockChanges, WriterKinds
  <1>7. CASE \E w \in Writers : OpenTmp(w) \/ WriteTmp(w)
    BY <1>0, <1>4, <1>7, OthersKeepTheirPlace, OwnPlace, LockChanges
  <1>8. CASE \E c \in Callers : Rename(c)
    BY <1>0, <1>4, <1>8, OthersKeepTheirPlace, OwnPlace, LockChanges, WriterKinds
  <1>9. CASE \E s \in Stores : Construct(s) \/ WriteFails(s) \/ RenameFails(s) \/ Rename(s)
    BY <1>0, <1>5, <1>9, OthersKeepTheirPlace, LockChanges, WriterKinds
  <1>10. CASE Crash
    BY <1>d, <1>10, WriterKinds DEF Crash
  <1>11. CASE UNCHANGED vars
    BY <1>d, <1>11 DEF vars
  <1> QED
    BY <1>1, <1>2, <1>6, <1>7, <1>8, <1>9, <1>10, <1>11, StepCases DEF Writers

\* While a caller is inside a call, a step of its own keeps Construction.
LEMMA CallerKeepsConstruction ==
    ASSUME OneStore, StoreInv, NEW c \in Callers,
           \A s \in Stores : pc[s] = "idle",
           pc'[c] # "new", \A v \in Writers : v # c => pc'[v] = pc[v],
           name'["json"] # Missing
    PROVE  Construction'
  <1>1. \A s \in Stores : pc'[s] = "idle"
    BY WriterKinds
  <1>2. \A d \in Callers : pc'[d] # "new"
    BY WriterKinds DEF StoreInv, Construction
  <1> QED
    BY <1>1, <1>2 DEF Construction, Writing

\* The store is constructed before callers begin and between them only by a restart.
LEMMA ConstructionStep ==
    ASSUME OneStore, StoreInv, Next
    PROVE  Construction'
  <1>0. TypeOK /\ AlwaysReadable /\ Construction
    BY DEF StoreInv
  <1>1. ASSUME NEW c \in Callers,
               \/ NextId(c) \/ BeginAppend(c) \/ Return(c)
               \/ OpenTmp(c) \/ WriteTmp(c) \/ WriteFails(c) \/ RenameFails(c) \/ Rename(c)
        PROVE  Construction'
    <2>1. \A s \in Stores : pc[s] = "idle"
      <3>1. CASE NextId(c)
        BY <3>1, WriterKinds DEF OneStore, NextId
      <3>2. CASE pc[c] # "idle"
        BY <1>0, <3>2, BusyCallerHasAStore
      <3> QED
        BY <1>0, <1>1, <3>1, <3>2, OwnPlace, WriterKinds
    <2>2. pc'[c] # "new" /\ \A v \in Writers : v # c => pc'[v] = pc[v]
      BY <1>0, <1>1, OwnPlace, OthersKeepTheirPlace, WriterKinds
    <2>3. name["json"] # Missing
      BY <1>0, <2>1, WriterKinds DEF Construction
    <2>4. name'["json"] # Missing
      <3>1. CASE OpenTmp(c)
        BY <2>3, <3>1, OpenKeepsStream, WriterKinds
      <3>2. CASE Rename(c)
        BY <3>2 DEF Rename
      <3> QED
        BY <1>1, <2>3, <3>1, <3>2
           DEF NextId, BeginAppend, Return, WriteTmp, WriteFails, RenameFails
    <2> QED
      BY <2>1, <2>2, <2>4, CallerKeepsConstruction
  <1>2. ASSUME NEW s \in Stores,
               \/ Construct(s) \/ OpenTmp(s) \/ WriteTmp(s) \/ WriteFails(s)
               \/ RenameFails(s) \/ Rename(s)
        PROVE  Construction'
    <2>1. pc[s] # "idle" /\ \A t \in Stores : t = s
      BY <1>0, <1>2, OwnPlace, WriterKinds DEF OneStore, Construct
    <2>2. lock[s] = NoOne /\ \A c \in Callers : pc[c] = "idle"
      BY <1>0, <2>1 DEF Construction
    <2>3. lock' = lock
      BY <1>0, <1>2, LockChanges, WriterKinds
    <2>4. \A c \in Callers : pc'[c] = "idle"
      BY <1>0, <1>2, <2>2, OthersKeepTheirPlace, WriterKinds
    <2>5. /\ pc'[s] \notin {"save", "release"}
          /\ pc'[s] = "idle" => name'["json"] # Missing
          /\ pc'[s] \in Writing => name'["json"] = Missing /\ payload'[s] = <<>>
      <3>1. CASE Construct(s)
        BY <1>0, <3>1, WriterKinds DEF Construct, TypeOK, Writing
      <3>2. CASE OpenTmp(s)
        <4>1. name'["json"] = name["json"] /\ payload' = payload
          BY <3>2, OpenKeepsStream, WriterKinds DEF OpenTmp
        <4> QED
          BY <1>0, <3>2, <4>1, OwnPlace, WriterKinds DEF Construction, Writing
      <3>3. CASE WriteTmp(s)
        BY <1>0, <3>3, OwnPlace, WriterKinds DEF WriteTmp, Construction, Writing
      <3>4. CASE WriteFails(s) \/ RenameFails(s)
        BY <1>0, <3>4, OwnPlace, WriterKinds DEF Writing
      <3>5. CASE Rename(s)
        <4>1. pc'[s] = "idle"
          BY <1>0, <3>5, OwnPlace, WriterKinds
        <4>2. name'["json"] # Missing
          BY <3>5 DEF Rename
        <4> QED
          BY <4>1, <4>2 DEF Writing
      <3> QED
        BY <1>2, <3>1, <3>2, <3>3, <3>4, <3>5
    <2> QED
      BY <2>1, <2>2, <2>3, <2>4, <2>5 DEF Construction
  <1>3. CASE Crash
    <2>1. /\ \A c \in Callers : pc'[c] = "idle"
          /\ \A s \in Stores : pc'[s] = "new" /\ lock'[s] = NoOne
      BY <1>3, WriterKinds DEF Crash
    <2> QED
      BY <2>1 DEF Construction, Writing
  <1>4. CASE UNCHANGED vars
    BY <1>0, <1>4 DEF vars, Construction
  <1> QED
    BY <1>1, <1>2, <1>3, <1>4, StepCases DEF Writers

\* Only the writer inside _atomic_write touches the temporary file.
LEMMA DescriptorsStep ==
    ASSUME OneStore, StoreInv, Next
    PROVE  Descriptors'
  <1>0. TypeOK /\ AlwaysReadable /\ Construction /\ Locking /\ Descriptors
    BY DEF StoreInv
  <1> DEFINE Fine(v) ==
        /\ pc[v] # "write" => fd[v] = Missing
        /\ pc[v] = "write" =>
              fd[v] = name["tmp"] /\ name["tmp"] # Missing /\ content[fd[v]] = Empty
        /\ pc[v] = "rename" =>
              name["tmp"] # Missing /\ content[name["tmp"]] = Json(payload[v])
  <1> SUFFICES ASSUME NEW v \in Writers
               PROVE  Fine(v)'
    BY DEF Descriptors
  <1>v. Fine(v)
    BY <1>0 DEF Descriptors
  \* A writer other than the one inside _atomic_write has nothing open.
  <1>o. ASSUME NEW w \in Writers, w # v, pc[w] \in Writing, pc'[v] = pc[v],
               fd' = fd \/ fd' = [fd EXCEPT ![w] = fd'[w]]
        PROVE  Fine(v)'
    <2>1. pc[v] \notin Writing
      BY <1>0, <1>o, OneWriter DEF Holding
    <2> QED
      BY <1>0, <1>v, <1>o, <2>1 DEF TypeOK, Writing
  <1>1. ASSUME NEW w \in Writers, OpenTmp(w)
        PROVE  Fine(v)'
    <2> DEFINE f == IF name["tmp"] = Missing THEN FreeFile ELSE name["tmp"]
    <2>1. /\ f \in Files /\ f # Missing
          /\ name' = [name EXCEPT !["tmp"] = f]
          /\ content' = [content EXCEPT ![f] = Empty]
          /\ fd' = [fd EXCEPT ![w] = f]
      BY <1>0, <1>1, FreeFileIsFree DEF OpenTmp, TypeOK
    <2>2. CASE v = w
      <3>1. pc'[v] = "write" /\ fd'[v] = f /\ name'["tmp"] = f /\ content'[f] = Empty
        BY <1>0, <1>1, <2>1, <2>2, OwnPlace DEF TypeOK
      <3> QED
        BY <2>1, <3>1
    <2>3. CASE v # w
      BY <1>0, <1>o, <1>1, <2>1, <2>3, OwnPlace, OthersKeepTheirPlace DEF Writing, TypeOK
    <2> QED
      BY <2>2, <2>3
  <1>2. ASSUME NEW w \in Writers, WriteTmp(w)
        PROVE  Fine(v)'
    <2>1. CASE v = w
      <3>1. /\ pc'[v] = "rename" /\ fd'[v] = Missing
            /\ name' = name /\ payload' = payload
            /\ fd[v] = name["tmp"] /\ name["tmp"] # Missing /\ content[fd[v]] = Empty
        BY <1>0, <1>v, <1>2, <2>1, OwnPlace DEF WriteTmp, TypeOK
      <3>2. content' = [content EXCEPT ![fd[v]] = Json(payload[v])]
        BY <1>2, <2>1, <3>1 DEF WriteTmp
      <3>3. name["tmp"] \in Files
        BY <1>0, <3>1 DEF TypeOK
      <3> QED
        BY <1>0, <3>1, <3>2, <3>3 DEF TypeOK
    <2>2. CASE v # w
      BY <1>0, <1>o, <1>2, <2>2, OwnPlace, OthersKeepTheirPlace DEF Writing, WriteTmp, TypeOK
    <2> QED
      BY <2>1, <2>2
  <1>3. ASSUME NEW w \in Writers, WriteFails(w) \/ RenameFails(w) \/ Rename(w)
        PROVE  Fine(v)'
    <2>1. CASE v = w
      <3>1. pc'[v] \notin {"write", "rename"}
        BY <1>0, <1>3, <2>1, OwnPlace
      <3>2. fd'[v] = Missing
        BY <1>0, <1>v, <1>3, <2>1 DEF WriteFails, RenameFails, Rename, TypeOK
      <3> QED
        BY <3>1, <3>2
    <2>2. CASE v # w
      BY <1>0, <1>o, <1>3, <2>2, OwnPlace, OthersKeepTheirPlace
         DEF Writing, WriteFails, RenameFails, Rename, TypeOK
    <2> QED
      BY <2>1, <2>2
  <1>4. ASSUME NEW w \in Writers,
               \/ w \in Callers /\ (NextId(w) \/ BeginAppend(w) \/ Return(w))
               \/ w \in Stores /\ Construct(w)
        PROVE  Fine(v)'
    <2>1. name' = name /\ content' = content /\ fd' = fd
      BY <1>4 DEF NextId, BeginAppend, Return, Construct
    <2>2. CASE v = w
      <3>1. pc[v] \notin {"write", "rename"} /\ pc'[v] \notin {"write", "rename"}
        BY <1>0, <1>4, <2>2, OwnPlace DEF Construct, TypeOK
      <3> QED
        BY <1>v, <2>1, <3>1
    <2>3. CASE v # w
      <3>1. pc'[v] = pc[v]
        BY <1>0, <1>4, <2>3, OthersKeepTheirPlace
      <3>2. payload'[v] = payload[v]
        BY <1>0, <1>4, <2>3 DEF NextId, BeginAppend, Return, Construct, TypeOK
      <3> QED
        BY <1>v, <2>1, <3>1, <3>2
    <2> QED
      BY <2>2, <2>3
  <1>5. CASE Crash
    <2>1. fd'[v] = Missing /\ pc'[v] \in {"new", "idle"}
      BY <1>5 DEF Crash
    <2> QED
      BY <2>1
  <1>6. CASE UNCHANGED vars
    BY <1>v, <1>6 DEF vars
  <1> QED
    BY <1>1, <1>2, <1>3, <1>4, <1>5, <1>6, StepCases, WriterKinds

\* The temporary name and the JSON name never stand for one file.
LEMMA TwoFilesStep ==
    ASSUME OneStore, StoreInv, Next
    PROVE  TwoFiles'
  <1>1. ASSUME NEW w \in Writers, OpenTmp(w)
        PROVE  TwoFiles'
    <2>1. name'["json"] = name["json"]
      BY <1>1, OpenKeepsStream
    <2>2. name'["tmp"] = IF name["tmp"] = Missing THEN FreeFile ELSE name["tmp"]
      BY <1>1 DEF OpenTmp, StoreInv, TypeOK
    <2>3. name["tmp"] = Missing => FreeFile # name["json"]
      BY <1>1, FreeFileIsFree DEF OpenTmp, StoreInv
    <2> QED
      BY <2>1, <2>2, <2>3 DEF StoreInv, TwoFiles
  <1>2. CASE \E w \in Writers : Rename(w)
    BY <1>2 DEF Rename, TwoFiles
  <1>3. CASE name' = name
    BY <1>3 DEF StoreInv, TwoFiles
  <1> QED
    BY <1>1, <1>2, <1>3, StepCases
       DEF NextId, BeginAppend, Return, Construct, WriteTmp, WriteFails, RenameFails, Crash, vars

-----------------------------------------------------------------------------
(***************************************************************************)
(* What a step makes of one caller, whoever takes it: the caller ends up   *)
(* outside any call, begins one, joins its record to the stream, or goes   *)
(* on with the record it has.                                              *)
(***************************************************************************)

Settles(d) == pc'[d] = "idle" /\ logged'[d] = logged[d]

Begins(d) ==
    /\ NextId(d) /\ pc'[d] = "save" /\ logged'[d] = logged[d] + 1
    /\ rec'[d] = [by |-> d, n |-> logged[d] + 1, id |-> Len(Stream.log) + 1]

Joins(d) ==
    /\ Rename(d) /\ pc[d] = "rename" /\ pc'[d] = "release"
    /\ rec'[d] = rec[d] /\ logged'[d] = logged[d]

GoesOn(d) ==
    /\ rec'[d] = rec[d] /\ logged'[d] = logged[d] /\ pc[d] # "idle"
    /\ pc'[d] \in Waiting <=> pc[d] \in Waiting
    /\ \/ pc'[d] \in Writing /\ BeginAppend(d) /\ payload'[d] = Append(Stream.log, rec[d])
       \/ /\ payload'[d] = payload[d]
          /\ pc'[d] \in Writing <=> pc[d] \in Writing
          /\ pc'[d] = "release" <=> pc[d] = "release"

\* A step of another writer leaves a caller's own variables alone.
LEMMA OthersAreLeftAlone ==
    ASSUME TypeOK, AlwaysReadable, NEW w \in Writers, NEW d \in Callers, d # w,
           \/ w \in Callers /\ (NextId(w) \/ BeginAppend(w) \/ Return(w))
           \/ w \in Stores /\ Construct(w)
           \/ OpenTmp(w) \/ WriteTmp(w) \/ WriteFails(w) \/ RenameFails(w) \/ Rename(w)
    PROVE  /\ Settles(d) \/ GoesOn(d)
           /\ pc'[d] = pc[d] /\ rec'[d] = rec[d]
  <1>1. pc'[d] = pc[d]
    BY OthersKeepTheirPlace, WriterKinds
  <1>2. logged'[d] = logged[d]
    BY DEF TypeOK, NextId, BeginAppend, Return, Construct, OpenTmp, WriteTmp, WriteFails,
           RenameFails, Rename
  <1>3. rec'[d] = rec[d]
    BY DEF TypeOK, NextId, BeginAppend, Return, Construct, OpenTmp, WriteTmp, WriteFails,
           RenameFails, AfterFailure, Rename
  <1>4. payload'[d] = payload[d]
    BY WriterKinds
       DEF TypeOK, NextId, BeginAppend, Return, Construct, OpenTmp, WriteTmp, WriteFails,
           RenameFails, Rename
  <1> QED
    BY <1>1, <1>2, <1>3, <1>4 DEF Settles, GoesOn

\* Every step settles, begins, joins or carries on each caller's record.
LEMMA CallerFates ==
    ASSUME StoreInv, Next, NEW d \in Callers
    PROVE  Settles(d) \/ Begins(d) \/ Joins(d) \/ GoesOn(d)
  <1>0. TypeOK /\ AlwaysReadable /\ d \in Writers /\ d \notin Stores
    BY WriterKinds DEF StoreInv
  <1>1. CASE NextId(d)
    <2>1. /\ logged' = [logged EXCEPT ![d] = @ + 1]
          /\ rec' = [rec EXCEPT ![d] =
                        [by |-> d, n |-> logged[d] + 1, id |-> Len(Stream.log) + 1]]
      BY <1>0, <1>1 DEF NextId, AlwaysReadable
    <2> QED
      BY <1>0, <1>1, <2>1, OwnPlace DEF Begins, TypeOK
  <1>2. CASE BeginAppend(d)
    <2>1. payload' = [payload EXCEPT ![d] = Append(Stream.log, rec[d])] /\ rec' = rec
      BY <1>0, <1>2 DEF BeginAppend, AlwaysReadable
    <2>2. pc[d] = "save" /\ pc'[d] = "open" /\ logged' = logged
      BY <1>0, <1>2, OwnPlace DEF BeginAppend
    <2> QED
      BY <1>0, <1>2, <2>1, <2>2 DEF GoesOn, TypeOK, Writing, Waiting
  <1>3. CASE Return(d) \/ WriteFails(d) \/ RenameFails(d)
    BY <1>0, <1>3, OwnPlace DEF Settles, Return, WriteFails, RenameFails
  <1>4. CASE OpenTmp(d) \/ WriteTmp(d)
    BY <1>0, <1>4, OwnPlace DEF GoesOn, OpenTmp, WriteTmp, Writing, Waiting
  <1>5. CASE Rename(d)
    BY <1>0, <1>5, OwnPlace DEF Joins, Rename
  <1>6. ASSUME NEW w \in Writers, w # d,
               \/ w \in Callers /\ (NextId(w) \/ BeginAppend(w) \/ Return(w))
               \/ w \in Stores /\ Construct(w)
               \/ OpenTmp(w) \/ WriteTmp(w) \/ WriteFails(w) \/ RenameFails(w) \/ Rename(w)
        PROVE  Settles(d) \/ GoesOn(d)
    BY <1>0, <1>6, OthersAreLeftAlone
  <1>7. CASE Crash
    BY <1>0, <1>7 DEF Crash, Settles
  <1>8. CASE UNCHANGED vars
    BY <1>8 DEF vars, Settles, GoesOn
  <1> QED
    BY <1>0, <1>1, <1>2, <1>3, <1>4, <1>5, <1>6, <1>7, <1>8, StepCases, WriterKinds

-----------------------------------------------------------------------------
(***************************************************************************)
(* The stream: readable, complete, and told apart by its keys and ids.     *)
(***************************************************************************)

\* The elements of a list with one more at its end.
LEMMA Appended ==
    ASSUME NEW S, NEW l \in Seq(S), NEW r \in S
    PROVE  /\ Append(l, r) \in Seq(S) /\ Len(Append(l, r)) = Len(l) + 1 /\ Len(l) \in Nat
           /\ \A i \in 1..Len(l) : Append(l, r)[i] = l[i]
           /\ Append(l, r)[Len(l) + 1] = r
           /\ Range(Append(l, r)) = Range(l) \cup {r}
  <1>1. /\ Append(l, r) \in Seq(S) /\ Len(Append(l, r)) = Len(l) + 1 /\ Len(l) \in Nat
        /\ \A i \in 1..Len(l) : Append(l, r)[i] = l[i]
        /\ Append(l, r)[Len(l) + 1] = r
    OBVIOUS
  <1>2. DOMAIN l = 1..Len(l) /\ DOMAIN Append(l, r) = 1..(Len(l) + 1)
    OBVIOUS
  <1>3. 1..(Len(l) + 1) = (1..Len(l)) \cup {Len(l) + 1}
    BY <1>1
  <1> QED
    BY <1>1, <1>2, <1>3 DEF Range

\* A renaming by a caller appends the record it is logging, and nobody else writes.
LEMMA JoinedRecord ==
    ASSUME OneStore, StoreInv, NEW c \in Callers, Rename(c)
    PROVE  /\ Stream' = Json(Append(Stream.log, rec[c]))
           /\ Stream'.log = Append(Stream.log, rec[c])
           /\ rec[c] \in Records /\ rec[c].by = c /\ rec[c].n = logged[c]
           /\ pc[c] = "rename"
           /\ \A d \in Callers : d # c => pc[d] \notin Holding
  <1>1. Stream' = Json(Append(Stream.log, rec[c])) /\ pc[c] = "rename"
    BY RenameShowsPayload, WriterKinds DEF Rename
  <1>2. rec[c] \in Records /\ rec[c].by = c /\ rec[c].n = logged[c]
    BY <1>1 DEF StoreInv, Keys
  <1>3. \A d \in Callers : d # c => pc[d] \notin Holding
    BY <1>1, OneWriter, WriterKinds DEF StoreInv, Holding, Writing
  <1> QED
    BY <1>1, <1>2, <1>3 DEF Json

\* Readers always find a JSON document.
LEMMA ReadableStep ==
    ASSUME OneStore, StoreInv, Next
    PROVE  AlwaysReadable'
  BY StreamKept, JoinedRecord DEF StoreInv, AlwaysReadable, Json

\* The lock's holder writes the stream it read with its own record at the end.
LEMMA PayloadsStep ==
    ASSUME OneStore, StoreInv, Next
    PROVE  Payloads'
  <1> SUFFICES ASSUME NEW d \in Callers
               PROVE  (/\ pc[d] \in Writing => payload[d] = Append(Stream.log, rec[d])
                       /\ pc[d] = "release" => rec[d] \in Range(Stream.log))'
    BY DEF Payloads
  <1>0. /\ pc[d] \in Writing => payload[d] = Append(Stream.log, rec[d])
        /\ pc[d] = "release" => rec[d] \in Range(Stream.log)
    BY DEF StoreInv, Payloads
  <1>1. CASE Settles(d) \/ Begins(d)
    BY <1>1 DEF Settles, Begins, Writing
  <1>2. CASE Joins(d)
    <2>1. rec[d] \in Range(Stream'.log)
      <3>1. Stream'.log = Append(Stream.log, rec[d]) /\ rec[d] \in Records
        BY <1>2, JoinedRecord DEF Joins
      <3>2. Stream.log \in Seq(Records)
        BY StreamType DEF StoreInv
      <3> QED
        BY <3>1, <3>2, Appended
    <2> QED
      BY <1>2, <2>1 DEF Joins, Writing
  <1>3. CASE GoesOn(d) /\ \A c \in Callers : ~Rename(c)
    <2>1. Stream' = Stream
      BY <1>3, StreamKept
    <2> QED
      BY <1>0, <1>3, <2>1 DEF GoesOn, Writing
  <1>4. ASSUME NEW c \in Callers, Rename(c), GoesOn(d)
        PROVE  pc'[d] \notin Writing /\ pc'[d] # "release"
    <2>1. CASE c = d
      <3>1. pc[d] = "rename" /\ pc'[d] = "release"
        BY <1>4, <2>1, OwnPlace, WriterKinds DEF StoreInv
      <3> QED
        BY <1>4, <3>1 DEF GoesOn, Writing, Waiting
    <2>2. CASE c # d
      <3>1. pc[d] \notin Holding
        BY <1>4, <2>2, JoinedRecord
      <3>2. pc'[d] = pc[d]
        BY <1>4, <2>2, OthersKeepTheirPlace, WriterKinds DEF StoreInv
      <3> QED
        BY <3>1, <3>2 DEF Holding
    <2> QED
      BY <2>1, <2>2
  <1> QED
    BY <1>1, <1>2, <1>3, <1>4, CallerFates

\* A record that was acknowledged stays in the stream.
LEMMA NoLostRecordStep ==
    ASSUME OneStore, StoreInv, Next
    PROVE  NoLostRecord'
  <1>1. Range(Stream.log) \subseteq Range(Stream'.log)
    <2>1. ASSUME NEW c \in Callers, Rename(c)
          PROVE  Range(Stream.log) \subseteq Range(Stream'.log)
      <3>1. Stream'.log = Append(Stream.log, rec[c]) /\ rec[c] \in Records
        BY <2>1, JoinedRecord
      <3>2. Stream.log \in Seq(Records)
        BY StreamType DEF StoreInv
      <3> QED
        BY <3>1, <3>2, Appended
    <2>2. CASE \A c \in Callers : ~Rename(c)
      BY <2>2, StreamKept
    <2> QED
      BY <2>1, <2>2
  <1>2. acked' = acked \/ \E c \in Callers : pc[c] = "release" /\ acked' = acked \cup {rec[c]}
    BY StepCases
       DEF NextId, BeginAppend, Return, Construct, OpenTmp, WriteTmp, WriteFails,
           RenameFails, Rename, Crash, vars
  <1> QED
    BY <1>1, <1>2 DEF StoreInv, NoLostRecord, Payloads

\* What a joining adds to the stream, entry by entry.
LEMMA StreamAfterJoin ==
    ASSUME OneStore, StoreInv, NEW c \in Callers, Rename(c)
    PROVE  /\ Len(Stream.log) \in Nat /\ Len(Stream'.log) = Len(Stream.log) + 1
           /\ \A i \in 1..Len(Stream.log) :
                  Stream'.log[i] = Stream.log[i] /\ Stream.log[i] \in Records
           /\ Stream'.log[Len(Stream.log) + 1] = rec[c]
           /\ rec[c] \in Records /\ rec[c].by = c /\ rec[c].n = logged[c]
           /\ \A i \in 1..Len(Stream'.log) : i \in 1..Len(Stream.log) \/ i = Len(Stream.log) + 1
  <1>1. Stream'.log = Append(Stream.log, rec[c])
        /\ rec[c] \in Records /\ rec[c].by = c /\ rec[c].n = logged[c]
    BY JoinedRecord
  <1>2. Stream.log \in Seq(Records) /\ \A i \in 1..Len(Stream.log) : Stream.log[i] \in Records
    BY StreamType DEF StoreInv
  <1> QED
    BY <1>1, <1>2, Appended

\* Keys in the stream stay distinct: a caller numbers its records upwards and
\* has one under way at a time.
LEMMA KeysStep ==
    ASSUME OneStore, StoreInv, Next
    PROVE  Keys'
  <1>0. Keys /\ TypeOK
    BY DEF StoreInv
  <1>1. \A d \in Callers : logged[d] \in Nat /\ (logged'[d] = logged[d] \/ logged'[d] = logged[d] + 1)
    <2>1. \A d \in Callers : logged[d] \in Nat
      BY <1>0, StoreAssumption DEF TypeOK
    <2> QED
      BY <2>1, CallerFates DEF Settles, Begins, Joins, GoesOn
  <1>2. ASSUME NEW i \in 1..Len(Stream'.log)
        PROVE  /\ Stream'.log[i].n <= logged'[Stream'.log[i].by]
               /\ \A j \in 1..(i - 1) :
                    Stream'.log[j].by = Stream'.log[i].by => Stream'.log[j].n # Stream'.log[i].n
    <2>1. CASE \A c \in Callers : ~Rename(c)
      <3>1. Stream' = Stream
        BY <2>1, StreamKept
      <3>2. Stream.log[i].by \in Callers /\ Stream.log[i].n \in Nat
        BY <1>2, <3>1, StreamType, RecordFields DEF StoreInv
      <3>3. /\ Stream.log[i].n <= logged[Stream.log[i].by]
            /\ \A j \in 1..(i - 1) :
                  Stream.log[j].by = Stream.log[i].by => Stream.log[j].n # Stream.log[i].n
        BY <1>0, <1>2, <3>1 DEF Keys
      <3>4. Stream.log[i].n <= logged'[Stream.log[i].by]
        BY <1>1, <3>2, <3>3
      <3> QED
        BY <3>1, <3>3, <3>4
    <2>2. ASSUME NEW c \in Callers, Rename(c)
          PROVE  /\ Stream'.log[i].n <= logged'[Stream'.log[i].by]
                 /\ \A j \in 1..(i - 1) :
                      Stream'.log[j].by = Stream'.log[i].by => Stream'.log[j].n # Stream'.log[i].n
      <3>1. CASE i \in 1..Len(Stream.log)
        <4>1. Stream'.log[i] = Stream.log[i] /\ Stream.log[i] \in Records
          BY <2>2, <3>1, StreamAfterJoin
        <4>2. \A j \in 1..(i - 1) : Stream'.log[j] = Stream.log[j]
          BY <2>2, <3>1, StreamAfterJoin
        <4>3. Stream.log[i].by \in Callers /\ Stream.log[i].n \in Nat
          BY <4>1, RecordFields
        <4>4. /\ Stream.log[i].n <= logged[Stream.log[i].by]
              /\ \A j \in 1..(i - 1) :
                    Stream.log[j].by = Stream.log[i].by => Stream.log[j].n # Stream.log[i].n
          BY <1>0, <3>1 DEF Keys
        <4>5. Stream.log[i].n <= logged'[Stream.log[i].by]
          BY <1>1, <4>3, <4>4
        <4> QED
          BY <4>1, <4>2, <4>4, <4>5
      <3>2. CASE i = Len(Stream.log) + 1
        <4>1. Stream'.log[i] = rec[c] /\ rec[c] \in Records /\ rec[c].by = c /\ rec[c].n = logged[c]
          BY <2>2, <3>2, StreamAfterJoin
        <4>2. \A j \in 1..Len(Stream.log) : Stream.log[j].by = c => Stream.log[j].n < rec[c].n
          BY <1>0, <2>2 DEF Keys, Rename, Waiting, Writing
        <4>3. \A j \in 1..(i - 1) :
                j \in 1..Len(Stream.log) /\ Stream'.log[j] = Stream.log[j] /\ Stream.log[j] \in Records
          BY <2>2, <3>2, StreamAfterJoin
        <4> QED
          BY <1>1, <4>1, <4>2, <4>3, RecordFields
      <3> QED
        BY <1>2, <2>2, <3>1, <3>2, StreamAfterJoin
    <2> QED
      BY <2>1, <2>2
  <1>3. ASSUME NEW d \in Callers, pc'[d] # "idle"
        PROVE  rec'[d] \in Records /\ rec'[d].by = d /\ rec'[d].n = logged'[d]
    <2>1. CASE Begins(d)
      <3>1. rec'[d].by = d /\ rec'[d].n = logged'[d] /\ rec'[d] # NoRecord
        BY <2>1, WriterKinds DEF Begins, NoRecord
      <3>2. rec'[d] \in Records \cup {NoRecord}
        BY TypeStep DEF TypeOK
      <3> QED
        BY <3>1, <3>2
    <2>2. CASE Joins(d) \/ GoesOn(d)
      BY <1>0, <2>2 DEF Keys, Joins, GoesOn
    <2> QED
      BY <1>3, <2>1, <2>2, CallerFates DEF Settles
  <1>4. ASSUME NEW d \in Callers, pc'[d] \in Waiting, NEW i \in 1..Len(Stream'.log),
               Stream'.log[i].by = d
        PROVE  Stream'.log[i].n < rec'[d].n
    <2>1. CASE Begins(d)
      <3>1. Stream' = Stream
        BY <2>1 DEF Begins, NextId, Stream
      <3>2. Stream.log[i] \in Records
        BY <1>4, <3>1, StreamType DEF StoreInv
      <3> QED
        BY <1>0, <1>1, <1>4, <2>1, <3>1, <3>2, RecordFields DEF Begins, Keys
    <2>2. CASE GoesOn(d)
      <3>1. /\ rec'[d] = rec[d]
            /\ \A j \in 1..Len(Stream.log) : Stream.log[j].by = d => Stream.log[j].n < rec[d].n
        BY <1>0, <1>4, <2>2 DEF GoesOn, Keys
      <3>2. CASE \A c \in Callers : ~Rename(c)
        BY <1>4, <3>1, <3>2, StreamKept
      <3>3. ASSUME NEW c \in Callers, Rename(c)
            PROVE  Stream'.log[i].n < rec'[d].n
        <4>1. c # d
          BY <1>4, <3>3, OwnPlace, WriterKinds DEF StoreInv, Waiting, Writing
        <4> QED
          BY <1>4, <3>1, <3>3, <4>1, StreamAfterJoin
      <3> QED
        BY <3>2, <3>3
    <2> QED
      BY <1>4, <2>1, <2>2, CallerFates DEF Settles, Joins, Waiting, Writing
  <1> QED
    BY <1>2, <1>3, <1>4 DEF Keys

\* The id of a record under way was its position when it was read, and every
\* record its caller added before has a smaller one.
LEMMA PendingIdsStep ==
    ASSUME OneStore, StoreInv, Next
    PROVE  PendingIds'
  <1>0. PendingIds /\ IdsTrackPositions /\ Keys
    BY DEF StoreInv
  <1>s. Len(Stream.log) \in Nat /\ \A i \in 1..Len(Stream.log) : Stream.log[i].id \in Nat
    BY StreamType, RecordFields DEF StoreInv
  <1> SUFFICES ASSUME NEW d \in Callers, pc'[d] \in Waiting
               PROVE  /\ rec'[d].id <= Len(Stream'.log) + 1
                      /\ \A i \in 1..Len(Stream'.log) :
                            Stream'.log[i].by = d => Stream'.log[i].id < rec'[d].id
    BY DEF PendingIds
  <1>1. CASE Begins(d)
    <2>1. Stream' = Stream
      BY <1>1 DEF Begins, NextId, Stream
    <2> QED
      BY <1>0, <1>s, <1>1, <2>1 DEF Begins, IdsTrackPositions
  <1>2. CASE GoesOn(d)
    <2>1. /\ rec'[d] = rec[d] /\ rec[d].id <= Len(Stream.log) + 1 /\ rec[d].id \in Nat
          /\ \A i \in 1..Len(Stream.log) : Stream.log[i].by = d => Stream.log[i].id < rec[d].id
      BY <1>0, <1>2, RecordFields DEF GoesOn, PendingIds, Keys
    <2>2. CASE \A c \in Callers : ~Rename(c)
      BY <2>1, <2>2, StreamKept
    <2>3. ASSUME NEW c \in Callers, Rename(c)
          PROVE  /\ rec'[d].id <= Len(Stream'.log) + 1
                 /\ \A i \in 1..Len(Stream'.log) :
                       Stream'.log[i].by = d => Stream'.log[i].id < rec'[d].id
      <3>1. c # d
        BY <2>3, OwnPlace, WriterKinds DEF StoreInv, Waiting, Writing
      <3>2. rec'[d].id <= Len(Stream'.log) + 1
        BY <1>s, <2>1, <2>3, StreamAfterJoin
      <3>3. ASSUME NEW i \in 1..Len(Stream'.log), Stream'.log[i].by = d
            PROVE  Stream'.log[i].id < rec'[d].id
        <4>1. i \in 1..Len(Stream.log) /\ Stream'.log[i] = Stream.log[i]
          BY <2>3, <3>1, <3>3, StreamAfterJoin
        <4> QED
          BY <2>1, <3>3, <4>1
      <3> QED
        BY <3>2, <3>3
    <2> QED
      BY <2>2, <2>3
  <1> QED
    BY <1>1, <1>2, CallerFates DEF Settles, Joins, Waiting, Writing

\* Ids never run ahead of positions and increase for each caller.
LEMMA IdsStep ==
    ASSUME OneStore, StoreInv, Next
    PROVE  IdsTrackPositions'
  <1>0. PendingIds /\ IdsTrackPositions
    BY DEF StoreInv
  <1>1. CASE \A c \in Callers : ~Rename(c)
    BY <1>0, <1>1, StreamKept DEF IdsTrackPositions
  <1>2. ASSUME NEW c \in Callers, Rename(c), NEW i \in 1..Len(Stream'.log)
        PROVE  /\ Stream'.log[i].id <= i
               /\ \A j \in 1..(i - 1) :
                    Stream'.log[j].by = Stream'.log[i].by => Stream'.log[j].id < Stream'.log[i].id
    <2>1. CASE i \in 1..Len(Stream.log)
      <3>1. Stream'.log[i] = Stream.log[i] /\ \A j \in 1..(i - 1) : Stream'.log[j] = Stream.log[j]
        BY <1>2, <2>1, StreamAfterJoin
      <3> QED
        BY <1>0, <2>1, <3>1 DEF IdsTrackPositions
    <2>2. CASE i = Len(Stream.log) + 1
      <3>1. Stream'.log[i] = rec[c] /\ rec[c].by = c
        BY <1>2, <2>2, StreamAfterJoin
      <3>2. /\ rec[c].id <= Len(Stream.log) + 1
            /\ \A j \in 1..Len(Stream.log) : Stream.log[j].by = c => Stream.log[j].id < rec[c].id
        BY <1>0, <1>2 DEF PendingIds, Rename, Waiting, Writing
      <3>3. \A j \in 1..(i - 1) : j \in 1..Len(Stream.log) /\ Stream'.log[j] = Stream.log[j]
        BY <1>2, <2>2, StreamAfterJoin
      <3> QED
        BY <2>2, <3>1, <3>2, <3>3
    <2> QED
      BY <1>2, <2>1, <2>2, StreamAfterJoin
  <1> QED
    BY <1>1, <1>2 DEF IdsTrackPositions

-----------------------------------------------------------------------------
(***************************************************************************)
(* The theorems.                                                           *)
(***************************************************************************)

\* Before any store exists there is no file, no lock and no record.
LEMMA StoreInvInit ==
    ASSUME Init
    PROVE  StoreInv
  <1>1. /\ Stream = Json(<<>>) /\ Stream.log = <<>> /\ Stream.kind = "json"
        /\ Len(Stream.log) = 0
    BY DEF Init, Stream, Json
  <1>2. TypeOK
    <2>1. Empty \in [kind : {"empty", "torn", "json"}, log : Seq(Records)]
      BY DEF Empty
    <2> QED
      BY <2>1, StoreAssumption DEF Init, TypeOK
  <1>3. Construction
    BY WriterKinds DEF Init, Construction, Writing
  <1>4. Locking
    BY WriterKinds DEF Init, Locking, Holding, Writing
  <1>5. Descriptors /\ TwoFiles
    BY DEF Init, Descriptors, TwoFiles
  <1>6. AlwaysReadable /\ NoLostRecord /\ IdsTrackPositions
    BY <1>1 DEF Init, AlwaysReadable, NoLostRecord, IdsTrackPositions
  <1>7. Payloads /\ Keys /\ PendingIds
    BY <1>1, WriterKinds DEF Init, Payloads, Keys, PendingIds, Waiting, Writing
  <1> QED
    BY <1>2, <1>3, <1>4, <1>5, <1>6, <1>7 DEF StoreInv

\* Every step keeps the invariant.
LEMMA StoreInvStep ==
    ASSUME OneStore, StoreInv, [Next]_vars
    PROVE  StoreInv'
  <1>1. CASE Next
    BY <1>1, TypeStep, ConstructionStep, LockingStep, DescriptorsStep, TwoFilesStep,
       ReadableStep, PayloadsStep, NoLostRecordStep, KeysStep, IdsStep, PendingIdsStep
       DEF StoreInv
  <1>2. CASE UNCHANGED vars
    <2>1. Stream' = Stream
      BY <1>2 DEF vars, Stream
    <2>2. TypeOK'
      BY <1>2 DEF StoreInv, TypeOK, vars
    <2>3. Construction' /\ Locking' /\ Descriptors' /\ TwoFiles'
      BY <1>2 DEF StoreInv, Construction, Locking, Descriptors, TwoFiles, vars
    <2>4. AlwaysReadable' /\ Payloads' /\ NoLostRecord' /\ IdsTrackPositions'
      BY <1>2, <2>1
         DEF StoreInv, AlwaysReadable, Payloads, NoLostRecord, IdsTrackPositions, vars
    <2>5. Keys' /\ PendingIds'
      BY <1>2, <2>1 DEF StoreInv, Keys, PendingIds, vars
    <2> QED
      BY <2>2, <2>3, <2>4, <2>5 DEF StoreInv
  <1> QED
    BY <1>1, <1>2

\* With one store over a directory the inductive invariant of its appends holds.
THEOREM StoreInvHolds ==
    ASSUME OneStore
    PROVE  Spec => []StoreInv
  <1>1. Init => StoreInv
    BY StoreInvInit
  <1>2. StoreInv /\ [Next]_vars => StoreInv'
    BY StoreInvStep
  <1> QED
    BY <1>1, <1>2, PTL DEF Spec

\* A record whose log_* call returned is never lost.
THEOREM NoLostRecordHolds ==
    ASSUME OneStore
    PROVE  Spec => []NoLostRecord
  <1>1. StoreInv => NoLostRecord
    BY DEF StoreInv
  <1> QED
    BY <1>1, StoreInvHolds, PTL

\* A reader, at any moment and after any crash, finds a JSON document.
THEOREM AlwaysReadableHolds ==
    ASSUME OneStore
    PROVE  Spec => []AlwaysReadable
  <1>1. StoreInv => AlwaysReadable
    BY DEF StoreInv
  <1> QED
    BY <1>1, StoreInvHolds, PTL

\* Ids are never ahead of positions and strictly increase for each caller.
THEOREM IdsTrackPositionsHolds ==
    ASSUME OneStore
    PROVE  Spec => []IdsTrackPositions
  <1>1. StoreInv => IdsTrackPositions
    BY DEF StoreInv
  <1> QED
    BY <1>1, StoreInvHolds, PTL

\* The store keeps its type invariant: ids stay in range because keys are distinct.
THEOREM StoreTypeCorrect ==
    ASSUME OneStore
    PROVE  Spec => []TypeOK
  <1>1. StoreInv => TypeOK
    BY DEF StoreInv
  <1> QED
    BY <1>1, StoreInvHolds, PTL

-----------------------------------------------------------------------------
(***************************************************************************)
(* Refinement: what a caller sees of the store is an append-only log.      *)
(***************************************************************************)

\* Pending records are told apart by their callers.
LEMMA PendingRecords ==
    ASSUME StoreInv
    PROVE  /\ \A c \in Callers : pc[c] # "idle" => rec[c] \in Pending
           /\ \A r \in Pending : r \in Records /\ pc[r.by] # "idle" /\ r = rec[r.by]
  BY DEF StoreInv, Keys, Pending

\* How the pending records change when one caller's call begins, goes on or ends.
LEMMA PendingChanges ==
    ASSUME StoreInv, StoreInv', NEW c \in Callers,
           \A d \in Callers : d # c => pc'[d] = pc[d] /\ rec'[d] = rec[d]
    PROVE  /\ pc[c] = "idle" /\ pc'[c] # "idle" => Pending' = Pending \cup {rec'[c]}
           /\ pc[c] # "idle" /\ pc'[c] = "idle" => Pending' = Pending \ {rec[c]}
           /\ pc[c] # "idle" /\ pc'[c] # "idle" /\ rec'[c] = rec[c] => Pending' = Pending
  <1>1. \A d \in Callers : /\ pc[d] # "idle" => rec[d].by = d
                           /\ pc'[d] # "idle" => rec'[d].by = d
    BY DEF StoreInv, Keys
  <1>2. ASSUME pc[c] = "idle", pc'[c] # "idle"
        PROVE  Pending' = Pending \cup {rec'[c]}
    BY <1>1, <1>2 DEF Pending
  <1>3. ASSUME pc[c] # "idle", pc'[c] = "idle"
        PROVE  Pending' = Pending \ {rec[c]}
    <2>1. \A d \in Callers : d # c /\ pc[d] # "idle" => rec[d] # rec[c]
      BY <1>1, <1>3
    <2> QED
      BY <1>1, <1>3, <2>1 DEF Pending
  <1>4. ASSUME pc[c] # "idle", pc'[c] # "idle", rec'[c] = rec[c]
        PROVE  Pending' = Pending
    BY <1>1, <1>4 DEF Pending
  <1> QED
    BY <1>2, <1>3, <1>4

\* A record numbered above all its caller has logged is nowhere in the stream.
LEMMA NewerIsAbsent ==
    ASSUME StoreInv, NEW r,
           \A i \in 1..Len(Stream.log) : Stream.log[i].by = r.by => Stream.log[i].n # r.n
    PROVE  r \notin Range(Stream.log)
  <1>1. DOMAIN Stream.log = 1..Len(Stream.log)
    BY StreamType DEF StoreInv
  <1> QED
    BY <1>1 DEF Range

\* The abstract log takes the same range of a function.
LEMMA SameRange == \A f : Stored!Range(f) = Range(f)
  BY DEF Stored!Range, Range

\* Each step of the store is a step of the abstract log, or none.
LEMMA StepRefines ==
    ASSUME OneStore, StoreInv, StoreInv', [Next]_vars
    PROVE  [Stored!Next]_<<Stream.log, Pending, acked>>
  <1>0. TypeOK /\ AlwaysReadable
    BY DEF StoreInv
  <1> DEFINE OthersKept(c) == \A d \in Callers : d # c => pc'[d] = pc[d] /\ rec'[d] = rec[d]
  <1>1. ASSUME NEW c \in Callers, NextId(c)
        PROVE  Stored!Next
    <2>1. OthersKept(c)
      BY <1>0, <1>1, OthersAreLeftAlone, WriterKinds
    <2>2. /\ pc[c] = "idle" /\ pc'[c] = "save" /\ Stream' = Stream /\ acked' = acked
          /\ rec'[c].by = c /\ rec'[c].n = logged[c] + 1
      BY <1>0, <1>1, OwnPlace, WriterKinds DEF NextId, Stream, AlwaysReadable, TypeOK
    <2>3. rec'[c] \in Records
      BY <2>2 DEF StoreInv, Keys
    <2>4. Pending' = Pending \cup {rec'[c]}
      BY <2>1, <2>2, PendingChanges
    <2>5. rec'[c] \notin Pending
      BY <2>2, PendingRecords
    <2>6. rec'[c] \notin Range(Stream.log)
      <3>1. \A i \in 1..Len(Stream.log) : Stream.log[i].by = c => Stream.log[i].n <= logged[c]
        BY DEF StoreInv, Keys
      <3>2. logged[c] \in Nat /\ \A i \in 1..Len(Stream.log) : Stream.log[i].n \in Nat
        BY <1>0, StreamType, RecordFields, StoreAssumption DEF TypeOK
      <3> QED
        BY <2>2, <3>1, <3>2, NewerIsAbsent
    <2>7. rec'[c] \notin acked
      BY <2>6 DEF StoreInv, NoLostRecord
    <2>8. Stored!Request(rec'[c])
      BY <2>2, <2>4, <2>5, <2>6, <2>7, SameRange DEF Stored!Request
    <2> QED
      BY <2>3, <2>8 DEF Stored!Next
  <1>2. ASSUME NEW c \in Callers, Rename(c)
        PROVE  Stored!Next
    <2>1. OthersKept(c)
      BY <1>0, <1>2, OthersAreLeftAlone, WriterKinds
    <2>2. /\ pc[c] = "rename" /\ pc'[c] = "release" /\ rec' = rec /\ acked' = acked
          /\ Stream'.log = Append(Stream.log, rec[c]) /\ rec[c] \in Records
          /\ rec[c].by = c
      <3>1. pc[c] = "rename" /\ pc'[c] = "release"
        BY <1>0, <1>2, OwnPlace, WriterKinds
      <3>2. rec' = rec /\ acked' = acked
        BY <1>2 DEF Rename
      <3> QED
        BY <1>2, <3>1, <3>2, JoinedRecord
    <2>3. Pending' = Pending
      BY <2>1, <2>2, PendingChanges
    <2>4. rec[c] \in Pending
      BY <2>2, PendingRecords
    <2>5. rec[c] \notin Range(Stream.log)
      <3>1. \A i \in 1..Len(Stream.log) : Stream.log[i].by = c => Stream.log[i].n < rec[c].n
        BY <2>2 DEF StoreInv, Keys, Waiting, Writing
      <3>2. rec[c].n \in Nat /\ \A i \in 1..Len(Stream.log) : Stream.log[i].n \in Nat
        BY <1>0, <2>2, StreamType, RecordFields
      <3> QED
        BY <2>2, <3>1, <3>2, NewerIsAbsent
    <2>6. Stored!Commit(rec[c])
      BY <2>2, <2>3, <2>4, <2>5, SameRange DEF Stored!Commit
    <2> QED
      BY <2>2, <2>6 DEF Stored!Next
  <1>3. ASSUME NEW c \in Callers, Return(c)
        PROVE  Stored!Next
    <2>1. OthersKept(c)
      BY <1>0, <1>3, OthersAreLeftAlone, WriterKinds
    <2>2. /\ pc[c] = "release" /\ pc'[c] = "idle" /\ Stream' = Stream
          /\ acked' = acked \cup {rec[c]}
      BY <1>0, <1>3, OwnPlace, WriterKinds DEF Return, Stream
    <2>3. Pending' = Pending \ {rec[c]}
      BY <2>1, <2>2, PendingChanges
    <2>4. rec[c] \in Pending /\ rec[c] \in Records /\ rec[c] \in Range(Stream.log)
      BY <2>2, PendingRecords DEF StoreInv, Payloads, Keys
    <2>5. Stored!Return(rec[c])
      BY <2>2, <2>3, <2>4, SameRange DEF Stored!Return
    <2> QED
      BY <2>4, <2>5 DEF Stored!Next
  <1>4. ASSUME NEW c \in Callers, WriteFails(c) \/ RenameFails(c)
        PROVE  Stored!Next
    <2>1. OthersKept(c)
      BY <1>0, <1>4, OthersAreLeftAlone, WriterKinds
    <2>2. pc[c] # "idle" /\ pc'[c] = "idle" /\ acked' = acked
      BY <1>0, <1>4, OwnPlace, WriterKinds DEF WriteFails, RenameFails
    <2>3. Stream' = Stream
      BY <1>4, WriteKeepsStream, WriterKinds DEF RenameFails, Stream
    <2>4. Pending' = Pending \ {rec[c]} /\ rec[c] \in Pending
      BY <2>1, <2>2, PendingChanges, PendingRecords
    <2>5. Stored!Abandon({rec[c]})
      BY <2>2, <2>3, <2>4 DEF Stored!Abandon
    <2> QED
      BY <2>4, <2>5 DEF Stored!Next
  <1>5. CASE Crash
    <2>1. Stream' = Stream /\ acked' = acked
      BY <1>5, WriteKeepsStream DEF Crash
    <2>2. Pending' = {}
      BY <1>5, WriterKinds DEF Crash, Pending
    <2>3. Stored!Abandon(Pending)
      BY <2>1, <2>2 DEF Stored!Abandon
    <2> QED
      BY <2>3 DEF Stored!Next
  <1>6. ASSUME NEW w \in Writers,
               \/ w \in Callers /\ BeginAppend(w)
               \/ w \in Stores /\ (Construct(w) \/ WriteFails(w) \/ RenameFails(w) \/ Rename(w))
               \/ OpenTmp(w) \/ WriteTmp(w)
        PROVE  UNCHANGED <<Stream.log, Pending, acked>>
    <2>1. acked' = acked
      BY <1>6 DEF BeginAppend, Construct, WriteFails, RenameFails, Rename, OpenTmp, WriteTmp
    <2>2. Stream' = Stream
      BY <1>6, OpenKeepsStream, WriteKeepsStream, RenameShowsPayload
         DEF BeginAppend, Construct, RenameFails, Stream
    <2>3. CASE w \in Callers
      <3>1. OthersKept(w)
        BY <1>0, <1>6, <2>3, OthersAreLeftAlone, WriterKinds
      <3>2. pc[w] # "idle" /\ pc'[w] # "idle" /\ rec'[w] = rec[w]
        BY <1>0, <1>6, <2>3, OwnPlace, WriterKinds
           DEF BeginAppend, OpenTmp, WriteTmp, AlwaysReadable
      <3> QED
        BY <2>1, <2>2, <2>3, <3>1, <3>2, PendingChanges
    <2>4. CASE w \in Stores
      <3>1. \A d \in Callers : pc'[d] = pc[d] /\ rec'[d] = rec[d]
        BY <1>0, <1>6, <2>4, OthersAreLeftAlone, WriterKinds
      <3>2. Pending' = Pending
        BY <3>1 DEF Pending
      <3> QED
        BY <2>1, <2>2, <3>2
    <2> QED
      BY <2>3, <2>4 DEF Writers
  <1>7. CASE UNCHANGED vars
    BY <1>7 DEF vars, Stream, Pending
  <1> QED
    BY <1>1, <1>2, <1>3, <1>4, <1>5, <1>6, <1>7, StepCases, WriterKinds DEF Writers

\* With one store over the directory the stream implements an append-only log.
THEOREM StoreImplementsLog ==
    ASSUME OneStore
    PROVE  Spec => Implements
  <1>1. Init => Stored!Init
    BY WriterKinds DEF Init, Stored!Init, Stream, Json, Pending
  <1>2. StoreInv /\ StoreInv' /\ [Next]_vars => [Stored!Next]_<<Stream.log, Pending, acked>>
    BY StepRefines
  <1>3. Spec => []StoreInv
    BY StoreInvHolds
  <1> QED
    BY <1>1, <1>2, <1>3, PTL DEF Spec, Implements, Stored!Spec

=============================================================================
