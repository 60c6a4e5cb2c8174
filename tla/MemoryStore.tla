---------------------------- MODULE MemoryStore ----------------------------
(***************************************************************************)
(* One stream of the memory subsystem: MemoryService's log_* methods and   *)
(* _next_id (app/memory/service.py) over MemoryStore's read-modify-write   *)
(* append (app/memory/memory_store.py), down to the file operations.       *)
(*                                                                         *)
(* A store instance owns a lock; the file it guards belongs to everyone.   *)
(* MemoryService() makes a store of its own over "data/memory" by default, *)
(* so StoreOf says which instance each caller goes through: all callers of *)
(* one service share a store, callers of two services do not.              *)
(*                                                                         *)
(* The directory holds two names, the JSON file and its ".tmp"; an open    *)
(* file outlives the renaming of its name, so names and files are apart.   *)
(***************************************************************************)
EXTENDS Integers, Sequences, FiniteSets, Functions

CONSTANTS
    Callers,        \* threads that log records
    Stores,         \* MemoryStore instances over the directory
    StoreOf,        \* the instance each caller goes through
    MaxLogs,        \* bound on the records a caller logs
    MaxCrashes,     \* bound on process crashes
    NoOne           \* neither a caller nor a store

ASSUME StoreAssumption ==
    /\ StoreOf \in [Callers -> Stores]
    /\ Callers \cap Stores = {}
    /\ NoOne \notin Callers \cup Stores
    /\ IsFiniteSet(Callers) /\ IsFiniteSet(Stores)
    /\ MaxLogs \in Nat /\ MaxCrashes \in Nat

\* Whoever runs _atomic_write: a caller in append, or the constructor of a
\* store in _ensure_layout.
Writers == Callers \cup Stores

Files == 1..(2 + Cardinality(Writers))
Missing == 0

\* What a file holds: nothing yet, a JSON list of records, or bytes that are
\* no JSON document.
Empty  == [kind |-> "empty", log |-> <<>>]
Torn   == [kind |-> "torn", log |-> <<>>]
Json(l) == [kind |-> "json", log |-> l]

Records == [by : Callers, n : 1..MaxLogs, id : 1..(Cardinality(Callers) * MaxLogs)]

VARIABLES
    name,       \* the file each name of the directory stands for
    content,    \* what each file holds
    fd,         \* the temporary file each writer has open
    lock,       \* MemoryStore._lock: its holder, by store
    pc,         \* where each writer is
    payload,    \* the list each writer is writing
    rec,        \* the record each caller is logging
    logged,     \* how many records each caller has begun to log
    acked,      \* records whose log_* call has returned
    crashes     \* process crashes so far

vars == <<name, content, fd, lock, pc, payload, rec, logged, acked, crashes>>

NoRecord == [by |-> NoOne, n |-> 0, id |-> 0]

TypeOK ==
    /\ name \in [{"json", "tmp"} -> Files \cup {Missing}]
    /\ content \in [Files -> [kind : {"empty", "torn", "json"}, log : Seq(Records)]]
    /\ fd \in [Writers -> Files \cup {Missing}]
    /\ lock \in [Stores -> Callers \cup {NoOne}]
    /\ pc \in [Writers -> {"new", "idle", "save", "open", "write", "rename", "release"}]
    /\ payload \in [Writers -> Seq(Records)]
    /\ rec \in [Callers -> Records \cup {NoRecord}]
    /\ logged \in [Callers -> 0..MaxLogs]
    /\ acked \subseteq Records
    /\ crashes \in 0..MaxCrashes

\* No service exists yet, and neither does the file.
Init ==
    /\ name = [x \in {"json", "tmp"} |-> Missing]
    /\ content = [f \in Files |-> Empty]
    /\ fd = [w \in Writers |-> Missing]
    /\ lock = [s \in Stores |-> NoOne]
    /\ pc = [w \in Writers |-> IF w \in Stores THEN "new" ELSE "idle"]
    /\ payload = [w \in Writers |-> <<>>]
    /\ rec = [c \in Callers |-> NoRecord]
    /\ logged = [c \in Callers |-> 0]
    /\ acked = {}
    /\ crashes = 0

-----------------------------------------------------------------------------
Stream == IF name["json"] = Missing THEN Json(<<>>) ELSE content[name["json"]]

\* MemoryStore.__init__: _ensure_layout creates the file when it finds none,
\* and holds no lock while it does.
Construct(s) ==
    /\ pc[s] = "new"
    /\ IF name["json"] = Missing
       THEN pc' = [pc EXCEPT ![s] = "open"] /\ payload' = [payload EXCEPT ![s] = <<>>]
       ELSE pc' = [pc EXCEPT ![s] = "idle"] /\ UNCHANGED payload
    /\ UNCHANGED <<name, content, fd, lock, rec, logged, acked, crashes>>

NextId_ZeroBased(c) ==
    /\ pc[c] = "idle" /\ logged[c] < MaxLogs
    /\ pc[StoreOf[c]] = "idle" /\ lock[StoreOf[c]] = NoOne
    /\ logged' = [logged EXCEPT ![c] = @ + 1]
    /\ rec' = [rec EXCEPT ![c] = [by |-> c, n |-> logged[c] + 1, id |-> Len(Stream.log)]]
    /\ pc' = [pc EXCEPT ![c] = "save"]
    /\ UNCHANGED <<name, content, fd, lock, payload, acked, crashes>>

NextId_Counter(c) ==
    /\ pc[c] = "idle" /\ logged[c] < MaxLogs
    /\ pc[StoreOf[c]] = "idle" /\ lock[StoreOf[c]] = NoOne
    /\ logged' = [logged EXCEPT ![c] = @ + 1]
    /\ rec' = [rec EXCEPT ![c] = [by |-> c, n |-> logged[c] + 1, id |-> logged[c] + 1]]
    /\ pc' = [pc EXCEPT ![c] = "save"]
    /\ UNCHANGED <<name, content, fd, lock, payload, acked, crashes>>

\* _next_id: get_all reads the stream under the lock and lets go of it again.
NextId(c) ==
    /\ pc[c] = "idle" /\ logged[c] < MaxLogs
    /\ pc[StoreOf[c]] = "idle" /\ lock[StoreOf[c]] = NoOne
    /\ logged' = [logged EXCEPT ![c] = @ + 1]
    /\ IF Stream.kind = "json"
       THEN /\ rec' = [rec EXCEPT ![c] =
                         [by |-> c, n |-> logged[c] + 1, id |-> Len(Stream.log) + 1]]
            /\ pc' = [pc EXCEPT ![c] = "save"]
       ELSE UNCHANGED <<rec, pc>>                       \* json.load raises
    /\ UNCHANGED <<name, content, fd, lock, payload, acked, crashes>>

BeginAppend_NoLock(c) ==
    /\ pc[c] = "save"
    /\ IF Stream.kind = "json"
       THEN /\ payload' = [payload EXCEPT ![c] = Append(Stream.log, rec[c])]
            /\ pc' = [pc EXCEPT ![c] = "open"]
            /\ UNCHANGED <<lock, rec>>
       ELSE /\ pc' = [pc EXCEPT ![c] = "idle"]
            /\ rec' = [rec EXCEPT ![c] = NoRecord]
            /\ UNCHANGED <<payload, lock>>
    /\ UNCHANGED <<name, content, fd, logged, acked, crashes>>

BeginAppend_NewestFirst(c) ==
    /\ pc[c] = "save" /\ lock[StoreOf[c]] = NoOne
    /\ Stream.kind = "json"
    /\ lock' = [lock EXCEPT ![StoreOf[c]] = c]
    /\ payload' = [payload EXCEPT ![c] = <<rec[c]>> \o Stream.log]
    /\ pc' = [pc EXCEPT ![c] = "open"]
    /\ UNCHANGED <<name, content, fd, rec, logged, acked, crashes>>

\* append: take the lock and read the stream; a file json.load rejects raises,
\* and the with block lets go of the lock.
BeginAppend(c) ==
    /\ pc[c] = "save" /\ lock[StoreOf[c]] = NoOne
    /\ IF Stream.kind = "json"
       THEN /\ lock' = [lock EXCEPT ![StoreOf[c]] = c]
            /\ payload' = [payload EXCEPT ![c] = Append(Stream.log, rec[c])]
            /\ pc' = [pc EXCEPT ![c] = "open"]
            /\ UNCHANGED rec
       ELSE /\ pc' = [pc EXCEPT ![c] = "idle"]
            /\ rec' = [rec EXCEPT ![c] = NoRecord]
            /\ UNCHANGED <<payload, lock>>
    /\ UNCHANGED <<name, content, fd, logged, acked, crashes>>

-----------------------------------------------------------------------------
(***************************************************************************)
(* _atomic_write: open(".tmp", "w"), dump, close, replace.                 *)
(***************************************************************************)
FreeFile == CHOOSE f \in Files : f \notin Range(name) \cup Range(fd)

OpenTmp_InPlace(w) ==
    /\ pc[w] = "open"
    /\ LET f == IF name["json"] = Missing THEN FreeFile ELSE name["json"]
       IN  /\ name' = [name EXCEPT !["json"] = f]
           /\ content' = [content EXCEPT ![f] = Empty]
           /\ fd' = [fd EXCEPT ![w] = f]
    /\ pc' = [pc EXCEPT ![w] = "write"]
    /\ UNCHANGED <<lock, payload, rec, logged, acked, crashes>>

\* "w" empties the file of that name, whoever else has it open.
OpenTmp(w) ==
    /\ pc[w] = "open"
    /\ LET f == IF name["tmp"] = Missing THEN FreeFile ELSE name["tmp"]
       IN  /\ name' = [name EXCEPT !["tmp"] = f]
           /\ content' = [content EXCEPT ![f] = Empty]
           /\ fd' = [fd EXCEPT ![w] = f]
    /\ pc' = [pc EXCEPT ![w] = "write"]
    /\ UNCHANGED <<lock, payload, rec, logged, acked, crashes>>

\* The dump lands when the file is closed.  Over another writer's bytes, from
\* offset 0, it leaves their tail when it is the shorter of the two.
WriteTmp(w) ==
    /\ pc[w] = "write"
    /\ \E result \in {Json(payload[w])} \cup
                     (IF content[fd[w]] = Empty THEN {} ELSE {Torn}) :
          content' = [content EXCEPT ![fd[w]] = result]
    /\ fd' = [fd EXCEPT ![w] = Missing]
    /\ pc' = [pc EXCEPT ![w] = "rename"]
    /\ UNCHANGED <<name, lock, payload, rec, logged, acked, crashes>>

AfterFailure_KeepsLock(w) ==
    /\ pc' = [pc EXCEPT ![w] = IF w \in Stores THEN "new" ELSE "idle"]
    /\ rec' = IF w \in Stores THEN rec ELSE [rec EXCEPT ![w] = NoRecord]
    /\ UNCHANGED lock

AfterFailure(w) ==
    IF w \in Stores
    THEN /\ pc' = [pc EXCEPT ![w] = "new"]
         /\ UNCHANGED <<lock, rec>>
    ELSE /\ pc' = [pc EXCEPT ![w] = "idle"]
         /\ lock' = [lock EXCEPT ![StoreOf[w]] = NoOne]
         /\ rec' = [rec EXCEPT ![w] = NoRecord]

\* The write raises (no space left, say) and leaves what it wrote so far in
\* the temporary file; an application constructs the store again.
WriteFails(w) ==
    /\ pc[w] = "write"
    /\ content' = [content EXCEPT ![fd[w]] = Torn]
    /\ fd' = [fd EXCEPT ![w] = Missing]
    /\ AfterFailure(w)
    /\ UNCHANGED <<name, payload, logged, acked, crashes>>

\* The rename raises: the system refuses it, or the temporary name is gone
\* because another instance has renamed it.
RenameFails(w) ==
    /\ pc[w] = "rename"
    /\ AfterFailure(w)
    /\ UNCHANGED <<name, content, fd, payload, logged, acked, crashes>>

Rename(w) ==
    /\ pc[w] = "rename" /\ name["tmp"] # Missing
    /\ name' = [json |-> name["tmp"], tmp |-> Missing]
    /\ pc' = [pc EXCEPT ![w] = IF w \in Stores THEN "idle" ELSE "release"]
    /\ UNCHANGED <<content, fd, lock, payload, rec, logged, acked, crashes>>

\* append leaves the with block and log_* returns the record.
Return(c) ==
    /\ pc[c] = "release"
    /\ lock' = [lock EXCEPT ![StoreOf[c]] = NoOne]
    /\ acked' = acked \cup {rec[c]}
    /\ rec' = [rec EXCEPT ![c] = NoRecord]
    /\ pc' = [pc EXCEPT ![c] = "idle"]
    /\ UNCHANGED <<name, content, fd, payload, logged, crashes>>

\* The process dies and starts again: locks, open files and calls are gone,
\* the directory is what it was, and every store is constructed anew.
Crash ==
    /\ crashes < MaxCrashes
    /\ crashes' = crashes + 1
    /\ content' = [f \in Files |->
                      IF f \in Range(fd) /\ content[f] = Empty THEN Torn ELSE content[f]]
    /\ fd' = [w \in Writers |-> Missing]
    /\ lock' = [s \in Stores |-> NoOne]
    /\ pc' = [w \in Writers |-> IF w \in Stores THEN "new" ELSE "idle"]
    /\ payload' = [w \in Writers |-> <<>>]
    /\ rec' = [c \in Callers |-> NoRecord]
    /\ UNCHANGED <<name, logged, acked>>

-----------------------------------------------------------------------------
Write(w) == OpenTmp(w) \/ WriteTmp(w) \/ WriteFails(w) \/ RenameFails(w) \/ Rename(w)

CallerStep(c) == NextId(c) \/ BeginAppend(c) \/ Write(c) \/ Return(c)

StoreStep(s) == Construct(s) \/ Write(s)

\* Every caller is done logging and every store has been constructed.
Quiet ==
    /\ \A c \in Callers : pc[c] = "idle" /\ logged[c] = MaxLogs
    /\ \A s \in Stores : pc[s] = "idle"
    /\ UNCHANGED vars

Next ==
    \/ \E c \in Callers : CallerStep(c)
    \/ \E s \in Stores : StoreStep(s)
    \/ Crash
    \/ Quiet

\* File operations return, one way or the other: a caller inside append is
\* never descheduled for good.  Nothing is assumed of who gets the lock next.
Fairness == \A w \in Writers : WF_vars(Write(w)) /\ (w \in Callers => WF_vars(Return(w)))

Spec == Init /\ [][Next]_vars /\ Fairness

-----------------------------------------------------------------------------
Pending == {rec[c] : c \in {d \in Callers : pc[d] # "idle"}}

\* The stream implements an append-only log: a record appears when the rename
\* takes effect, at the end, after everything that was there before.
Stored == INSTANCE AppendLog WITH
              log <- Stream.log, pending <- Pending, acked <- acked

Implements == Stored!Spec

\* A record whose log_* call returned is never lost, whatever other callers,
\* failed writes and crashes do to the file.
NoLostRecord == acked \subseteq Range(Stream.log)

\* The JSON file is always a JSON document: readers, who may come at any
\* moment and after any crash, never meet half a write.
AlwaysReadable == Stream.kind = "json"

\* Ids are positions read before the append: an id is never ahead of its
\* record's position, and the ids of one caller strictly increase, across
\* failed appends and restarts.  (Two callers may well be given the same id.)
IdsTrackPositions ==
    LET s == Stream.log
    IN  \A i \in 1..Len(s) :
            /\ s[i].id <= i
            /\ \A j \in 1..(i - 1) : s[j].by = s[i].by => s[j].id < s[i].id

\* A store's lock is always let go of, by an append that fails too.
LockIsReleased == \A s \in Stores : lock[s] # NoOne ~> lock[s] = NoOne
=============================================================================
