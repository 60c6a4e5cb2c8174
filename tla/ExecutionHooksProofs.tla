----------------------- MODULE ExecutionHooksProofs -----------------------
(***************************************************************************)
(* The safety properties of ExecutionHooks, proved for any number of       *)
(* threads, requests and calls, any policy and any faults.                 *)
(*                                                                         *)
(* The inductive invariant has three parts: who is in the sandbox and what *)
(* that does to the process, what each call knows of itself at each place  *)
(* in execute_with_policy, and which records were begun on its account.    *)
(***************************************************************************)
EXTENDS ExecutionHooks, FiniteSetTheorems, TLAPS

Files == Paths \cup {DefaultPath}

InSandbox == {"sandbox", "restrict", "handler", "restore", "refill", "clear env", "restore env"}

\* Where the engine has not returned yet, and where it has.
Before == {"engine", "enter", "sandbox", "restrict", "handler"}
After  == {"restore", "refill", "clear env", "restore env", "report"}

Writing == {"prepare", "write", "continue", "close"}

\* Where the record has been made, so that its plan was one json.dumps takes.
Made == {"write", "continue", "close", "return"}

Places ==
    {"idle", "resolve", "validate", "caught", "return", "raised"}
        \cup Before \cup After \cup Writing

Calls ==
    [pc : Places, n : Nat, operation : Nat, request : Requests \cup {None}, path : Files,
     ran : {"no", "returned", "raised"}, success : BOOLEAN,
     error : {"none", "policy", "value", "runtime"},
     recording : {"none", "success", "failure"},
     disturbed : BOOLEAN, failed : BOOLEAN,
     result : {"none", "done", "final", "retryable", "escaped"}]

Pieces ==
    [by : Threads, n : Nat, status : {"none", "success", "failure"},
     part : {"whole", "head", "tail"}]

HooksTypeOK ==
    /\ bound \in Bounds
    /\ builtins \in {"full", "safe", "none"}
    /\ env \in Paths \cup {None} /\ saved \in Paths \cup {None}
    /\ lock \in Threads \cup {NoThread}
    /\ file \in [Files -> Seq(Pieces)]
    /\ call \in [Threads -> Calls]
    /\ ended \subseteq [by : Threads, call : Calls]

\* The builtins and the environment follow the thread that holds the lock.
SandboxInv ==
    /\ \A t \in Threads : call[t].pc \in InSandbox <=> lock = t
    /\ lock = NoThread => builtins = "full" /\ env \in wanted
    /\ \A t \in Threads : lock = t =>
          /\ builtins = CASE call[t].pc \in {"restrict", "refill"}  -> "none"
                          [] call[t].pc \in {"handler", "restore"}  -> "safe"
                          [] OTHER                                  -> "full"
          /\ saved \in wanted
          /\ env \in wanted \/ (call[t].pc = "restore env" /\ env = None)

\* What went wrong with a call is marked on it.
Marked(c) == c.failed \/ c.disturbed

Refused(c) == Verdict(c.request) # "none"

\* What a call knows of itself.
CallInv(c) ==
    /\ c.pc \in {"resolve", "validate"} \cup Before \cup After
         => c.recording = "none" /\ c.error = "none"
    /\ c.pc \in {"resolve", "validate"} \cup Before => c.ran = "no"
    /\ c.pc \in Before \cup After => ~Refused(c)
    /\ c.pc \in After \cup {"return"} => c.ran = "returned"
    /\ c.pc \in Writing => c.recording # "none"
    /\ c.pc = "return" => c.recording = "success"
    /\ c.pc = "caught" => c.recording # "failure"
    /\ c.recording = "success" => c.ran = "returned"
    /\ Refused(c) => c.ran = "no"
    /\ c.pc \in {"caught", "raised"} \/ c.recording = "failure" => c.error # "none"
    /\ c.pc = "raised" /\ c.recording = "none" => Marked(c)
    /\ c.pc \in Made => c.request.plan = "plain"
    /\ c.ran = "returned" /\ (c.pc \in {"caught", "raised"} \/ c.recording = "failure")
         => Marked(c)
    /\ c.error = "runtime" /\ (c.ran = "returned" \/ Refused(c)) => Marked(c)

\* The records begun in the audit files.
Entry(p, f) == [path |-> p, by |-> f.by, n |-> f.n, status |-> f.status]

Starts == [p \in Files |-> {i \in 1..Len(file[p]) : file[p][i].part # "tail"}]

Begun == UNION {{Entry(p, file[p][i]) : i \in Starts[p]} : p \in Files}

Of(t, c, s) == [path |-> c.path, by |-> t, n |-> c.n, status |-> s]

\* What of them a call has begun so far.
RecordInv(t, c) ==
    LET success == Of(t, c, "success") \in Begun
        failure == Of(t, c, "failure") \in Begun
    IN  /\ c.recording = "none" => \A b \in Begun : b.by # t \/ b.n # c.n
        /\ c.recording = "success" => ~failure
        /\ c.recording = "success" /\ c.pc \in {"prepare", "write"} => ~success
        /\ c.recording = "success" /\ c.pc \in {"continue", "close", "return"} => success
        /\ c.recording = "failure" /\ c.pc \in {"prepare", "write"} => ~failure
        /\ c.recording = "failure" /\ c.pc \in {"continue", "close"} => failure
        /\ c.pc = "raised" /\ ~Marked(c) => failure
        /\ success => /\ c.ran = "returned"
                      /\ Marked(c) \/ (c.recording = "success"
                                       /\ c.pc \in {"continue", "close", "return"})
        /\ success \/ failure => c.request.plan = "plain"

\* What is left of a call that ended.
EndedInv(e) ==
    LET c == e.call
        success == Of(e.by, c, "success") \in Begun
        failure == Of(e.by, c, "failure") \in Begun
    IN  /\ success => c.ran = "returned"
        /\ failure /\ c.ran = "returned" => Marked(c)
        /\ success \/ failure => c.request.plan = "plain"
        /\ Refused(c) => c.ran = "no"
        /\ ~Marked(c) => IF c.ran = "returned" THEN success ELSE failure

\* A record is begun once in a file.
BegunOnce ==
    \A p \in Files : \A i, j \in Starts[p] :
        Entry(p, file[p][i]) = Entry(p, file[p][j]) => i = j

\* Done, or refused, and nothing went wrong with it: not to be tried again.
Settles(c) == ((c.ran = "returned" /\ c.success) \/ Refused(c)) /\ ~Marked(c)

\* Calls are numbered as they are made, and so are operations.
Numbered ==
    /\ \A b \in Begun : b.n <= call[b.by].n
    /\ \A e \in ended : /\ e.call.n <= call[e.by].n
                        /\ call[e.by].pc # "idle" => e.call.n < call[e.by].n
                        /\ e.call.operation <= call[e.by].operation
    /\ \A t \in Threads : call[t].operation <= call[t].n

\* No call of an operation follows one that settled it.
RetryInv ==
    \A e \in ended :
        LET c == call[e.by]
        IN  /\ e.call.operation = c.operation
            /\ e.call.n < c.n \/ c.pc # "idle" \/ c.result = "retryable"
            => ~Settles(e.call)

HooksInv ==
    /\ HooksTypeOK
    /\ SandboxInv
    /\ \A t \in Threads : call[t].pc # "idle" => CallInv(call[t])
    /\ \A t \in Threads : call[t].pc # "idle" => RecordInv(t, call[t])
    /\ \A e \in ended : EndedInv(e)
    /\ BegunOnce
    /\ Numbered
    /\ RetryInv
    /\ RerunIsExplained

-----------------------------------------------------------------------------
(***************************************************************************)
(* The audit files: what one write adds to the records begun.              *)
(***************************************************************************)

\* The file a call writes in, and the piece it writes.
LEMMA PieceFacts ==
    ASSUME HooksTypeOK, NEW t \in Threads, NEW part \in {"whole", "head", "tail"}
    PROVE  /\ call[t] \in Calls /\ call[t].path \in Files
           /\ Piece(t, part) \in Pieces
           /\ Piece(t, part).part = part
           /\ Entry(call[t].path, Piece(t, part)) = Of(t, call[t], call[t].recording)
  BY DEF HooksTypeOK, Calls, Pieces, Piece, Entry, Of

\* Where a piece that is added to a file begins a record.
Begins(p, part) == IF part = "tail" THEN {} ELSE {Len(file[p]) + 1}

Grows(p, part) == Starts'[p] = Starts[p] \cup Begins(p, part)

\* Where the lines of each file start once a piece has been added to one.
LEMMA AddsStarts ==
    ASSUME HooksTypeOK, NEW t \in Threads, NEW part \in {"whole", "head", "tail"},
           Adds(t, part), NEW p, p = call[t].path, NEW k, k = Len(file[p]) + 1
    PROVE  /\ p \in Files
           /\ file' \in [Files -> Seq(Pieces)]
           /\ k \in Nat /\ k \notin Starts[p]
           /\ \A q \in Files \ {p} : Starts'[q] = Starts[q] /\ file'[q] = file[q]
           /\ Grows(p, part)
           /\ \A i \in 1..Len(file[p]) : file'[p][i] = file[p][i]
           /\ Entry(p, file'[p][k]) = Of(t, call[t], call[t].recording)
  <1>1. /\ p \in Files /\ Piece(t, part) \in Pieces /\ Piece(t, part).part = part
        /\ file \in [Files -> Seq(Pieces)]
        /\ Entry(p, Piece(t, part)) = Of(t, call[t], call[t].recording)
    BY PieceFacts DEF HooksTypeOK
  <1>2. file' = [file EXCEPT ![p] = Append(@, Piece(t, part))]
    BY DEF Adds
  <1>3. /\ file'[p] = Append(file[p], Piece(t, part)) /\ file[p] \in Seq(Pieces)
        /\ \A q \in Files \ {p} : file'[q] = file[q]
        /\ file' \in [Files -> Seq(Pieces)]
    BY <1>1, <1>2
  <1>4. /\ Len(file'[p]) = k /\ k \in Nat \ {0} /\ file'[p][k] = Piece(t, part)
        /\ \A i \in 1..Len(file[p]) : file'[p][i] = file[p][i]
    BY <1>1, <1>3
  <1>5. Grows(p, part)
    <2>1. Starts'[p] = {i \in 1..Len(file'[p]) : file'[p][i].part # "tail"}
      BY <1>1 DEF Starts
    <2>2. Starts[p] = {i \in 1..Len(file[p]) : file[p][i].part # "tail"}
      BY <1>1 DEF Starts
    <2>3. \A i : i \in 1..k <=> i \in 1..Len(file[p]) \/ i = k
      BY <1>3
    <2>4. part = "tail" => Starts'[p] = Starts[p]
      BY <1>1, <1>4, <2>1, <2>2, <2>3
    <2>5. part # "tail" => Starts'[p] = Starts[p] \cup {k}
      BY <1>1, <1>4, <2>1, <2>2, <2>3
    <2> QED
      BY <2>4, <2>5 DEF Begins, Grows
  <1>6. \A q \in Files \ {p} : Starts'[q] = Starts[q]
    BY <1>3 DEF Starts
  <1>7. k \notin Starts[p]
    BY <1>1, <1>3 DEF Starts
  <1> QED
    BY <1>3, <1>4, <1>5, <1>1, <1>6, <1>7

\* A write begins one record, or none when it is the second half of one.
LEMMA AddsBegun ==
    ASSUME HooksTypeOK, NEW t \in Threads, NEW part \in {"whole", "head", "tail"},
           Adds(t, part)
    PROVE  /\ part = "tail" => Begun' = Begun
           /\ part # "tail" => Begun' = Begun \cup {Of(t, call[t], call[t].recording)}
  <1> PICK p : p = call[t].path
    OBVIOUS
  <1> PICK k : k = Len(file[p]) + 1
    OBVIOUS
  <1> DEFINE Bs(q) == {Entry(q, file[q][i]) : i \in Starts[q]}
  <1>1. /\ p \in Files /\ k \in Nat /\ Starts[p] \subseteq 1..Len(file[p])
        /\ \A q \in Files \ {p} : Starts'[q] = Starts[q] /\ file'[q] = file[q]
        /\ Starts'[p] = Starts[p] \cup Begins(p, part)
        /\ \A i \in 1..Len(file[p]) : file'[p][i] = file[p][i]
        /\ Entry(p, file'[p][k]) = Of(t, call[t], call[t].recording)
    <2>1. p \in Files /\ k \in Nat
      BY AddsStarts
    <2>6. Starts[p] \subseteq 1..Len(file[p])
      BY <2>1 DEF Starts
    <2>2. \A q \in Files \ {p} : Starts'[q] = Starts[q] /\ file'[q] = file[q]
      BY AddsStarts
    <2>3. Grows(p, part)
      BY AddsStarts
    <2>4. \A i \in 1..Len(file[p]) : file'[p][i] = file[p][i]
      BY AddsStarts
    <2>5. Entry(p, file'[p][k]) = Of(t, call[t], call[t].recording)
      BY AddsStarts
    <2> QED
      BY <2>1, <2>2, <2>3, <2>4, <2>5, <2>6 DEF Grows
  <1>2. Begun = UNION {Bs(q) : q \in Files}
    BY DEF Begun
  <1>3. Begun' = UNION {{Entry(q, file'[q][i]) : i \in Starts'[q]} : q \in Files}
    BY DEF Begun
  <1>4. \A q \in Files \ {p} : {Entry(q, file'[q][i]) : i \in Starts'[q]} = Bs(q)
    BY <1>1
  <1>5. /\ part = "tail" => {Entry(p, file'[p][i]) : i \in Starts'[p]} = Bs(p)
        /\ part # "tail" => {Entry(p, file'[p][i]) : i \in Starts'[p]}
                              = Bs(p) \cup {Of(t, call[t], call[t].recording)}
    <2>1. {Entry(p, file'[p][i]) : i \in Starts[p]} = Bs(p)
      BY <1>1
    <2>2. part = "tail" => Begins(p, part) = {}
      BY DEF Begins
    <2>3. part # "tail" => Begins(p, part) = {k}
      BY DEF Begins
    <2>4. {Entry(p, file'[p][i]) : i \in Starts[p] \cup {k}}
            = {Entry(p, file'[p][i]) : i \in Starts[p]} \cup {Entry(p, file'[p][k])}
      OBVIOUS
    <2> HIDE DEF Bs
    <2>5. CASE part = "tail"
      BY <1>1, <2>1, <2>2, <2>5
    <2>6. CASE part # "tail"
      BY <1>1, <2>1, <2>3, <2>4, <2>6
    <2> QED
      BY <2>5, <2>6
  <1> DEFINE Cs(q) == {Entry(q, file'[q][i]) : i \in Starts'[q]}
  <1>6. Begun' = UNION {Cs(q) : q \in Files}
    BY <1>3
  <1>7. \A q \in Files \ {p} : Cs(q) = Bs(q)
    BY <1>4
  <1>8. /\ part = "tail" => Cs(p) = Bs(p)
        /\ part # "tail" => Cs(p) = Bs(p) \cup {Of(t, call[t], call[t].recording)}
    BY <1>5
  <1> HIDE DEF Bs, Cs
  <1>9. p \in Files
    BY <1>1
  <1>10. CASE part = "tail"
    <2>1. \A q \in Files : Cs(q) = Bs(q)
      BY <1>7, <1>8, <1>10
    <2> QED
      BY <1>2, <1>6, <1>10, <2>1
  <1>11. CASE part # "tail"
    BY <1>2, <1>6, <1>7, <1>8, <1>9, <1>11
  <1> QED
    BY <1>10, <1>11

\* A record that has not been begun in its file may be begun.
LEMMA AddsOnce ==
    ASSUME HooksTypeOK, BegunOnce, NEW t \in Threads, NEW part \in {"whole", "head", "tail"},
           part # "tail" => Of(t, call[t], call[t].recording) \notin Begun,
           Adds(t, part)
    PROVE  BegunOnce'
  <1> PICK p : p = call[t].path
    OBVIOUS
  <1> PICK k : k = Len(file[p]) + 1
    OBVIOUS
  <1>1. /\ p \in Files /\ k \in Nat /\ Starts[p] \subseteq 1..Len(file[p])
        /\ \A q \in Files \ {p} : Starts'[q] = Starts[q] /\ file'[q] = file[q]
        /\ Starts'[p] = Starts[p] \cup Begins(p, part)
        /\ \A i \in 1..Len(file[p]) : file'[p][i] = file[p][i]
        /\ Entry(p, file'[p][k]) = Of(t, call[t], call[t].recording)
    <2>1. p \in Files /\ k \in Nat
      BY AddsStarts
    <2>6. Starts[p] \subseteq 1..Len(file[p])
      BY <2>1 DEF Starts
    <2>2. \A q \in Files \ {p} : Starts'[q] = Starts[q] /\ file'[q] = file[q]
      BY AddsStarts
    <2>3. Grows(p, part)
      BY AddsStarts
    <2>4. \A i \in 1..Len(file[p]) : file'[p][i] = file[p][i]
      BY AddsStarts
    <2>5. Entry(p, file'[p][k]) = Of(t, call[t], call[t].recording)
      BY AddsStarts, SMTT(60)
    <2> QED
      BY <2>1, <2>2, <2>3, <2>4, <2>5, <2>6 DEF Grows
  <1> SUFFICES ASSUME NEW q \in Files, NEW i \in Starts'[q], NEW j \in Starts'[q],
                      Entry(q, file'[q][i]) = Entry(q, file'[q][j])
               PROVE  i = j
    BY DEF BegunOnce
  <1>2. \A m \in Starts[q] : Entry(q, file[q][m]) \in Begun
    BY DEF Begun
  <1>3. CASE q # p
    BY <1>1, <1>3 DEF BegunOnce
  <1>4. CASE q = p
    <2>1. \A m \in Starts[p] : file'[p][m] = file[p][m]
      BY <1>1
    <2>2. ASSUME i \in Starts[p], j \in Starts[p]
          PROVE  i = j
      <3>1. Entry(p, file[p][i]) = Entry(p, file[p][j])
        BY <1>4, <2>1, <2>2
      <3> QED
        BY <1>1, <2>2, <3>1 DEF BegunOnce
    <2>3. CASE part = "tail"
      BY <1>1, <1>4, <2>2, <2>3 DEF Begins
    <2>4. CASE part # "tail"
      <3>1. \A m \in Starts[p] : Entry(p, file'[p][m]) # Entry(p, file'[p][k])
        BY <1>1, <1>2, <1>4, <2>1, <2>4
      <3>2. i \in Starts[p] \/ i = k
        BY <1>1, <1>4, <2>4 DEF Begins
      <3>3. j \in Starts[p] \/ j = k
        BY <1>1, <1>4, <2>4 DEF Begins
      <3> QED
        BY <1>4, <2>2, <3>1, <3>2, <3>3
    <2> QED
      BY <2>3, <2>4
  <1> QED
    BY <1>3, <1>4

\* Records are begun by threads, in calls that have a number.
LEMMA BegunByThreads ==
    ASSUME HooksTypeOK
    PROVE  \A b \in Begun : b.by \in Threads /\ b.n \in Nat
  <1> SUFFICES ASSUME NEW b \in Begun
               PROVE  b.by \in Threads /\ b.n \in Nat
    OBVIOUS
  <1>1. PICK p \in Files : \E i \in Starts[p] : b = Entry(p, file[p][i])
    BY DEF Begun
  <1>2. PICK i \in Starts[p] : b = Entry(p, file[p][i])
    BY <1>1
  <1>3. i \in 1..Len(file[p]) /\ file[p] \in Seq(Pieces)
    BY DEF Starts, HooksTypeOK
  <1>4. file[p][i] \in Pieces
    BY <1>3
  <1> QED
    BY <1>2, <1>4 DEF Entry, Pieces

\* What is not written to does not change.
LEMMA BegunKept ==
    ASSUME UNCHANGED file
    PROVE  Begun' = Begun /\ (BegunOnce => BegunOnce')
  BY DEF Begun, BegunOnce, Starts

-----------------------------------------------------------------------------
(***************************************************************************)
(* What one thread does in its call leaves the rest alone.                 *)
(***************************************************************************)

\* A call that goes on without a write, with its sandbox and its records in order.
LEMMA CallMoves ==
    ASSUME HooksInv, NEW t \in Threads, NEW c \in Calls,
           call[t].pc # "idle", c.pc # "idle",
           c.n = call[t].n, c.operation = call[t].operation,
           Becomes(t, c), UNCHANGED <<bound, file, ended>>,
           builtins' \in {"full", "safe", "none"}, env' \in Paths \cup {None},
           saved' \in Paths \cup {None}, lock' \in Threads \cup {NoThread},
           SandboxInv', CallInv(c), RecordInv(t, c)
    PROVE  HooksInv'
  <1>1. /\ call' \in [Threads -> Calls] /\ call'[t] = c
        /\ \A u \in Threads \ {t} : call'[u] = call[u]
    BY DEF HooksInv, HooksTypeOK, Becomes
  <1>2. HooksTypeOK'
    BY <1>1 DEF HooksInv, HooksTypeOK
  <1>3. Begun' = Begun /\ BegunOnce'
    BY BegunKept DEF HooksInv
  <1>4. \A u \in Threads : call'[u].pc # "idle" => CallInv(call'[u])
    BY <1>1 DEF HooksInv
  <1>5. \A u \in Threads : call'[u].pc # "idle" => RecordInv(u, call'[u])
    BY <1>1 DEF HooksInv
  <1>6. \A u \in Threads : call'[u].pc # "idle" => RecordInv(u, call[u])'
    BY <1>3, <1>5 DEF RecordInv
  <1>7. (\A e \in ended : EndedInv(e))'
    BY <1>3 DEF HooksInv, EndedInv
  <1>8. Numbered'
    <2>1. \A u \in Threads : call'[u].n = call[u].n /\ call'[u].operation = call[u].operation
                             /\ (call'[u].pc = "idle" <=> call[u].pc = "idle")
      BY <1>1
    <2>2. \A b \in Begun : b.by \in Threads
      BY BegunByThreads DEF HooksInv
    <2>3. \A e \in ended : e.by \in Threads
      BY DEF HooksInv, HooksTypeOK
    <2> QED
      BY <1>3, <2>1, <2>2, <2>3 DEF HooksInv, Numbered
  <1>9. RetryInv'
    <2>1. \A e \in ended : e.by \in Threads
      BY DEF HooksInv, HooksTypeOK
    <2> QED
      BY <1>1, <2>1 DEF HooksInv, RetryInv
  <1>10. RerunIsExplained'
    BY DEF HooksInv, RerunIsExplained
  <1> QED
    BY <1>2, <1>3, <1>4, <1>6, <1>7, <1>8, <1>9, <1>10 DEF HooksInv

\* Outside the sandbox a step of a call does not touch what the sandbox changes.
LEMMA OutsideTheSandbox ==
    ASSUME SandboxInv, NEW t \in Threads, NEW c, call \in [Threads -> Calls],
           call[t].pc \notin InSandbox, c.pc \notin InSandbox,
           Becomes(t, c), UNCHANGED <<builtins, env, lock, saved, wanted>>
    PROVE  SandboxInv'
  <1>1. call'[t] = c /\ \A u \in Threads \ {t} : call'[u] = call[u]
    BY DEF Becomes
  <1> QED
    BY <1>1 DEF SandboxInv

\* Such a step.
LEMMA QuietMoves ==
    ASSUME HooksInv, NEW t \in Threads, NEW c \in Calls,
           call[t].pc \notin InSandbox \cup {"idle"}, c.pc \notin InSandbox \cup {"idle"},
           c.n = call[t].n, c.operation = call[t].operation, Becomes(t, c),
           UNCHANGED <<bound, builtins, env, lock, saved, file, ended, wanted>>,
           CallInv(c), RecordInv(t, c)
    PROVE  HooksInv'
  <1>1. SandboxInv'
    BY OutsideTheSandbox DEF HooksInv, HooksTypeOK
  <1> QED
    BY <1>1, CallMoves DEF HooksInv, HooksTypeOK

\* A call that records nothing yet has begun no record.
LEMMA NothingBegun ==
    ASSUME HooksInv, NEW t \in Threads, NEW c \in Calls, call[t].pc # "idle",
           call[t].recording = "none", c.n = call[t].n, c.recording = "none",
           c.pc = "raised" => Marked(c)
    PROVE  RecordInv(t, c)
  <1>1. \A b \in Begun : b.by # t \/ b.n # c.n
    BY DEF HooksInv, RecordInv
  <1>2. \A s : Of(t, c, s) \notin Begun
    BY <1>1 DEF Of
  <1> QED
    BY <1>1, <1>2 DEF RecordInv

-----------------------------------------------------------------------------
(***************************************************************************)
(* The actions, in the order of a call.                                    *)
(***************************************************************************)

LEMMA BeginKeepsInv ==
    ASSUME HooksInv, NEW t \in Threads, Begin(t)
    PROVE  HooksInv'
  <1>1. PICK c : /\ Becomes(t, c) /\ c \in Calls
                 /\ c.pc = "resolve" /\ c.n = call[t].n + 1
                 /\ c.recording = "none" /\ c.ran = "no" /\ c.error = "none"
                 /\ \/ c.operation = call[t].n + 1
                    \/ c.operation = call[t].operation /\ call[t].result = "retryable"
    <2>1. /\ call[t].n + 1 \in Nat /\ call[t].operation \in Nat
          /\ call[t].request \in Requests \cup {None} /\ DefaultPath \in Files
          /\ \A q \in bound.asks[t] : q \in Requests
      BY HooksAssumption DEF HooksInv, HooksTypeOK, Files, Calls
    <2>2. PICK o \in Nat, q \in Requests \cup {None} :
              /\ Becomes(t, [Idle EXCEPT !.pc = "resolve", !.n = call[t].n + 1,
                                         !.operation = o, !.request = q])
              /\ \/ o = call[t].n + 1
                 \/ o = call[t].operation /\ call[t].result = "retryable"
      BY <2>1 DEF Begin
    <2>3. PICK c : c = [Idle EXCEPT !.pc = "resolve", !.n = call[t].n + 1,
                                    !.operation = o, !.request = q]
      OBVIOUS
    <2>4. c = [pc |-> "resolve", n |-> call[t].n + 1, operation |-> o, request |-> q,
               path |-> DefaultPath, ran |-> "no", success |-> FALSE, error |-> "none",
               recording |-> "none", disturbed |-> FALSE, failed |-> FALSE,
               result |-> "none"]
      BY <2>3 DEF Idle
    <2>5. c \in Calls
      BY <2>1, <2>4 DEF Calls, Places
    <2>6. /\ c.pc = "resolve" /\ c.n = call[t].n + 1 /\ c.operation = o
          /\ c.recording = "none" /\ c.ran = "no" /\ c.error = "none"
      BY <2>4
    <2>7. Becomes(t, c)
      BY <2>2, <2>3
    <2> QED
      BY <2>2, <2>5, <2>6, <2>7
  <1>2. /\ call[t].pc = "idle" /\ call[t] \in Calls
        /\ UNCHANGED <<bound, builtins, env, lock, saved, file, ended, wanted>>
    BY DEF Begin, At, HooksInv, HooksTypeOK
  <1>3. /\ call' \in [Threads -> Calls] /\ call'[t] = c
        /\ \A u \in Threads \ {t} : call'[u] = call[u]
    BY <1>1 DEF HooksInv, HooksTypeOK, Becomes
  <1>4. HooksTypeOK'
    BY <1>2, <1>3 DEF HooksInv, HooksTypeOK
  <1>5. SandboxInv'
    BY <1>1, <1>2, OutsideTheSandbox DEF HooksInv, HooksTypeOK, InSandbox
  <1>6. Begun' = Begun /\ BegunOnce'
    BY <1>2, BegunKept DEF HooksInv
  <1>7. CallInv(c)
    BY <1>1 DEF CallInv, Before, After, Writing, Made, Refused
  <1>8. RecordInv(t, c)
    <2>1. \A b \in Begun : b.by = t => b.n <= call[t].n /\ b.n \in Nat
      BY BegunByThreads DEF HooksInv, Numbered
    <2>2. \A b \in Begun : b.by # t \/ b.n # c.n
      BY <1>1, <1>2, <2>1 DEF Calls
    <2>3. \A s : Of(t, c, s) \notin Begun
      BY <2>2 DEF Of
    <2> QED
      BY <1>1, <2>2, <2>3 DEF RecordInv
  <1>9. \A u \in Threads : call'[u].pc # "idle" => CallInv(call'[u])
    BY <1>3, <1>7 DEF HooksInv
  <1>10. \A u \in Threads : call'[u].pc # "idle" => RecordInv(u, call'[u])
    BY <1>3, <1>8 DEF HooksInv
  <1>11. \A u \in Threads : call'[u].pc # "idle" => RecordInv(u, call[u])'
    BY <1>6, <1>10 DEF RecordInv
  <1>12. (\A e \in ended : EndedInv(e))'
    BY <1>2, <1>6 DEF HooksInv, EndedInv
  <1>13. \A e \in ended : e.by \in Threads /\ e.call \in Calls
    BY DEF HooksInv, HooksTypeOK
  <1>14. Numbered'
    <2>1. \A b \in Begun : b.n <= call'[b.by].n
      <3>1. SUFFICES ASSUME NEW b \in Begun PROVE b.n <= call'[b.by].n
        OBVIOUS
      <3>2. b.by \in Threads /\ b.n \in Nat /\ b.n <= call[b.by].n
        BY BegunByThreads DEF HooksInv, Numbered
      <3> QED
        BY <1>1, <1>2, <1>3, <3>2 DEF Calls
    <2>2. ASSUME NEW e \in ended
          PROVE  /\ e.call.n <= call'[e.by].n
                 /\ call'[e.by].pc # "idle" => e.call.n < call'[e.by].n
                 /\ e.call.operation <= call'[e.by].operation
      <3>1. /\ e.call.n <= call[e.by].n /\ e.call.operation <= call[e.by].operation
            /\ call[e.by].pc # "idle" => e.call.n < call[e.by].n
            /\ call[t].operation <= call[t].n
        BY DEF HooksInv, Numbered
      <3>2. e.by \in Threads /\ e.call.n \in Nat /\ e.call.operation \in Nat
            /\ call[t].n \in Nat /\ call[t].operation \in Nat
        BY <1>2, <1>13 DEF Calls
      <3>3. CASE e.by # t
        BY <1>3, <3>1, <3>2, <3>3
      <3>4. CASE e.by = t
        BY <1>1, <1>3, <3>1, <3>2, <3>4
      <3> QED
        BY <3>3, <3>4
    <2>3. \A u \in Threads : call'[u].operation <= call'[u].n
      <3>1. call[t].operation <= call[t].n /\ call[t].n \in Nat /\ call[t].operation \in Nat
        BY <1>2 DEF HooksInv, Numbered, Calls
      <3>2. c.operation <= c.n
        BY <1>1, <3>1
      <3> QED
        BY <1>3, <3>2 DEF HooksInv, Numbered
    <2> QED
      BY <1>2, <1>6, <2>1, <2>2, <2>3 DEF Numbered
  <1>15. RetryInv'
    <2>1. ASSUME NEW e \in ended, e.call.operation = call'[e.by].operation
          PROVE  ~Settles(e.call) \/ e.by # t
      <3>1. SUFFICES ASSUME e.by = t PROVE ~Settles(e.call)
        OBVIOUS
      <3>2. e.call.operation <= call[t].operation /\ call[t].operation <= call[t].n
        BY <3>1 DEF HooksInv, Numbered
      <3>3. e.call.operation \in Nat /\ call[t].operation \in Nat /\ call[t].n \in Nat
        BY <1>2, <1>13 DEF Calls
      <3>4. c.operation = call[t].operation /\ call[t].result = "retryable"
        BY <1>1, <1>3, <2>1, <3>1, <3>2, <3>3
      <3>5. e.call.operation = call[e.by].operation
        BY <1>3, <2>1, <3>1, <3>4
      <3> QED
        BY <3>1, <3>4, <3>5 DEF HooksInv, RetryInv
    <2>2. ASSUME NEW e \in ended, e.by # t
          PROVE  call'[e.by] = call[e.by]
      BY <1>3, <1>13, <2>2
    <2> QED
      BY <1>2, <2>1, <2>2 DEF HooksInv, RetryInv
  <1>16. RerunIsExplained'
    BY <1>2 DEF HooksInv, RerunIsExplained
  <1> QED
    BY <1>4, <1>5, <1>6, <1>9, <1>11, <1>12, <1>14, <1>15, <1>16 DEF HooksInv

\* What is known of a thread in a call.
LEMMA InACall ==
    ASSUME HooksInv, NEW t \in Threads, call[t].pc # "idle"
    PROVE  /\ call[t] \in Calls /\ CallInv(call[t]) /\ RecordInv(t, call[t])
           /\ env \in Paths \cup {None} /\ DefaultPath \in Files
           /\ \A p \in Paths : p \in Files
  BY DEF HooksInv, HooksTypeOK, Files

LEMMA ResolveKeepsInv ==
    ASSUME HooksInv, NEW t \in Threads, Resolve(t)
    PROVE  HooksInv'
  <1>1. /\ call[t].pc = "resolve" /\ call[t] \in Calls /\ CallInv(call[t])
        /\ UNCHANGED <<bound, builtins, env, lock, saved, file, ended, wanted>>
    BY InACall DEF Resolve, At
  <1>2. call[t].ran = "no" /\ call[t].recording = "none" /\ call[t].error = "none"
    BY <1>1 DEF CallInv
  <1>3. PICK c : /\ c \in Calls /\ Becomes(t, c)
                 /\ c.n = call[t].n /\ c.operation = call[t].operation
                 /\ c.ran = "no" /\ c.recording = "none"
                 /\ \/ c.pc = "validate" /\ c.error = "none"
                    \/ c.pc = "raised" /\ c.error # "none" /\ Marked(c)
    <2>1. CASE builtins # "full"
      <3>1. PICK c : c = Disturbed(Raised(t, "runtime"))
        OBVIOUS
      <3>2. /\ c \in Calls /\ c.n = call[t].n /\ c.operation = call[t].operation
            /\ c.ran = "no" /\ c.recording = "none"
            /\ c.pc = "raised" /\ c.error = "runtime" /\ c.disturbed
        BY <1>1, <1>2, <3>1 DEF Calls, Places, Disturbed, Raised
      <3> QED
        BY <2>1, <3>1, <3>2 DEF Resolve, Marked
    <2>2. CASE builtins = "full" /\ call[t].request.plan = "uncopyable"
      <3>1. PICK error \in {"value", "runtime"} :
                Becomes(t, [Raised(t, error) EXCEPT !.failed = TRUE])
        BY <2>2 DEF Resolve
      <3>2. PICK c : c = [Raised(t, error) EXCEPT !.failed = TRUE]
        OBVIOUS
      <3>3. /\ c \in Calls /\ c.n = call[t].n /\ c.operation = call[t].operation
            /\ c.ran = "no" /\ c.recording = "none"
            /\ c.pc = "raised" /\ c.error # "none" /\ c.failed
        BY <1>1, <1>2, <3>2 DEF Calls, Places, Raised
      <3> QED
        BY <3>1, <3>2, <3>3 DEF Marked
    <2>3. CASE builtins = "full" /\ call[t].request.plan # "uncopyable"
      <3>1. PICK p \in Files : p = AuditPath
        BY <1>1, InACall DEF AuditPath
      <3>2. PICK c : c = [call[t] EXCEPT !.pc = "validate", !.path = p]
        OBVIOUS
      <3>3. Becomes(t, c)
        BY <2>3, <3>1, <3>2 DEF Resolve
      <3>4. /\ c \in Calls /\ c.n = call[t].n /\ c.operation = call[t].operation
            /\ c.ran = "no" /\ c.recording = "none"
            /\ c.pc = "validate" /\ c.error = "none"
        BY <1>1, <1>2, <3>2 DEF Calls, Places
      <3> QED
        BY <3>3, <3>4
    <2> QED
      BY <2>1, <2>2, <2>3
  <1>4. CallInv(c)
    BY <1>3 DEF CallInv, Before, After, Writing, Made
  <1>5. RecordInv(t, c)
    BY <1>1, <1>2, <1>3, NothingBegun
  <1> QED
    BY <1>1, <1>3, <1>4, <1>5, QuietMoves DEF InSandbox

LEMMA ValidateKeepsInv ==
    ASSUME HooksInv, NEW t \in Threads, Validate(t)
    PROVE  HooksInv'
  <1>1. /\ call[t].pc = "validate" /\ call[t] \in Calls /\ CallInv(call[t])
        /\ UNCHANGED <<bound, builtins, env, lock, saved, file, ended, wanted>>
    BY InACall DEF Validate, At
  <1>2. call[t].ran = "no" /\ call[t].recording = "none" /\ call[t].error = "none"
    BY <1>1 DEF CallInv
  <1>3. PICK c : /\ c \in Calls /\ Becomes(t, c)
                 /\ c.n = call[t].n /\ c.operation = call[t].operation
                 /\ c.ran = "no" /\ c.recording = "none"
                 /\ \/ c.pc = "caught" /\ c.error = "runtime" /\ c.disturbed
                    \/ c.pc = "caught" /\ c.error = "policy"
                    \/ c.pc = "engine" /\ c.error = "none" /\ ~Refused(c)
    <2>1. CASE builtins # "full"
      <3>1. PICK c : c = Disturbed(Caught(t, "runtime"))
        OBVIOUS
      <3>2. /\ c \in Calls /\ c.n = call[t].n /\ c.operation = call[t].operation
            /\ c.ran = "no" /\ c.recording = "none"
            /\ c.pc = "caught" /\ c.error = "runtime" /\ c.disturbed
        BY <1>1, <1>2, <3>1 DEF Calls, Places, Before, Disturbed, Caught
      <3> QED
        BY <2>1, <3>1, <3>2 DEF Validate
    <2>2. CASE builtins = "full" /\ Refused(call[t])
      <3>1. PICK c : c = Caught(t, "policy")
        OBVIOUS
      <3>2. /\ c \in Calls /\ c.n = call[t].n /\ c.operation = call[t].operation
            /\ c.ran = "no" /\ c.recording = "none"
            /\ c.pc = "caught" /\ c.error = "policy"
        BY <1>1, <1>2, <3>1 DEF Calls, Places, Before, Caught
      <3> QED
        BY <2>2, <3>1, <3>2 DEF Validate, Refused
    <2>3. CASE builtins = "full" /\ ~Refused(call[t])
      <3>1. PICK c : c = [call[t] EXCEPT !.pc = "engine"]
        OBVIOUS
      <3>2. /\ c \in Calls /\ c.n = call[t].n /\ c.operation = call[t].operation
            /\ c.ran = "no" /\ c.recording = "none"
            /\ c.pc = "engine" /\ c.error = "none" /\ c.request = call[t].request
        BY <1>1, <1>2, <3>1 DEF Calls, Places, Before
      <3> QED
        BY <2>3, <3>1, <3>2 DEF Validate, Refused
    <2> QED
      BY <2>1, <2>2, <2>3
  <1>4. CallInv(c)
    BY <1>3 DEF CallInv, Before, After, Writing, Made, Marked
  <1>5. RecordInv(t, c)
    BY <1>1, <1>2, <1>3, NothingBegun
  <1> QED
    BY <1>1, <1>3, <1>4, <1>5, QuietMoves DEF InSandbox

LEMMA RunEngineKeepsInv ==
    ASSUME HooksInv, NEW t \in Threads, RunEngine(t)
    PROVE  HooksInv'
  <1>1. /\ call[t].pc = "engine" /\ call[t] \in Calls /\ CallInv(call[t])
        /\ UNCHANGED <<bound, builtins, env, lock, saved, file, ended, wanted>>
    BY InACall DEF RunEngine, At
  <1>2. /\ call[t].ran = "no" /\ call[t].recording = "none" /\ call[t].error = "none"
        /\ ~Refused(call[t])
    BY <1>1 DEF CallInv, Before
  <1> DEFINE Good(c) ==
        /\ c \in Calls /\ c.n = call[t].n /\ c.operation = call[t].operation
        /\ c.recording = "none" /\ c.request = call[t].request
        /\ \/ c.pc = "enter" /\ c.ran = "no" /\ c.error = "none"
           \/ c.pc = "report" /\ c.ran = "returned" /\ c.error = "none"
           \/ c.pc = "caught" /\ c.ran = "raised" /\ c.error # "none"
  <1>3. PICK c : Becomes(t, c) /\ Good(c)
    <2>1. CASE Becomes(t, [call[t] EXCEPT !.pc = "enter"])
      <3>1. PICK c : c = [call[t] EXCEPT !.pc = "enter"]
        OBVIOUS
      <3>2. Good(c)
        BY <1>1, <1>2, <3>1 DEF Calls, Places, Before
      <3> QED
        BY <2>1, <3>1, <3>2
    <2>2. CASE \E success \in BOOLEAN :
                  Becomes(t, [[call[t] EXCEPT !.ran = "returned"]
                                  EXCEPT !.pc = "report", !.success = success])
      <3>1. PICK success \in BOOLEAN :
                  Becomes(t, [[call[t] EXCEPT !.ran = "returned"]
                                  EXCEPT !.pc = "report", !.success = success])
        BY <2>2
      <3>2. PICK c : c = [[call[t] EXCEPT !.ran = "returned"]
                              EXCEPT !.pc = "report", !.success = success]
        OBVIOUS
      <3>3. Good(c)
        BY <1>1, <1>2, <3>2 DEF Calls, Places, After
      <3> QED
        BY <3>1, <3>2, <3>3
    <2>3. CASE \E error \in {"value", "runtime"} :
                  Becomes(t, [[call[t] EXCEPT !.ran = "raised"]
                                  EXCEPT !.pc = "caught", !.error = error])
      <3>1. PICK error \in {"value", "runtime"} :
                  Becomes(t, [[call[t] EXCEPT !.ran = "raised"]
                                  EXCEPT !.pc = "caught", !.error = error])
        BY <2>3
      <3>2. PICK c : c = [[call[t] EXCEPT !.ran = "raised"]
                              EXCEPT !.pc = "caught", !.error = error]
        OBVIOUS
      <3>3. Good(c)
        BY <1>1, <1>2, <3>2 DEF Calls, Places
      <3> QED
        BY <3>1, <3>2, <3>3
    <2>4. CASE Becomes(t, [Disturbed([call[t] EXCEPT !.ran = "returned"])
                               EXCEPT !.pc = "report", !.success = FALSE])
      <3>1. PICK c : c = [Disturbed([call[t] EXCEPT !.ran = "returned"])
                              EXCEPT !.pc = "report", !.success = FALSE]
        OBVIOUS
      <3>2. Good(c)
        BY <1>1, <1>2, <3>1 DEF Calls, Places, After, Disturbed
      <3> QED
        BY <2>4, <3>1, <3>2
    <2>5. CASE Becomes(t, [Disturbed([call[t] EXCEPT !.ran = "raised"])
                               EXCEPT !.pc = "caught", !.error = "runtime"])
      <3>1. PICK c : c = [Disturbed([call[t] EXCEPT !.ran = "raised"])
                              EXCEPT !.pc = "caught", !.error = "runtime"]
        OBVIOUS
      <3>2. Good(c)
        BY <1>1, <1>2, <3>1 DEF Calls, Places, Disturbed
      <3> QED
        BY <2>5, <3>1, <3>2
    <2> HIDE DEF Good
    <2> QED
      BY <2>1, <2>2, <2>3, <2>4, <2>5 DEF RunEngine
  <1>4. CallInv(c)
    BY <1>2, <1>3 DEF CallInv, Before, After, Writing, Made, Marked, Refused
  <1>5. RecordInv(t, c)
    BY <1>1, <1>2, <1>3, NothingBegun
  <1> QED
    BY <1>1, <1>3, <1>4, <1>5, QuietMoves DEF InSandbox

\* A step in the sandbox, or into it or out of it, with nothing recorded yet.
LEMMA SandboxStep ==
    ASSUME HooksInv, NEW t \in Threads, NEW pc \in Places, NEW how, NEW success \in BOOLEAN,
           call[t].pc \in {"enter"} \cup InSandbox, pc \in InSandbox \cup {"report"},
           how = IF pc \in Before THEN "no" ELSE "returned",
           Becomes(t, [call[t] EXCEPT !.pc = pc, !.ran = how, !.success = success]),
           UNCHANGED <<bound, file, ended, wanted>>,
           builtins' \in {"full", "safe", "none"}, env' \in Paths \cup {None},
           saved' \in Paths \cup {None},
           \/ lock' = t /\ pc # "report"
           \/ lock' = NoThread /\ pc = "report",
           pc = "report" => builtins' = "full" /\ env' \in wanted,
           pc # "report" =>
               /\ pc \in {"restrict", "refill"} => builtins' = "none"
               /\ pc \in {"handler", "restore"} => builtins' = "safe"
               /\ pc \notin {"restrict", "refill", "handler", "restore"} => builtins' = "full"
               /\ saved' \in wanted
               /\ env' \in wanted \/ (pc = "restore env" /\ env' = None),
           call[t].pc = "enter" => lock = NoThread
    PROVE  HooksInv'
  <1>1. call[t] \in Calls /\ CallInv(call[t]) /\ call[t].pc # "idle"
    BY InACall DEF InSandbox
  <1>2. /\ call[t].recording = "none" /\ call[t].error = "none" /\ ~Refused(call[t])
    BY <1>1 DEF CallInv, Before, After, InSandbox
  <1>3. PICK c : c = [call[t] EXCEPT !.pc = pc, !.ran = how, !.success = success]
    OBVIOUS
  <1>4. how \in {"no", "returned"}
    OBVIOUS
  <1>5. /\ c \in Calls /\ c.n = call[t].n /\ c.operation = call[t].operation
        /\ c.recording = "none" /\ c.error = "none" /\ c.request = call[t].request
        /\ c.pc = pc /\ c.ran = how
    BY <1>1, <1>2, <1>3, <1>4 DEF Calls
  <1>6. Becomes(t, c)
    BY <1>3
  <1>7. CallInv(c)
    BY <1>2, <1>5 DEF CallInv, Before, After, Writing, Made, Marked, Refused, InSandbox
  <1>8. RecordInv(t, c)
    BY <1>1, <1>2, <1>5, NothingBegun DEF InSandbox
  <1>9. call'[t] = c /\ \A u \in Threads \ {t} : call'[u] = call[u]
    BY <1>6 DEF Becomes, HooksInv, HooksTypeOK
  <1>10. SandboxInv'
    <2>1. \A u \in Threads \ {t} : call[u].pc \notin InSandbox /\ lock # u
      <3>1. lock = NoThread \/ lock = t
        BY DEF HooksInv, SandboxInv
      <3>2. \A u \in Threads \ {t} : lock # u
        BY <3>1, HooksAssumption
      <3> QED
        BY <3>2 DEF HooksInv, SandboxInv
    <2>2. \A u \in Threads \ {t} : call'[u].pc \notin InSandbox /\ lock' # u
      BY <1>9, <2>1, HooksAssumption
    <2>3. call'[t].pc \in InSandbox <=> lock' = t
      BY <1>5, <1>9, HooksAssumption DEF InSandbox
    <2>4. \A u \in Threads : call'[u].pc \in InSandbox <=> lock' = u
      BY <2>2, <2>3
    <2>5. lock' = NoThread => builtins' = "full" /\ env' \in wanted'
      BY HooksAssumption
    <2>6. lock' = t =>
            /\ builtins' = CASE call'[t].pc \in {"restrict", "refill"}  -> "none"
                             [] call'[t].pc \in {"handler", "restore"}  -> "safe"
                             [] OTHER                                   -> "full"
            /\ saved' \in wanted'
            /\ env' \in wanted' \/ (call'[t].pc = "restore env" /\ env' = None)
      BY <1>5, <1>9, HooksAssumption
    <2> QED
      BY <2>2, <2>4, <2>5, <2>6 DEF SandboxInv
  <1> QED
    BY <1>1, <1>5, <1>6, <1>7, <1>8, <1>10, CallMoves DEF InSandbox

LEMMA EnterSandboxKeepsInv ==
    ASSUME HooksInv, NEW t \in Threads, EnterSandbox(t)
    PROVE  HooksInv'
  <1>1. /\ call[t].pc = "enter" /\ call[t] \in Calls /\ CallInv(call[t])
        /\ UNCHANGED <<bound, builtins, env, file, ended, wanted>>
        /\ lock = NoThread /\ lock' = t /\ saved' = env
        /\ Becomes(t, [call[t] EXCEPT !.pc = "sandbox"])
    BY InACall DEF EnterSandbox, At
  <1>2. /\ builtins = "full" /\ env \in wanted
        /\ env \in Paths \cup {None} /\ builtins \in {"full", "safe", "none"}
    BY <1>1 DEF HooksInv, HooksTypeOK, SandboxInv
  <1>3. call[t].ran = "no" /\ call[t].success \in BOOLEAN
    BY <1>1 DEF CallInv, Before, Calls
  <1>4. [call[t] EXCEPT !.pc = "sandbox"]
          = [call[t] EXCEPT !.pc = "sandbox", !.ran = "no", !.success = call[t].success]
    BY <1>1, <1>3 DEF Calls
  <1>5. Becomes(t, [call[t] EXCEPT !.pc = "sandbox", !.ran = "no", !.success = call[t].success])
    BY <1>1, <1>4
  <1> QED
    BY <1>1, <1>2, <1>3, <1>5, SandboxStep DEF InSandbox, Before, Places

\* The thread in the sandbox holds the lock and what it saved.
LEMMA InTheSandbox ==
    ASSUME HooksInv, NEW t \in Threads, call[t].pc \in InSandbox
    PROVE  /\ call[t] \in Calls /\ call[t].success \in BOOLEAN
           /\ call[t].ran = IF call[t].pc \in Before THEN "no" ELSE "returned"
           /\ lock = t /\ saved \in wanted
           /\ env \in wanted \/ (call[t].pc = "restore env" /\ env = None)
           /\ env \in Paths \cup {None} /\ saved \in Paths \cup {None}
           /\ builtins \in {"full", "safe", "none"}
           /\ call[t].pc \in {"restrict", "refill"} => builtins = "none"
           /\ call[t].pc \in {"handler", "restore"} => builtins = "safe"
           /\ call[t].pc \notin {"restrict", "refill", "handler", "restore"}
                => builtins = "full"
  <1>1. call[t] \in Calls /\ CallInv(call[t])
    BY InACall DEF InSandbox
  <1>2. lock = t
    BY DEF HooksInv, SandboxInv
  <1>3. /\ call[t].success \in BOOLEAN
        /\ call[t].ran = IF call[t].pc \in Before THEN "no" ELSE "returned"
    BY <1>1 DEF CallInv, Calls, InSandbox, Before, After
  <1>4. /\ builtins = CASE call[t].pc \in {"restrict", "refill"}  -> "none"
                        [] call[t].pc \in {"handler", "restore"}  -> "safe"
                        [] OTHER                                  -> "full"
        /\ saved \in wanted
        /\ env \in wanted \/ (call[t].pc = "restore env" /\ env = None)
    BY <1>2 DEF HooksInv, SandboxInv
  <1> QED
    BY <1>1, <1>2, <1>3, <1>4 DEF HooksInv, HooksTypeOK

LEMMA ClearBuiltinsKeepsInv ==
    ASSUME HooksInv, NEW t \in Threads, ClearBuiltins(t)
    PROVE  HooksInv'
  <1>1. /\ call[t].pc \in {"sandbox", "restore"} /\ call[t].pc \in InSandbox
        /\ UNCHANGED <<bound, env, lock, saved, file, ended, wanted>> /\ builtins' = "none"
    BY DEF ClearBuiltins, At, InSandbox
  <1>2. PICK pc : pc = IF call[t].pc = "sandbox" THEN "restrict" ELSE "refill"
    OBVIOUS
  <1>3. PICK how : how = call[t].ran
    OBVIOUS
  <1>4. call[t] \in Calls /\ call[t].success \in BOOLEAN
    BY <1>1, InTheSandbox
  <1>5. Becomes(t, [call[t] EXCEPT !.pc = pc])
    BY <1>2, <1>4 DEF ClearBuiltins, Calls
  <1>6. [call[t] EXCEPT !.pc = pc]
          = [call[t] EXCEPT !.pc = pc, !.ran = how, !.success = call[t].success]
    BY <1>3, <1>4 DEF Calls
  <1>7. Becomes(t, [call[t] EXCEPT !.pc = pc, !.ran = how, !.success = call[t].success])
    BY <1>5, <1>6
  <1>8. pc \in {"restrict", "refill"} /\ how = IF pc \in Before THEN "no" ELSE "returned"
    BY <1>1, <1>2, <1>3, InTheSandbox DEF Before
  <1>9. lock = t /\ saved \in wanted /\ env \in wanted
        /\ env \in Paths \cup {None} /\ saved \in Paths \cup {None}
    BY <1>1, InTheSandbox
  <1> QED
    BY <1>1, <1>4, <1>7, <1>8, <1>9, SandboxStep DEF InSandbox, Places, Before, After

LEMMA RestrictBuiltinsKeepsInv ==
    ASSUME HooksInv, NEW t \in Threads, RestrictBuiltins(t)
    PROVE  HooksInv'
  <1>1. /\ call[t].pc = "restrict" /\ call[t].pc \in InSandbox
        /\ UNCHANGED <<bound, env, lock, saved, file, ended, wanted>> /\ builtins' = "safe"
        /\ Becomes(t, [call[t] EXCEPT !.pc = "handler"])
    BY DEF RestrictBuiltins, At, InSandbox
  <1>2. /\ call[t] \in Calls /\ call[t].success \in BOOLEAN /\ call[t].ran = "no"
        /\ lock = t /\ saved \in wanted /\ env \in wanted
        /\ env \in Paths \cup {None} /\ saved \in Paths \cup {None}
    BY <1>1, InTheSandbox DEF Before
  <1>3. [call[t] EXCEPT !.pc = "handler"]
          = [call[t] EXCEPT !.pc = "handler", !.ran = "no", !.success = call[t].success]
    BY <1>2 DEF Calls
  <1>4. Becomes(t, [call[t] EXCEPT !.pc = "handler", !.ran = "no", !.success = call[t].success])
    BY <1>1, <1>3
  <1>5. "handler" \in Places /\ "handler" \in InSandbox /\ "handler" \in Before
    BY DEF InSandbox, Places, Before, After
  <1> QED
    BY <1>1, <1>2, <1>4, <1>5, SandboxStep

LEMMA HandlerKeepsInv ==
    ASSUME HooksInv, NEW t \in Threads, Handler(t)
    PROVE  HooksInv'
  <1>1. /\ call[t].pc = "handler" /\ call[t].pc \in InSandbox
        /\ UNCHANGED <<bound, builtins, env, lock, saved, file, ended, wanted>>
    BY DEF Handler, At, InSandbox
  <1>2. /\ lock = t /\ saved \in wanted /\ env \in wanted /\ builtins = "safe"
        /\ env \in Paths \cup {None} /\ saved \in Paths \cup {None}
    BY <1>1, InTheSandbox
  <1>3. PICK success \in BOOLEAN :
            Becomes(t, [call[t] EXCEPT !.pc = "restore", !.ran = "returned",
                                       !.success = success])
    BY DEF Handler
  <1>5. "restore" \in Places /\ "restore" \in InSandbox /\ "restore" \notin Before
    BY DEF InSandbox, Places, Before, After
  <1> QED
    BY <1>1, <1>2, <1>3, <1>5, SandboxStep

LEMMA RefillBuiltinsKeepsInv ==
    ASSUME HooksInv, NEW t \in Threads, RefillBuiltins(t)
    PROVE  HooksInv'
  <1>1. /\ call[t].pc = "refill" /\ call[t].pc \in InSandbox
        /\ UNCHANGED <<bound, env, lock, saved, file, ended, wanted>> /\ builtins' = "full"
        /\ Becomes(t, [call[t] EXCEPT !.pc = "clear env"])
    BY DEF RefillBuiltins, At, InSandbox
  <1>2. /\ call[t] \in Calls /\ call[t].success \in BOOLEAN /\ call[t].ran = "returned"
        /\ lock = t /\ saved \in wanted /\ env \in wanted
        /\ env \in Paths \cup {None} /\ saved \in Paths \cup {None}
    BY <1>1, InTheSandbox DEF Before
  <1>3. [call[t] EXCEPT !.pc = "clear env"]
          = [call[t] EXCEPT !.pc = "clear env", !.ran = "returned", !.success = call[t].success]
    BY <1>2 DEF Calls
  <1>4. Becomes(t, [call[t] EXCEPT !.pc = "clear env", !.ran = "returned",
                                   !.success = call[t].success])
    BY <1>1, <1>3
  <1>5. "clear env" \in Places /\ "clear env" \in InSandbox /\ "clear env" \notin Before
    BY DEF InSandbox, Places, Before, After
  <1> QED
    BY <1>1, <1>2, <1>4, <1>5, SandboxStep

LEMMA ClearEnvKeepsInv ==
    ASSUME HooksInv, NEW t \in Threads, ClearEnv(t)
    PROVE  HooksInv'
  <1>1. /\ call[t].pc = "clear env" /\ call[t].pc \in InSandbox
        /\ UNCHANGED <<bound, builtins, lock, saved, file, ended, wanted>> /\ env' = None
        /\ Becomes(t, [call[t] EXCEPT !.pc = "restore env"])
    BY DEF ClearEnv, At, InSandbox
  <1>2. /\ call[t] \in Calls /\ call[t].success \in BOOLEAN /\ call[t].ran = "returned"
        /\ lock = t /\ saved \in wanted /\ builtins = "full"
        /\ saved \in Paths \cup {None}
    BY <1>1, InTheSandbox DEF Before
  <1>3. [call[t] EXCEPT !.pc = "restore env"]
          = [call[t] EXCEPT !.pc = "restore env", !.ran = "returned",
                            !.success = call[t].success]
    BY <1>2 DEF Calls
  <1>4. Becomes(t, [call[t] EXCEPT !.pc = "restore env", !.ran = "returned",
                                   !.success = call[t].success])
    BY <1>1, <1>3
  <1>5. "restore env" \in Places /\ "restore env" \in InSandbox /\ "restore env" \notin Before
    BY DEF InSandbox, Places, Before, After
  <1> QED
    BY <1>1, <1>2, <1>4, <1>5, SandboxStep

LEMMA LeaveSandboxKeepsInv ==
    ASSUME HooksInv, NEW t \in Threads, LeaveSandbox(t)
    PROVE  HooksInv'
  <1>1. /\ call[t].pc = "restore env" /\ call[t].pc \in InSandbox
        /\ UNCHANGED <<bound, builtins, file, ended, wanted>>
        /\ lock' = NoThread /\ saved' = None
        /\ Becomes(t, [call[t] EXCEPT !.pc = "report"])
    BY DEF LeaveSandbox, At, InSandbox
  <1>2. /\ call[t] \in Calls /\ call[t].success \in BOOLEAN /\ call[t].ran = "returned"
        /\ saved \in wanted /\ builtins = "full" /\ (env \in wanted \/ env = None)
        /\ env \in Paths \cup {None} /\ saved \in Paths \cup {None}
    BY <1>1, InTheSandbox DEF Before
  <1>3. env' \in wanted /\ env' \in Paths \cup {None}
    <2>1. CASE saved = None
      BY <1>2, <2>1 DEF LeaveSandbox
    <2>2. CASE saved # None
      BY <1>2, <2>2 DEF LeaveSandbox
    <2> QED
      BY <2>1, <2>2
  <1>4. [call[t] EXCEPT !.pc = "report"]
          = [call[t] EXCEPT !.pc = "report", !.ran = "returned", !.success = call[t].success]
    BY <1>2 DEF Calls
  <1>5. Becomes(t, [call[t] EXCEPT !.pc = "report", !.ran = "returned",
                                   !.success = call[t].success])
    BY <1>1, <1>4
  <1>6. "report" \in Places /\ "report" \notin Before
    BY DEF Places, Before, After
  <1> QED
    BY <1>1, <1>2, <1>3, <1>5, <1>6, SandboxStep

LEMMA ReportKeepsInv ==
    ASSUME HooksInv, NEW t \in Threads, Report(t)
    PROVE  HooksInv'
  <1>1. /\ call[t].pc = "report" /\ call[t] \in Calls /\ CallInv(call[t])
        /\ RecordInv(t, call[t])
        /\ UNCHANGED <<bound, builtins, env, lock, saved, file, ended, wanted>>
    BY InACall DEF Report, At
  <1>2. /\ call[t].ran = "returned" /\ call[t].recording = "none" /\ call[t].error = "none"
        /\ ~Refused(call[t])
    BY <1>1 DEF CallInv, After
  <1>3. CASE builtins = "full"
    <2>1. PICK c : c = [call[t] EXCEPT !.pc = "prepare", !.recording = "success"]
      OBVIOUS
    <2>2. Becomes(t, c)
      BY <1>3, <2>1 DEF Report
    <2>3. /\ c \in Calls /\ c.n = call[t].n /\ c.operation = call[t].operation
          /\ c.pc = "prepare" /\ c.recording = "success" /\ c.ran = "returned"
          /\ c.request = call[t].request /\ c.error = "none"
      BY <1>1, <1>2, <2>1 DEF Calls, Places, Writing
    <2>4. CallInv(c)
      BY <1>2, <2>3 DEF CallInv, Before, After, Writing, Made, Marked, Refused
    <2>5. RecordInv(t, c)
      <3>1. \A b \in Begun : b.by # t \/ b.n # c.n
        BY <1>1, <1>2, <2>3 DEF RecordInv
      <3>2. \A s : Of(t, c, s) \notin Begun
        BY <3>1 DEF Of
      <3> QED
        BY <2>3, <3>2 DEF RecordInv
    <2> QED
      BY <1>1, <2>2, <2>3, <2>4, <2>5, QuietMoves DEF InSandbox
  <1>4. CASE builtins # "full"
    <2>1. PICK d \in {call[t], [call[t] EXCEPT !.ran = "raised"]} :
              Becomes(t, Disturbed([d EXCEPT !.pc = "caught", !.error = "runtime"]))
      BY <1>4 DEF Report
    <2>2. PICK c : c = Disturbed([d EXCEPT !.pc = "caught", !.error = "runtime"])
      OBVIOUS
    <2>3. d \in Calls /\ d.n = call[t].n /\ d.operation = call[t].operation
          /\ d.recording = "none" /\ d.request = call[t].request
      BY <1>1, <1>2, <2>1 DEF Calls
    <2>4. /\ c \in Calls /\ c.n = call[t].n /\ c.operation = call[t].operation
          /\ c.pc = "caught" /\ c.recording = "none" /\ c.disturbed
          /\ c.request = call[t].request /\ c.error = "runtime"
      BY <2>2, <2>3 DEF Calls, Places, Disturbed
    <2>5. CallInv(c)
      BY <1>2, <2>4 DEF CallInv, Before, After, Writing, Made, Marked, Refused
    <2>6. RecordInv(t, c)
      BY <1>1, <1>2, <2>4, NothingBegun
    <2> QED
      BY <1>1, <2>1, <2>2, <2>4, <2>5, <2>6, QuietMoves DEF InSandbox
  <1> QED
    BY <1>3, <1>4

\* A piece of the record of a call that has not begun it, or that continues it.
LEMMA WritingKeepsInv ==
    ASSUME HooksInv, NEW t \in Threads, NEW part \in {"whole", "head", "tail"},
           NEW pc \in {"continue", "close"}, call[t].pc \in Writing,
           IF part = "tail" THEN call[t].pc = "continue" ELSE call[t].pc = "write",
           Adds(t, part), Becomes(t, [call[t] EXCEPT !.pc = pc]),
           UNCHANGED <<bound, builtins, env, lock, saved, ended, wanted>>
    PROVE  HooksInv'
  <1>1. /\ call[t] \in Calls /\ CallInv(call[t]) /\ RecordInv(t, call[t])
        /\ call[t].pc # "idle"
    BY InACall DEF Writing
  <1>2. PICK r : r = call[t].recording
    OBVIOUS
  <1>3. r \in {"success", "failure"}
    BY <1>1, <1>2 DEF CallInv, Calls
  <1>4. PICK c : c = [call[t] EXCEPT !.pc = pc]
    OBVIOUS
  <1>5. /\ c \in Calls /\ c.pc = pc /\ c.n = call[t].n /\ c.operation = call[t].operation
        /\ c.request = call[t].request /\ c.path = call[t].path /\ c.ran = call[t].ran
        /\ c.recording = r /\ c.error = call[t].error /\ c.failed = call[t].failed
        /\ c.disturbed = call[t].disturbed
    BY <1>1, <1>2, <1>4 DEF Calls, Places, Writing
  <1>6. /\ call' \in [Threads -> Calls] /\ call'[t] = c
        /\ \A u \in Threads \ {t} : call'[u] = call[u]
    BY <1>4, <1>5 DEF Becomes, HooksInv, HooksTypeOK
  <1>7. PICK new : new = Of(t, c, r)
    OBVIOUS
  <1>8. new = Of(t, call[t], call[t].recording) /\ new.by = t /\ new.n = call[t].n
    BY <1>2, <1>5, <1>7 DEF Of
  <1>9. (part = "tail" => new \in Begun) /\ (part # "tail" => new \notin Begun)
    <2>1. CASE part = "tail"
      BY <1>1, <1>2, <1>3, <1>8, <2>1 DEF RecordInv
    <2>2. CASE part # "tail"
      BY <1>1, <1>2, <1>3, <1>8, <2>2 DEF RecordInv
    <2> QED
      BY <2>1, <2>2
  <1>10. Begun' = Begun \cup {new}
    <2>1. CASE part = "tail"
      <3>1. Begun' = Begun
        BY <2>1, AddsBegun DEF HooksInv
      <3> QED
        BY <1>9, <2>1, <3>1
    <2>2. CASE part # "tail"
      BY <1>8, <2>2, AddsBegun DEF HooksInv
    <2> QED
      BY <2>1, <2>2
  <1>11. BegunOnce'
    BY <1>8, <1>9, AddsOnce DEF HooksInv
  <1>12. file' \in [Files -> Seq(Pieces)]
    BY AddsStarts DEF HooksInv
  <1>13. HooksTypeOK'
    BY <1>6, <1>12 DEF HooksInv, HooksTypeOK
  <1>14. SandboxInv'
    <2>1. call[t].pc \notin InSandbox /\ c.pc \notin InSandbox
      BY <1>5 DEF InSandbox, Writing
    <2>2. Becomes(t, c) /\ call \in [Threads -> Calls]
      BY <1>4 DEF HooksInv, HooksTypeOK
    <2> QED
      BY <2>1, <2>2, OutsideTheSandbox DEF HooksInv
  <1>25. c.request.plan = "plain"
    <2>1. call[t].pc \in Made
      BY DEF Made
    <2> QED
      BY <1>1, <1>5, <2>1 DEF CallInv
  <1>15. CallInv(c)
    <2>1. (Refused(c) <=> Refused(call[t])) /\ (Marked(c) <=> Marked(call[t]))
      BY <1>5 DEF Refused, Marked
    <2>2. c.pc \in Writing /\ c.pc \notin Before \cup After
      BY <1>5 DEF Before, After, Writing
    <2> QED
      BY <1>1, <1>2, <1>3, <1>5, <1>25, <2>1, <2>2 DEF CallInv
  <1>16. \A u \in Threads : call'[u].pc # "idle" => CallInv(call'[u])
    BY <1>6, <1>15 DEF HooksInv
  <1>17. RecordInv(t, c)'
    <2>1. \A s : Of(t, c, s) = Of(t, call[t], s)
      BY <1>5 DEF Of
    <2>2. \A s : s # r => Of(t, c, s) # new
      BY <1>7 DEF Of
    <2>3. CASE r = "success"
      <3>1. Of(t, c, "failure") \notin Begun'
        BY <1>1, <1>2, <1>10, <2>1, <2>2, <2>3 DEF RecordInv
      <3>2. c.ran = "returned"
        BY <1>1, <1>2, <1>5, <2>3 DEF CallInv
      <3> QED
        BY <1>5, <1>7, <1>10, <1>25, <2>3, <3>1, <3>2 DEF RecordInv
    <2>4. CASE r = "failure"
      <3>1. Of(t, c, "success") \in Begun' => c.ran = "returned" /\ Marked(c)
        BY <1>1, <1>2, <1>5, <1>10, <2>1, <2>2, <2>4 DEF RecordInv, Marked
      <3> QED
        BY <1>5, <1>7, <1>10, <1>25, <2>4, <3>1 DEF RecordInv
    <2> QED
      BY <1>3, <2>3, <2>4
  <1>18. ASSUME NEW u \in Threads \ {t}, call[u].pc # "idle"
         PROVE  RecordInv(u, call[u])'
    <2>1. \A s : Of(u, call[u], s) # new
      BY <1>8 DEF Of
    <2>2. RecordInv(u, call[u]) /\ call'[u] = call[u]
      BY <1>6, <1>18 DEF HooksInv
    <2>3. \A b \in Begun' : b \in Begun \/ b.by # u
      BY <1>8, <1>10
    <2>4. \A s : Of(u, call[u], s) \in Begun' <=> Of(u, call[u], s) \in Begun
      BY <1>10, <2>1
    <2> QED
      BY <2>2, <2>3, <2>4 DEF RecordInv
  <1>19. \A u \in Threads : call'[u].pc # "idle" => RecordInv(u, call[u])'
    <2>1. RecordInv(t, call[t])'
      BY <1>6, <1>17 DEF RecordInv
    <2> QED
      BY <1>6, <1>18, <2>1
  <1>20. \A e \in ended : e.by \in Threads /\ e.call \in Calls
    BY DEF HooksInv, HooksTypeOK
  <1>21. ASSUME NEW e \in ended
         PROVE  EndedInv(e)'
    <2>1. EndedInv(e) /\ e.call.n \in Nat /\ c.n \in Nat
      BY <1>5, <1>20 DEF HooksInv, Calls
    <2>2. e.by = t => e.call.n < call[t].n
      BY <1>1 DEF HooksInv, Numbered
    <2>3. \A s : Of(e.by, e.call, s) # new
      BY <1>5, <1>8, <2>1, <2>2 DEF Of
    <2>4. \A s : Of(e.by, e.call, s) \in Begun' <=> Of(e.by, e.call, s) \in Begun
      BY <1>10, <2>3
    <2> QED
      BY <2>1, <2>4 DEF EndedInv
  <1>22. Numbered'
    <2>1. \A u \in Threads : call'[u].n = call[u].n /\ call'[u].operation = call[u].operation
                             /\ (call'[u].pc = "idle" <=> call[u].pc = "idle")
      BY <1>1, <1>5, <1>6
    <2>2. \A b \in Begun : b.by \in Threads
      BY BegunByThreads DEF HooksInv
    <2>3. \A b \in Begun' : b.n <= call'[b.by].n
      <3>1. new.n <= call'[new.by].n
        BY <1>1, <1>8, <2>1 DEF Calls
      <3> QED
        BY <1>10, <2>1, <2>2, <3>1 DEF HooksInv, Numbered
    <2> QED
      BY <1>20, <2>1, <2>3 DEF HooksInv, Numbered
  <1>23. RetryInv'
    BY <1>1, <1>5, <1>6, <1>20 DEF HooksInv, RetryInv
  <1>24. RerunIsExplained'
    BY DEF HooksInv, RerunIsExplained
  <1> QED
    BY <1>11, <1>13, <1>14, <1>16, <1>19, <1>21, <1>22, <1>23, <1>24 DEF HooksInv

LEMMA WriteKeepsInv ==
    ASSUME HooksInv, NEW t \in Threads, Write(t)
    PROVE  HooksInv'
  <1>1. /\ call[t].pc = "write"
        /\ UNCHANGED <<bound, builtins, env, lock, saved, ended, wanted>>
        /\ \/ Adds(t, "whole") /\ Becomes(t, [call[t] EXCEPT !.pc = "close"])
           \/ Adds(t, "head") /\ Becomes(t, [call[t] EXCEPT !.pc = "continue"])
    BY DEF Write, At
  <1> QED
    BY <1>1, WritingKeepsInv DEF Writing

LEMMA ContinueKeepsInv ==
    ASSUME HooksInv, NEW t \in Threads, Continue(t)
    PROVE  HooksInv'
  <1>1. /\ call[t].pc = "continue"
        /\ UNCHANGED <<bound, builtins, env, lock, saved, ended, wanted>>
        /\ Adds(t, "tail") /\ Becomes(t, [call[t] EXCEPT !.pc = "close"])
    BY DEF Continue, At
  <1> QED
    BY <1>1, WritingKeepsInv DEF Writing

\* A record that could not be made, written or closed: marked, it is given up.
LEMMA UnwrittenKeepsInv ==
    ASSUME HooksInv, NEW t \in Threads, NEW error \in {"value", "runtime"}, NEW c,
           call[t].pc \in Writing,
           c = Failed(Unwritten(t, error)) \/ c = Disturbed(Unwritten(t, error)),
           Becomes(t, c),
           UNCHANGED <<bound, builtins, env, lock, saved, file, ended, wanted>>
    PROVE  HooksInv'
  <1>1. /\ call[t] \in Calls /\ CallInv(call[t]) /\ RecordInv(t, call[t])
    BY InACall DEF Writing
  <1>2. call[t].recording \in {"success", "failure"}
    BY <1>1 DEF CallInv, Calls
  <1>3. /\ c \in Calls /\ c.n = call[t].n /\ c.operation = call[t].operation
        /\ c.request = call[t].request /\ c.path = call[t].path /\ c.ran = call[t].ran
        /\ c.recording = call[t].recording /\ c.error = error
        /\ c.pc = IF call[t].recording = "success" THEN "caught" ELSE "raised"
    BY <1>1 DEF Calls, Places, Unwritten, Disturbed, Failed
  <1>4. c.failed \/ c.disturbed
    BY <1>1 DEF Calls, Unwritten, Disturbed, Failed
  <1>5. CallInv(c)
    <2>1. Refused(c) <=> Refused(call[t])
      BY <1>3 DEF Refused
    <2>2. Marked(c)
      BY <1>4 DEF Marked
    <2>3. c.pc \in {"caught", "raised"} /\ (c.pc = "caught" => c.recording = "success")
      BY <1>3
    <2> QED
      BY <1>1, <1>2, <1>3, <2>1, <2>2, <2>3 DEF CallInv, Before, After, Writing, Made
  <1>6. RecordInv(t, c)
    <2>1. \A s : Of(t, c, s) = Of(t, call[t], s)
      BY <1>3 DEF Of
    <2>2. Marked(c)
      BY <1>4 DEF Marked
    <2>3. Of(t, c, "success") \in Begun => c.ran = "returned"
      BY <1>1, <1>3, <2>1 DEF RecordInv
    <2>4. c.recording = "success" => Of(t, c, "failure") \notin Begun
      BY <1>1, <1>3, <2>1 DEF RecordInv
    <2>5. \A s \in {"success", "failure"} : Of(t, c, s) \in Begun => c.request.plan = "plain"
      BY <1>1, <1>3, <2>1 DEF RecordInv
    <2> QED
      BY <1>2, <1>3, <2>2, <2>3, <2>4, <2>5 DEF RecordInv
  <1> QED
    BY <1>3, <1>5, <1>6, QuietMoves DEF InSandbox, Writing

LEMMA PrepareKeepsInv ==
    ASSUME HooksInv, NEW t \in Threads, Prepare(t)
    PROVE  HooksInv'
  <1>1. /\ call[t].pc = "prepare" /\ call[t].pc \in Writing
        /\ UNCHANGED <<bound, builtins, env, lock, saved, file, ended, wanted>>
        /\ \/ /\ call[t].request.plan = "plain"
              /\ Becomes(t, [call[t] EXCEPT !.pc = "write"])
           \/ \E error \in {"value", "runtime"} :
                 \/ Becomes(t, Failed(Unwritten(t, error)))
                 \/ Becomes(t, Disturbed(Unwritten(t, error)))
    BY DEF Prepare, At, Writing
  <1>2. ASSUME NEW error \in {"value", "runtime"},
               \/ Becomes(t, Failed(Unwritten(t, error)))
               \/ Becomes(t, Disturbed(Unwritten(t, error)))
        PROVE  HooksInv'
    <2>1. PICK c : /\ c = Failed(Unwritten(t, error)) \/ c = Disturbed(Unwritten(t, error))
                   /\ Becomes(t, c)
      BY <1>2
    <2> QED
      BY <1>1, <2>1, UnwrittenKeepsInv
  <1>3. CASE /\ call[t].request.plan = "plain"
             /\ Becomes(t, [call[t] EXCEPT !.pc = "write"])
    <2>1. PICK c : c = [call[t] EXCEPT !.pc = "write"]
      OBVIOUS
    <2>2. Becomes(t, c)
      BY <1>3, <2>1
    <2>3. call[t] \in Calls /\ CallInv(call[t]) /\ RecordInv(t, call[t])
      BY <1>1, InACall
    <2>4. /\ c \in Calls /\ c.n = call[t].n /\ c.operation = call[t].operation
          /\ c.request = call[t].request /\ c.path = call[t].path /\ c.ran = call[t].ran
          /\ c.recording = call[t].recording /\ c.error = call[t].error
          /\ c.pc = "write" /\ c.failed = call[t].failed /\ c.disturbed = call[t].disturbed
      BY <2>1, <2>3 DEF Calls, Places, Writing
    <2>5. c.recording \in {"success", "failure"}
      BY <1>1, <2>3, <2>4 DEF CallInv, Calls
    <2>6. (Refused(c) <=> Refused(call[t])) /\ (Marked(c) <=> Marked(call[t]))
      BY <2>4 DEF Refused, Marked
    <2>7. CallInv(c)
      <3>1. c.pc \notin Before \cup After \cup {"resolve", "validate", "caught", "raised"}
        BY <2>4 DEF Before, After
      <3> QED
        BY <1>3, <2>3, <2>4, <2>5, <2>6, <3>1 DEF CallInv
    <2>8. RecordInv(t, c)
      <3>1. \A s : Of(t, c, s) = Of(t, call[t], s)
        BY <2>4 DEF Of
      <3> QED
        BY <1>1, <2>3, <2>4, <2>5, <2>6, <3>1 DEF RecordInv
    <2>9. c.pc \notin InSandbox \cup {"idle"} /\ call[t].pc \notin InSandbox \cup {"idle"}
      BY <1>1, <2>4 DEF InSandbox
    <2> QED
      BY <1>1, <2>2, <2>4, <2>7, <2>8, <2>9, QuietMoves
  <1> QED
    BY <1>1, <1>2, <1>3

LEMMA WriteFailsKeepsInv ==
    ASSUME HooksInv, NEW t \in Threads, WriteFails(t)
    PROVE  HooksInv'
  <1>1. /\ call[t].pc \in Writing
        /\ UNCHANGED <<bound, builtins, env, lock, saved, file, ended, wanted>>
        /\ Becomes(t, Failed(Unwritten(t, "runtime")))
    BY DEF WriteFails, At, Writing
  <1>2. PICK c : c = Failed(Unwritten(t, "runtime"))
    OBVIOUS
  <1> QED
    BY <1>1, <1>2, UnwrittenKeepsInv

LEMMA LenIsMissingKeepsInv ==
    ASSUME HooksInv, NEW t \in Threads, LenIsMissing(t)
    PROVE  HooksInv'
  <1>1. /\ call[t].pc \in Writing
        /\ UNCHANGED <<bound, builtins, env, lock, saved, file, ended, wanted>>
        /\ Becomes(t, Disturbed(Unwritten(t, "runtime")))
    BY DEF LenIsMissing, At, Writing
  <1>2. PICK c : c = Disturbed(Unwritten(t, "runtime"))
    OBVIOUS
  <1> QED
    BY <1>1, <1>2, UnwrittenKeepsInv

LEMMA CloseKeepsInv ==
    ASSUME HooksInv, NEW t \in Threads, Close(t)
    PROVE  HooksInv'
  <1>1. /\ call[t].pc = "close" /\ call[t].pc \in Writing
        /\ UNCHANGED <<bound, builtins, env, lock, saved, file, ended, wanted>>
        /\ \/ Becomes(t, Failed(Unwritten(t, "runtime")))
           \/ Becomes(t, [call[t] EXCEPT !.pc = IF call[t].recording = "success"
                                                THEN "return" ELSE "raised"])
    BY DEF Close, At, Writing
  <1>2. CASE Becomes(t, Failed(Unwritten(t, "runtime")))
    <2>1. PICK c : c = Failed(Unwritten(t, "runtime"))
      OBVIOUS
    <2> QED
      BY <1>1, <1>2, <2>1, UnwrittenKeepsInv
  <1>3. CASE Becomes(t, [call[t] EXCEPT !.pc = IF call[t].recording = "success"
                                               THEN "return" ELSE "raised"])
    <2>1. PICK pc \in {"return", "raised"} :
              pc = IF call[t].recording = "success" THEN "return" ELSE "raised"
      OBVIOUS
    <2>2. PICK c : c = [call[t] EXCEPT !.pc = pc]
      OBVIOUS
    <2>3. Becomes(t, c)
      BY <1>3, <2>1, <2>2
    <2>4. call[t] \in Calls /\ CallInv(call[t]) /\ RecordInv(t, call[t])
      BY <1>1, InACall
    <2>5. /\ c \in Calls /\ c.n = call[t].n /\ c.operation = call[t].operation
          /\ c.request = call[t].request /\ c.path = call[t].path /\ c.ran = call[t].ran
          /\ c.recording = call[t].recording /\ c.error = call[t].error
          /\ c.pc = pc /\ c.failed = call[t].failed /\ c.disturbed = call[t].disturbed
      BY <2>2, <2>4 DEF Calls, Places
    <2>6. c.recording \in {"success", "failure"}
      BY <1>1, <2>4, <2>5 DEF CallInv, Calls
    <2>7. (Refused(c) <=> Refused(call[t])) /\ (Marked(c) <=> Marked(call[t]))
      BY <2>5 DEF Refused, Marked
    <2>8. CallInv(c)
      <3>1. c.pc \notin Before \cup After \cup Writing \cup {"resolve", "validate", "caught"}
        BY <2>1, <2>5 DEF Before, After, Writing
      <3>2. /\ c.pc = "return" => c.recording = "success"
            /\ c.pc = "raised" => c.recording = "failure"
        BY <2>1, <2>5, <2>6
      <3> QED
        BY <1>1, <2>4, <2>5, <2>6, <2>7, <3>1, <3>2 DEF CallInv, Made
    <2>9. RecordInv(t, c)
      <3>1. \A s : Of(t, c, s) = Of(t, call[t], s)
        BY <2>5 DEF Of
      <3>2. CASE c.recording = "success"
        BY <1>1, <2>1, <2>4, <2>5, <2>7, <3>1, <3>2 DEF RecordInv
      <3>3. CASE c.recording = "failure"
        BY <1>1, <2>1, <2>4, <2>5, <2>7, <3>1, <3>3 DEF RecordInv
      <3> QED
        BY <2>6, <3>2, <3>3
    <2>10. c.pc \notin InSandbox \cup {"idle"} /\ call[t].pc \notin InSandbox \cup {"idle"}
      BY <1>1, <2>1, <2>5 DEF InSandbox
    <2> QED
      BY <1>1, <2>3, <2>5, <2>8, <2>9, <2>10, QuietMoves
  <1> QED
    BY <1>1, <1>2, <1>3

LEMMA HandleExceptionKeepsInv ==
    ASSUME HooksInv, NEW t \in Threads, HandleException(t)
    PROVE  HooksInv'
  <1>1. /\ call[t].pc = "caught" /\ call[t] \in Calls /\ CallInv(call[t])
        /\ RecordInv(t, call[t])
        /\ UNCHANGED <<bound, builtins, env, lock, saved, file, ended, wanted>>
    BY InACall DEF HandleException, At
  <1>2. /\ call[t].recording # "failure" /\ call[t].error # "none"
        /\ call[t].ran = "returned" => Marked(call[t])
        /\ call[t].error = "runtime" /\ Refused(call[t]) => Marked(call[t])
        /\ Refused(call[t]) => call[t].ran = "no"
        /\ call[t].recording = "success" => call[t].ran = "returned"
    BY <1>1 DEF CallInv
  <1>3. Of(t, call[t], "failure") \notin Begun
    <2>1. CASE call[t].recording = "success"
      BY <1>1, <2>1 DEF RecordInv
    <2>2. CASE call[t].recording = "none"
      <3>1. \A b \in Begun : b.by # t \/ b.n # call[t].n
        BY <1>1, <2>2 DEF RecordInv
      <3> QED
        BY <3>1 DEF Of
    <2> QED
      BY <1>1, <1>2, <2>1, <2>2 DEF Calls
  <1>4. Of(t, call[t], "success") \in Begun =>
            call[t].ran = "returned" /\ call[t].request.plan = "plain" /\ Marked(call[t])
    BY <1>1 DEF RecordInv
  <1>5. CASE builtins = "full"
    <2>1. PICK c : c = [call[t] EXCEPT !.pc = "prepare", !.recording = "failure"]
      OBVIOUS
    <2>2. Becomes(t, c)
      BY <1>5, <2>1 DEF HandleException
    <2>3. /\ c \in Calls /\ c.n = call[t].n /\ c.operation = call[t].operation
          /\ c.request = call[t].request /\ c.path = call[t].path /\ c.ran = call[t].ran
          /\ c.recording = "failure" /\ c.error = call[t].error
          /\ c.pc = "prepare" /\ c.failed = call[t].failed
          /\ c.disturbed = call[t].disturbed
      BY <1>1, <2>1 DEF Calls, Places, Writing
    <2>4. (Refused(c) <=> Refused(call[t])) /\ (Marked(c) <=> Marked(call[t]))
      BY <2>3 DEF Refused, Marked
    <2>5. CallInv(c)
      BY <1>2, <2>3, <2>4 DEF CallInv, Before, After, Writing, Made
    <2>6. RecordInv(t, c)
      <3>1. \A s : Of(t, c, s) = Of(t, call[t], s)
        BY <2>3 DEF Of
      <3> QED
        BY <1>3, <1>4, <2>3, <2>4, <3>1 DEF RecordInv
    <2> QED
      BY <1>1, <2>2, <2>3, <2>5, <2>6, QuietMoves DEF InSandbox
  <1>6. CASE builtins # "full"
    <2>1. PICK c : c = Disturbed(Raised(t, "runtime"))
      OBVIOUS
    <2>2. Becomes(t, c)
      BY <1>6, <2>1 DEF HandleException
    <2>3. /\ c \in Calls /\ c.n = call[t].n /\ c.operation = call[t].operation
          /\ c.request = call[t].request /\ c.path = call[t].path /\ c.ran = call[t].ran
          /\ c.recording = call[t].recording /\ c.error = "runtime"
          /\ c.pc = "raised" /\ c.failed = call[t].failed /\ c.disturbed
      BY <1>1, <2>1 DEF Calls, Places, Disturbed, Raised
    <2>4. (Refused(c) <=> Refused(call[t])) /\ Marked(c)
      BY <2>3 DEF Refused, Marked
    <2>5. CallInv(c)
      BY <1>2, <2>3, <2>4 DEF CallInv, Before, After, Writing, Made
    <2>6. RecordInv(t, c)
      <3>1. \A s : Of(t, c, s) = Of(t, call[t], s)
        BY <2>3 DEF Of
      <3>2. c.recording = "none" => \A b \in Begun : b.by # t \/ b.n # c.n
        BY <1>1, <2>3 DEF RecordInv
      <3> QED
        BY <1>2, <1>3, <1>4, <2>3, <2>4, <3>1, <3>2 DEF RecordInv
    <2> QED
      BY <1>1, <2>2, <2>3, <2>5, <2>6, QuietMoves DEF InSandbox
  <1> QED
    BY <1>5, <1>6

\* A call that ends with its records in order.
LEMMA EndingKeepsInv ==
    ASSUME HooksInv, NEW t \in Threads, NEW d \in Calls, NEW i \in Calls,
           call[t].pc \notin InSandbox \cup {"idle"},
           d.n = call[t].n, d.operation = call[t].operation,
           i.pc = "idle", i.n = call[t].n, i.operation = call[t].operation,
           ended' = ended \cup {[by |-> t, call |-> d]}, Becomes(t, i),
           UNCHANGED <<bound, builtins, env, lock, saved, file, wanted>>,
           EndedInv([by |-> t, call |-> d]),
           i.result = "retryable" => ~Settles(d)
    PROVE  HooksInv'
  <1>1. /\ call' \in [Threads -> Calls] /\ call'[t] = i
        /\ \A u \in Threads \ {t} : call'[u] = call[u]
    BY DEF HooksInv, HooksTypeOK, Becomes
  <1>2. PICK new : new = [by |-> t, call |-> d]
    OBVIOUS
  <1>3. ended' = ended \cup {new} /\ new.by = t /\ new.call = d
    BY <1>2
  <1>4. \A e \in ended : e.by \in Threads /\ e.call \in Calls
    BY DEF HooksInv, HooksTypeOK
  <1>5. HooksTypeOK'
    <2>1. new \in [by : Threads, call : Calls]
      BY <1>2
    <2> QED
      BY <1>1, <1>3, <2>1 DEF HooksInv, HooksTypeOK
  <1>6. SandboxInv'
    BY OutsideTheSandbox DEF HooksInv, HooksTypeOK, InSandbox
  <1>7. Begun' = Begun /\ BegunOnce'
    BY BegunKept DEF HooksInv
  <1>8. \A u \in Threads : call'[u].pc # "idle" => CallInv(call'[u])
    BY <1>1 DEF HooksInv
  <1>9. \A u \in Threads : call'[u].pc # "idle" => RecordInv(u, call'[u])
    BY <1>1 DEF HooksInv
  <1>10. \A u \in Threads : call'[u].pc # "idle" => RecordInv(u, call[u])'
    BY <1>7, <1>9 DEF RecordInv
  <1>11. \A e \in ended' : EndedInv(e)
    BY <1>2, <1>3 DEF HooksInv
  <1>12. \A e \in ended' : EndedInv(e)'
    BY <1>7, <1>11 DEF EndedInv
  <1>13. Numbered'
    <2>1. \A u \in Threads : call'[u].n = call[u].n /\ call'[u].operation = call[u].operation
                             /\ (call'[u].pc # "idle" => call[u].pc # "idle")
      BY <1>1
    <2>2. \A b \in Begun : b.by \in Threads
      BY BegunByThreads DEF HooksInv
    <2>3. \A b \in Begun' : b.n <= call'[b.by].n
      BY <1>7, <2>1, <2>2 DEF HooksInv, Numbered
    <2>4. \A e \in ended :
             /\ e.call.n <= call'[e.by].n
             /\ call'[e.by].pc # "idle" => e.call.n < call'[e.by].n
             /\ e.call.operation <= call'[e.by].operation
      BY <1>4, <2>1 DEF HooksInv, Numbered
    <2>5. /\ new.call.n <= call'[new.by].n
          /\ call'[new.by].pc = "idle"
          /\ new.call.operation <= call'[new.by].operation
      <3>1. call[t].n \in Nat /\ call[t].operation \in Nat
        BY DEF HooksInv, HooksTypeOK, Calls
      <3> QED
        BY <1>1, <1>3, <3>1
    <2>6. \A u \in Threads : call'[u].operation <= call'[u].n
      BY <2>1 DEF HooksInv, Numbered
    <2> QED
      BY <1>3, <2>3, <2>4, <2>5, <2>6 DEF Numbered
  <1>14. RetryInv'
    <2>1. ASSUME NEW e \in ended, e.by = t, e.call.operation = call[t].operation
          PROVE  ~Settles(e.call)
      BY <2>1 DEF HooksInv, RetryInv
    <2>2. ASSUME NEW e \in ended, e.by = t, e.call.operation = i.operation
          PROVE  ~Settles(e.call)
      BY <2>1, <2>2
    <2>3. ASSUME i.n < i.n \/ i.pc # "idle" \/ i.result = "retryable"
          PROVE  ~Settles(d)
      <3>1. i.n \in Nat
        BY DEF Calls
      <3> QED
        BY <2>3, <3>1
    <2>4. ASSUME NEW e \in ended, e.by # t
          PROVE  call'[e.by] = call[e.by]
      BY <1>1, <1>4, <2>4
    <2>5. \A e \in ended : /\ e.call.operation = call'[e.by].operation
                           /\ \/ e.call.n < call'[e.by].n \/ call'[e.by].pc # "idle"
                              \/ call'[e.by].result = "retryable"
                           => ~Settles(e.call)
      BY <1>1, <2>2, <2>4 DEF HooksInv, RetryInv
    <2>6. /\ new.call.operation = call'[new.by].operation
          /\ \/ new.call.n < call'[new.by].n \/ call'[new.by].pc # "idle"
             \/ call'[new.by].result = "retryable"
          => ~Settles(new.call)
      BY <1>1, <1>3, <2>3
    <2> QED
      BY <1>3, <2>5, <2>6 DEF RetryInv
  <1>15. RerunIsExplained'
    <2>1. ASSUME NEW e \in ended, e.by = t, e.call.operation = d.operation
          PROVE  ~Settles(e.call)
      BY <2>1 DEF HooksInv, RetryInv
    <2>2. ASSUME NEW e \in ended, e.by = t
          PROVE  ~(d.n < e.call.n)
      <3>1. e.call.n < call[t].n
        BY <2>2 DEF HooksInv, Numbered
      <3> QED
        BY <1>4, <3>1 DEF Calls
    <2>3. ~(d.n < d.n)
      BY DEF Calls
    <2>4. SUFFICES ASSUME NEW a \in ended', NEW b \in ended',
                          a.by = b.by, a.call.operation = b.call.operation,
                          a.call.n < b.call.n,
                          (a.call.ran = "returned" /\ a.call.success) \/ Refused(a.call)
                   PROVE  Marked(a.call)
      BY DEF RerunIsExplained, Refused, Marked
    <2>5. CASE a \in ended /\ b \in ended
      BY <2>4, <2>5 DEF HooksInv, RerunIsExplained, Refused, Marked
    <2>6. CASE a \in ended /\ b = new
      BY <1>3, <2>1, <2>4, <2>6 DEF Settles
    <2>7. CASE a = new /\ b \in ended
      BY <1>3, <2>2, <2>4, <2>7
    <2>8. CASE a = new /\ b = new
      BY <1>3, <2>3, <2>4, <2>8
    <2> QED
      BY <1>3, <2>5, <2>6, <2>7, <2>8
  <1> QED
    BY <1>5, <1>6, <1>7, <1>8, <1>10, <1>12, <1>13, <1>14, <1>15 DEF HooksInv

\* What a call hands on when it ends.
LEMMA EndsFacts ==
    ASSUME HooksInv, NEW t \in Threads, call[t] \in Calls, NEW c,
           c = call[t] \/ c = Disturbed(call[t]),
           NEW result \in {"done", "final", "retryable", "escaped"}, Ends(t, c, result)
    PROVE  \E d \in Calls, i \in Calls :
              /\ d.n = call[t].n /\ d.operation = call[t].operation /\ d.path = call[t].path
              /\ d.ran = call[t].ran /\ d.success = call[t].success
              /\ d.request = call[t].request
              /\ d.failed = call[t].failed /\ d.disturbed = c.disturbed
              /\ i.pc = "idle" /\ i.n = call[t].n /\ i.operation = call[t].operation
              /\ i.result = result
              /\ ended' = ended \cup {[by |-> t, call |-> d]} /\ Becomes(t, i)
  <1>1. /\ c \in Calls /\ c.n = call[t].n /\ c.operation = call[t].operation
        /\ c.path = call[t].path /\ c.ran = call[t].ran /\ c.success = call[t].success
        /\ c.request = call[t].request /\ c.failed = call[t].failed
    BY DEF Disturbed, Calls
  <1>2. PICK d : d = [c EXCEPT !.pc = "idle", !.error = "none", !.recording = "none"]
    OBVIOUS
  <1>3. /\ d \in Calls /\ d.n = c.n /\ d.operation = c.operation /\ d.path = c.path
        /\ d.ran = c.ran /\ d.success = c.success /\ d.request = c.request
        /\ d.failed = c.failed /\ d.disturbed = c.disturbed
    BY <1>1, <1>2 DEF Calls, Places
  <1>4. PICK i : i = [Idle EXCEPT !.n = c.n, !.operation = c.operation,
                                  !.request = c.request, !.result = result]
    OBVIOUS
  <1>5. i = [pc |-> "idle", n |-> c.n, operation |-> c.operation, request |-> c.request,
             path |-> DefaultPath, ran |-> "no", success |-> FALSE, error |-> "none",
             recording |-> "none", disturbed |-> FALSE, failed |-> FALSE,
             result |-> result]
    BY <1>4 DEF Idle
  <1>6. c.n \in Nat /\ c.operation \in Nat /\ c.request \in Requests \cup {None}
        /\ DefaultPath \in Files
    BY <1>1 DEF Calls, Files
  <1>7. i \in Calls
    BY <1>5, <1>6 DEF Calls, Places
  <1>8. i.pc = "idle" /\ i.n = c.n /\ i.operation = c.operation /\ i.result = result
    BY <1>5
  <1>9. ended' = ended \cup {[by |-> t, call |-> d]} /\ Becomes(t, i)
    BY <1>2, <1>4 DEF Ends
  <1> QED
    BY <1>1, <1>3, <1>7, <1>8, <1>9

LEMMA CatchKeepsInv ==
    ASSUME HooksInv, NEW t \in Threads, Catch(t)
    PROVE  HooksInv'
  <1>1. /\ call[t].pc = "raised" /\ call[t] \in Calls /\ CallInv(call[t])
        /\ RecordInv(t, call[t])
        /\ UNCHANGED <<bound, builtins, env, lock, saved, file, wanted>>
    BY InACall DEF Catch, At
  <1>2. /\ call[t].error # "none"
        /\ call[t].ran = "returned" => Marked(call[t])
        /\ call[t].error = "runtime" /\ Refused(call[t]) => Marked(call[t])
        /\ Refused(call[t]) => call[t].ran = "no"
    BY <1>1 DEF CallInv
  <1>3. PICK result \in {"final", "retryable", "escaped"} :
            result = IF builtins = "none" THEN "escaped" ELSE Classified(call[t].error)
    BY DEF Classified
  <1>4. result = "retryable" => call[t].error = "runtime"
    BY <1>1, <1>2, <1>3 DEF Classified, Calls
  <1>5. PICK c \in {call[t], Disturbed(call[t])} : Ends(t, c, result)
    BY <1>3 DEF Catch
  <1>6. PICK d \in Calls, i \in Calls :
              /\ d.n = call[t].n /\ d.operation = call[t].operation /\ d.path = call[t].path
              /\ d.ran = call[t].ran /\ d.success = call[t].success
              /\ d.request = call[t].request
              /\ d.failed = call[t].failed /\ d.disturbed = c.disturbed
              /\ i.pc = "idle" /\ i.n = call[t].n /\ i.operation = call[t].operation
              /\ i.result = result
              /\ ended' = ended \cup {[by |-> t, call |-> d]} /\ Becomes(t, i)
    BY <1>1, <1>5, EndsFacts
  <1>7. call[t].disturbed => d.disturbed
    BY <1>1, <1>5, <1>6 DEF Disturbed, Calls
  <1>8. (Refused(d) <=> Refused(call[t])) /\ (Marked(call[t]) => Marked(d))
    BY <1>6, <1>7 DEF Refused, Marked
  <1>9. EndedInv([by |-> t, call |-> d])
    <2>1. \A s : Of(t, d, s) = Of(t, call[t], s)
      BY <1>6 DEF Of
    <2>2. /\ Of(t, d, "success") \in Begun => d.ran = "returned"
          /\ ~Marked(call[t]) => /\ Of(t, d, "failure") \in Begun
                                 /\ Of(t, d, "success") \notin Begun
          /\ \A s \in {"success", "failure"} :
                Of(t, d, s) \in Begun => d.request.plan = "plain"
      BY <1>1, <1>6, <2>1 DEF RecordInv
    <2> QED
      BY <1>2, <1>6, <1>8, <2>2 DEF EndedInv
  <1>10. i.result = "retryable" => ~Settles(d)
    BY <1>2, <1>4, <1>6, <1>8 DEF Settles
  <1> QED
    BY <1>1, <1>6, <1>9, <1>10, EndingKeepsInv DEF InSandbox

LEMMA ReturnKeepsInv ==
    ASSUME HooksInv, NEW t \in Threads, Return(t)
    PROVE  HooksInv'
  <1>1. /\ call[t].pc = "return" /\ call[t] \in Calls /\ CallInv(call[t])
        /\ RecordInv(t, call[t])
        /\ UNCHANGED <<bound, builtins, env, lock, saved, file, wanted>>
    BY InACall DEF Return, At
  <1>2. call[t].ran = "returned" /\ call[t].recording = "success" /\ ~Refused(call[t])
    BY <1>1 DEF CallInv
  <1>3. PICK result \in {"done", "retryable", "escaped"} :
            result = IF builtins # "full" THEN "escaped"
                     ELSE IF call[t].success THEN "done" ELSE "retryable"
    OBVIOUS
  <1>4. result = "retryable" => ~call[t].success
    BY <1>3
  <1>5. PICK c \in {call[t], Disturbed(call[t])} : Ends(t, c, result)
    BY <1>3 DEF Return
  <1>6. PICK d \in Calls, i \in Calls :
              /\ d.n = call[t].n /\ d.operation = call[t].operation /\ d.path = call[t].path
              /\ d.ran = call[t].ran /\ d.success = call[t].success
              /\ d.request = call[t].request
              /\ d.failed = call[t].failed /\ d.disturbed = c.disturbed
              /\ i.pc = "idle" /\ i.n = call[t].n /\ i.operation = call[t].operation
              /\ i.result = result
              /\ ended' = ended \cup {[by |-> t, call |-> d]} /\ Becomes(t, i)
    BY <1>1, <1>5, EndsFacts
  <1>7. ~Refused(d)
    BY <1>2, <1>6 DEF Refused
  <1>8. EndedInv([by |-> t, call |-> d])
    <2>1. \A s : Of(t, d, s) = Of(t, call[t], s)
      BY <1>6 DEF Of
    <2>2. /\ Of(t, d, "success") \in Begun /\ Of(t, d, "failure") \notin Begun
          /\ d.request.plan = "plain"
      BY <1>1, <1>2, <1>6, <2>1 DEF RecordInv
    <2> QED
      BY <1>2, <1>6, <1>7, <2>2 DEF EndedInv
  <1>9. i.result = "retryable" => ~Settles(d)
    BY <1>4, <1>6, <1>7 DEF Settles
  <1> QED
    BY <1>1, <1>6, <1>8, <1>9, EndingKeepsInv DEF InSandbox

\* A step that touches neither a call nor a file.
LEMMA ConfigureKeepsInv ==
    ASSUME HooksInv, Configure
    PROVE  HooksInv'
  <1>1. /\ UNCHANGED <<bound, builtins, lock, saved, file, call, ended>>
        /\ env' \in Paths /\ env' \in wanted' /\ (lock # NoThread => wanted \subseteq wanted')
    BY DEF Configure
  <1>2. HooksTypeOK'
    BY <1>1 DEF HooksInv, HooksTypeOK
  <1>3. SandboxInv'
    <2>1. \A t \in Threads : lock = t => saved \in wanted'
      BY <1>1, HooksAssumption DEF HooksInv, SandboxInv
    <2> QED
      BY <1>1, <2>1 DEF HooksInv, SandboxInv
  <1>4. Begun' = Begun /\ BegunOnce'
    BY <1>1, BegunKept DEF HooksInv
  <1>5. (\A t \in Threads : call[t].pc # "idle" => CallInv(call[t]))'
    BY <1>1 DEF HooksInv, CallInv
  <1>6. (\A t \in Threads : call[t].pc # "idle" => RecordInv(t, call[t]))'
    BY <1>1, <1>4 DEF HooksInv, RecordInv
  <1>7. (\A e \in ended : EndedInv(e))'
    BY <1>1, <1>4 DEF HooksInv, EndedInv
  <1>8. Numbered' /\ RetryInv' /\ RerunIsExplained'
    BY <1>1, <1>4 DEF HooksInv, Numbered, RetryInv, RerunIsExplained
  <1> QED
    BY <1>2, <1>3, <1>4, <1>5, <1>6, <1>7, <1>8 DEF HooksInv

LEMMA RestKeepsHooksInv ==
    ASSUME HooksInv, UNCHANGED vars
    PROVE  HooksInv'
  <1>1. UNCHANGED <<bound, builtins, env, lock, saved, file, call, ended, wanted>>
    BY DEF vars
  <1>2. HooksTypeOK' /\ SandboxInv'
    BY <1>1 DEF HooksInv, HooksTypeOK, SandboxInv
  <1>3. Begun' = Begun /\ BegunOnce'
    BY <1>1, BegunKept DEF HooksInv
  <1>4. (\A t \in Threads : call[t].pc # "idle" => CallInv(call[t]))'
    BY <1>1 DEF HooksInv, CallInv
  <1>5. (\A t \in Threads : call[t].pc # "idle" => RecordInv(t, call[t]))'
    BY <1>1, <1>3 DEF HooksInv, RecordInv
  <1>6. (\A e \in ended : EndedInv(e))'
    BY <1>1, <1>3 DEF HooksInv, EndedInv
  <1>7. Numbered' /\ RetryInv' /\ RerunIsExplained'
    BY <1>1, <1>3 DEF HooksInv, Numbered, RetryInv, RerunIsExplained
  <1> QED
    BY <1>2, <1>3, <1>4, <1>5, <1>6, <1>7 DEF HooksInv

LEMMA InitHooksInv ==
    ASSUME Init
    PROVE  HooksInv
  <1>1. /\ bound \in Bounds /\ bound.env \in Paths \cup {None}
        /\ builtins = "full" /\ lock = NoThread /\ saved = None
        /\ env = bound.env /\ wanted = {env}
        /\ file = [p \in Files |-> <<>>] /\ call = [t \in Threads |-> Idle] /\ ended = {}
    BY HooksAssumption DEF Init, Files
  <1>2. Idle \in Calls /\ Idle.pc = "idle" /\ Idle.n = 0 /\ Idle.operation = 0
    <2>1. DefaultPath \in Files
      BY DEF Files
    <2> QED
      BY <2>1 DEF Idle, Calls, Places
  <1>3. HooksTypeOK
    BY <1>1, <1>2 DEF HooksTypeOK
  <1>4. SandboxInv
    BY <1>1, <1>2, HooksAssumption DEF SandboxInv, InSandbox
  <1>5. \A p \in Files : Starts[p] = {}
    BY <1>1 DEF Starts
  <1>6. Begun = {}
    BY <1>5 DEF Begun
  <1>7. BegunOnce
    BY <1>5 DEF BegunOnce
  <1>8. \A t \in Threads : call[t].pc = "idle" /\ call[t].n = 0 /\ call[t].operation = 0
    BY <1>1, <1>2
  <1>9. Numbered
    BY <1>1, <1>6, <1>8 DEF Numbered
  <1>10. RetryInv /\ RerunIsExplained
    BY <1>1 DEF RetryInv, RerunIsExplained
  <1> QED
    BY <1>1, <1>3, <1>4, <1>7, <1>8, <1>9, <1>10 DEF HooksInv

-----------------------------------------------------------------------------
(***************************************************************************)
(* The theorems.                                                           *)
(***************************************************************************)
\* The inductive invariant holds, whatever the threads do and in whatever order.
THEOREM HooksInvHolds == Spec => []HooksInv
  <1>1. Init => HooksInv
    BY InitHooksInv
  <1>2. HooksInv /\ [Next]_vars => HooksInv'
    <2> SUFFICES ASSUME HooksInv, [Next]_vars
                 PROVE  HooksInv'
      OBVIOUS
    <2>1. ASSUME NEW t \in Threads, Begin(t)
          PROVE  HooksInv'
      BY <2>1, BeginKeepsInv
    <2>2. ASSUME NEW t \in Threads, ThreadStep(t)
          PROVE  HooksInv'
      BY <2>2, ResolveKeepsInv, ValidateKeepsInv, RunEngineKeepsInv, EnterSandboxKeepsInv,
         ClearBuiltinsKeepsInv, RestrictBuiltinsKeepsInv, HandlerKeepsInv,
         RefillBuiltinsKeepsInv, ClearEnvKeepsInv, LeaveSandboxKeepsInv, ReportKeepsInv,
         PrepareKeepsInv, WriteKeepsInv, ContinueKeepsInv, WriteFailsKeepsInv,
         LenIsMissingKeepsInv, CloseKeepsInv,
         HandleExceptionKeepsInv, CatchKeepsInv, ReturnKeepsInv
         DEF ThreadStep
    <2>3. CASE Configure
      BY <2>3, ConfigureKeepsInv
    <2>4. CASE Resting \/ UNCHANGED vars
      BY <2>4, RestKeepsHooksInv DEF Resting
    <2> QED
      BY <2>1, <2>2, <2>3, <2>4 DEF Next
  <1> QED
    BY <1>1, <1>2, PTL DEF Spec

\* Every variable keeps its type.
THEOREM HooksTypeCorrect == Spec => []HooksTypeOK
  <1>1. HooksInv => HooksTypeOK
    BY DEF HooksInv
  <1> QED
    BY <1>1, HooksInvHolds, PTL

\* When no thread is in the sandbox the builtins are whole and the environment is as it
\* was set, for any number of threads, handlers and changes made beside them.
THEOREM ProcessIsRestoredHolds == Spec => []ProcessIsRestored
  <1>1. HooksInv => ProcessIsRestored
    <2> SUFFICES ASSUME HooksInv
                 PROVE  ProcessIsRestored
      OBVIOUS
    <2>1. lock \in Threads \/ (builtins = "full" /\ env \in wanted)
      BY DEF HooksInv, HooksTypeOK, SandboxInv
    <2>2. ASSUME lock \in Threads
          PROVE  /\ builtins # "full" =>
                       call[lock].pc \in {"restrict", "handler", "restore", "refill"}
                 /\ env \notin wanted => call[lock].pc = "restore env"
      BY <2>2, InTheSandbox DEF HooksInv, SandboxInv
    <2> QED
      BY <2>1, <2>2 DEF ProcessIsRestored, At
  <1> QED
    BY <1>1, HooksInvHolds, PTL

\* An operation that has been done, or that the policy refuses, is tried again only when
\* its record could not be written or names were missing, however often it is tried.
THEOREM RerunIsExplainedHolds == Spec => []RerunIsExplained
  <1>1. HooksInv => RerunIsExplained
    BY DEF HooksInv
  <1> QED
    BY <1>1, HooksInvHolds, PTL

\* A record that can be read was begun.
LEMMA ReadIsBegun ==
    ASSUME HooksTypeOK, NEW e, NEW p \in Files, NEW s, NEW i \in RecordsOf(e, p, s)
    PROVE  /\ i \in Starts[p]
           /\ Entry(p, file[p][i]) = [path |-> p, by |-> e.by, n |-> e.call.n, status |-> s]
  <1>1. /\ i \in 1..Len(file[p])
        /\ file[p][i].part = "whole" \/ file[p][i].part = "head"
        /\ file[p][i].by = e.by /\ file[p][i].n = e.call.n /\ file[p][i].status = s
    BY DEF RecordsOf, Lines
  <1> QED
    BY <1>1 DEF Starts, Entry

\* There is at most one of a call and a status.
LEMMA ReadOnce ==
    ASSUME HooksTypeOK, BegunOnce, NEW e, NEW p \in Files, NEW s
    PROVE  Cardinality(RecordsOf(e, p, s)) <= 1
  <1>1. \A i, j \in RecordsOf(e, p, s) : i = j
    <2> SUFFICES ASSUME NEW i \in RecordsOf(e, p, s), NEW j \in RecordsOf(e, p, s)
                 PROVE  i = j
      OBVIOUS
    <2>1. i \in Starts[p] /\ j \in Starts[p]
      BY ReadIsBegun
    <2>2. Entry(p, file[p][i]) = [path |-> p, by |-> e.by, n |-> e.call.n, status |-> s]
      BY ReadIsBegun
    <2>3. Entry(p, file[p][j]) = [path |-> p, by |-> e.by, n |-> e.call.n, status |-> s]
      BY ReadIsBegun
    <2> QED
      BY <2>1, <2>2, <2>3 DEF BegunOnce
  <1>2. CASE RecordsOf(e, p, s) = {}
    BY <1>2, FS_EmptySet
  <1>3. CASE RecordsOf(e, p, s) # {}
    <2>1. PICK i : i \in RecordsOf(e, p, s)
      BY <1>3
    <2>2. RecordsOf(e, p, s) = {i}
      BY <1>1, <2>1
    <2>3. Cardinality({i}) = 1
      BY FS_Singleton
    <2> QED
      BY <2>2, <2>3
  <1> QED
    BY <1>2, <1>3

\* Where every line that was begun can be read, so can every record.
LEMMA BegunIsRead ==
    ASSUME HooksTypeOK, NEW e, NEW s, e.call.path \in Files, Sound(e.call.path),
           Of(e.by, e.call, s) \in Begun
    PROVE  RecordsOf(e, e.call.path, s) # {}
  <1>1. PICK q \in Files : \E i \in Starts[q] : Of(e.by, e.call, s) = Entry(q, file[q][i])
    BY DEF Begun
  <1>2. PICK i \in Starts[q] : Of(e.by, e.call, s) = Entry(q, file[q][i])
    BY <1>1
  <1>3. /\ q = e.call.path /\ file[q][i].by = e.by /\ file[q][i].n = e.call.n
        /\ file[q][i].status = s
    BY <1>2 DEF Of, Entry
  <1>4. i \in 1..Len(file[q]) /\ file[q][i].part # "tail"
    BY DEF Starts
  <1>5. i \in Lines(q)
    BY <1>3, <1>4 DEF Sound
  <1> QED
    BY <1>3, <1>5 DEF RecordsOf

\* The audit files tell what ran: no success record of what did not return, no failure
\* record of what did, beside a success record or not, unless its record could not be
\* written or names were missing, never two of one status, no run of a request the
\* policy refuses, a record of every call nothing went wrong with, and none of a plan
\* json.dumps refuses.
THEOREM AuditTellsWhatRanHolds == Spec => []AuditTellsWhatRan
  <1>1. HooksInv => AuditTellsWhatRan
    <2> SUFFICES ASSUME HooksInv, NEW e \in ended,
                        NEW c, c = e.call,
                        NEW good, good = RecordsOf(e, c.path, "success"),
                        NEW bad, bad = RecordsOf(e, c.path, "failure")
                 PROVE  /\ good # {} => c.ran = "returned"
                        /\ bad # {} /\ c.ran = "returned" => c.failed \/ c.disturbed
                        /\ c.request.plan # "plain" => good = {} /\ bad = {}
                        /\ Cardinality(good) <= 1 /\ Cardinality(bad) <= 1
                        /\ Verdict(c.request) # "none" => c.ran = "no"
                        /\ ~c.failed /\ ~c.disturbed /\ Sound(c.path) =>
                              IF c.ran = "returned" THEN good # {} ELSE bad # {}
      BY DEF AuditTellsWhatRan
    <2>1. HooksTypeOK /\ BegunOnce /\ c \in Calls /\ c.path \in Files
      BY DEF HooksInv, HooksTypeOK, Calls
    <2>2. EndedInv(e)
      BY DEF HooksInv
    <2>3. /\ good # {} => Of(e.by, c, "success") \in Begun
          /\ bad # {} => Of(e.by, c, "failure") \in Begun
      <3>1. \A s : \A i \in RecordsOf(e, c.path, s) : Of(e.by, c, s) \in Begun
        <4> SUFFICES ASSUME NEW s, NEW i \in RecordsOf(e, c.path, s)
                     PROVE  Of(e.by, c, s) \in Begun
          OBVIOUS
        <4>1. i \in Starts[c.path] /\ Entry(c.path, file[c.path][i]) = Of(e.by, c, s)
          BY <2>1, ReadIsBegun DEF Of
        <4> QED
          BY <2>1, <4>1 DEF Begun
      <3> QED
        BY <3>1
    <2>4. Cardinality(good) <= 1
      BY <2>1, ReadOnce
    <2>5. Cardinality(bad) <= 1
      BY <2>1, ReadOnce
    <2>6. ~c.failed /\ ~c.disturbed /\ Sound(c.path) /\ c.ran = "returned" => good # {}
      BY <2>1, <2>2, BegunIsRead DEF EndedInv, Marked
    <2>7. ~c.failed /\ ~c.disturbed /\ Sound(c.path) /\ c.ran # "returned" => bad # {}
      BY <2>1, <2>2, BegunIsRead DEF EndedInv, Marked
    <2> QED
      BY <2>2, <2>3, <2>4, <2>5, <2>6, <2>7 DEF EndedInv, Refused, Marked
  <1> QED
    BY <1>1, HooksInvHolds, PTL
=============================================================================
