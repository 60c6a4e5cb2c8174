--------------------------- MODULE ExecutionHooks ---------------------------
(***************************************************************************)
(* execute_with_policy (app/execution/hooks/execution_hooks.py) as         *)
(* ExecutionRunner.run calls it, with the policy validator before, the     *)
(* audit logger behind and, inside the engine, the ExecutionSandbox        *)
(* (app/execution/sandbox.py), in threads of one process.                  *)
(*                                                                         *)
(* The sandbox empties the builtins of the whole process and fills them    *)
(* with a few; the code of the hook, run by another thread meanwhile,      *)
(* finds names missing and gets NameError.  builtins is "full", "safe"     *)
(* (SAFE_BUILTINS, which hold len, str and Exception but neither           *)
(* isinstance nor dict) or "none", between the clear and the update.       *)
(***************************************************************************)
EXTENDS Integers, Sequences, FiniteSets, FiniteSetsExt

CONSTANTS
    Threads, NoThread,
    Paths, DefaultPath, \* of the audit file: what may be configured, and the default
    None, Malformed,    \* a value that is not given, one of the wrong type
    Requests,           \* the requests made; "plan" says what the plan in one can bear:
                        \* anything, no json.dumps, or not even a deepcopy
    Policy,
    Bounds              \* how a behaviour starts and how far it goes: the environment,
                        \* what each thread may ask and how many calls it makes, how many
                        \* writes and closes go wrong, and how often others change the
                        \* environment

ASSUME HooksAssumption ==
    /\ NoThread \notin Threads /\ None \notin Paths /\ DefaultPath \notin Paths
    /\ \A q \in Requests : /\ DOMAIN q = {"operation", "environment", "runtime", "plan"}
                           /\ q.plan \in {"plain", "unwritable", "uncopyable"}
    /\ Policy.maxRuntime = None \/ Policy.maxRuntime \in Nat
    /\ Bounds \subseteq [env : Paths \cup {None}, asks : [Threads -> SUBSET Requests],
                           calls : [Threads -> Nat], faults : Nat, configured : Nat]

VARIABLES
    bound,      \* the bounds of this behaviour
    builtins,
    env,        \* EXECUTION_AUDIT_LOG_PATH, None where it is not set
    lock,       \* _BUILTINS_LOCK
    saved,      \* original_environ of the thread that holds it
    file,       \* what each audit file holds
    call,       \* the call each thread is in
    ended,      \* the calls that are over
    faults,
    configured, \* how often others have set the variable
    wanted      \* the values it may have on their account

vars == <<bound, builtins, env, lock, saved, file, call, ended, faults, configured, wanted>>

\* ran is what became of the engine, success what its output says; recording is the
\* status of the record under way.  disturbed and failed say that a name was missing
\* and that a record could not be made, written or closed; they serve the properties
\* only.
Idle == [pc |-> "idle", n |-> 0, operation |-> 0, request |-> None, path |-> DefaultPath,
         ran |-> "no", success |-> FALSE, error |-> "none", recording |-> "none",
         disturbed |-> FALSE, failed |-> FALSE, result |-> "none"]

Init ==
    /\ bound \in Bounds
    /\ builtins = "full" /\ lock = NoThread /\ saved = None
    /\ env = bound.env /\ wanted = {env}
    /\ file = [p \in Paths \cup {DefaultPath} |-> <<>>]
    /\ call = [t \in Threads |-> Idle]
    /\ ended = {} /\ faults = 0 /\ configured = 0

-----------------------------------------------------------------------------
(***************************************************************************)
(* PolicyValidator.validate_or_raise.                                      *)
(***************************************************************************)
Codes == <<"missing_operation", "invalid_environment", "invalid_runtime_type",
           "invalid_runtime_value", "operation_not_allowed", "operation_blocked",
           "environment_not_allowed", "runtime_exceeded">>

Given(value) == value \notin {None, Malformed}

\* Whether a request breaks each rule, in the order they are looked at.
Broken(q) ==
    <<~Given(q.operation),
      q.environment = Malformed,
      q.runtime = Malformed,
      Given(q.runtime) /\ q.runtime < 0,
      Policy.allowed # {} /\ q.operation \notin Policy.allowed,
      q.operation \in Policy.blocked,
      Policy.environments # {} /\ q.environment \notin Policy.environments,
      Policy.maxRuntime # None /\ Given(q.runtime) /\ q.runtime > Policy.maxRuntime>>

Verdict(q) ==
    LET broken == {i \in 1..Len(Codes) : Broken(q)[i]}
    IN  IF broken = {} THEN "none" ELSE Codes[Min(broken)]

-----------------------------------------------------------------------------
At(t, pc) == call[t].pc = pc

Becomes(t, c) == call' = [call EXCEPT ![t] = c]

\* An exception in the try block of execute_with_policy, and one out of it.
Caught(t, error) == [call[t] EXCEPT !.pc = "caught", !.error = error]

Raised(t, error) == [call[t] EXCEPT !.pc = "raised", !.error = error]

\* The same for a name that is missing.
Disturbed(c) == [c EXCEPT !.disturbed = TRUE]

\* ExecutionRunner.run: a new operation, or one whose last result may be retried.
Begin(t) ==
    /\ At(t, "idle") /\ call[t].n < bound.calls[t]
    /\ \/ \E q \in bound.asks[t] :
             Becomes(t, [Idle EXCEPT !.pc = "resolve", !.n = call[t].n + 1,
                                     !.operation = call[t].n + 1, !.request = q])
       \/ /\ call[t].result = "retryable"
          /\ Becomes(t, [Idle EXCEPT !.pc = "resolve", !.n = call[t].n + 1,
                                     !.operation = call[t].operation,
                                     !.request = call[t].request])
    /\ UNCHANGED <<bound, builtins, env, lock, saved, file, ended, faults, configured, wanted>>

\* AuditLogger() looks up its file.
AuditPath == IF env = None THEN DefaultPath ELSE env

\* The logger and the snapshot of the request, before the try block: where the plan
\* cannot be copied, the call ends without a record.
Resolve(t) ==
    /\ At(t, "resolve")
    /\ IF builtins # "full"
       THEN Becomes(t, Disturbed(Raised(t, "runtime")))
       ELSE IF call[t].request.plan = "uncopyable"
       THEN \E error \in {"value", "runtime"} :
               Becomes(t, [Raised(t, error) EXCEPT !.failed = TRUE])
       ELSE Becomes(t, [call[t] EXCEPT !.pc = "validate", !.path = AuditPath])
    /\ UNCHANGED <<bound, builtins, env, lock, saved, file, ended, faults, configured, wanted>>

Validate(t) ==
    /\ At(t, "validate")
    /\ Becomes(t, IF builtins # "full" THEN Disturbed(Caught(t, "runtime"))
                  ELSE IF Verdict(call[t].request) # "none" THEN Caught(t, "policy")
                  ELSE [call[t] EXCEPT !.pc = "engine"])
    /\ UNCHANGED <<bound, builtins, env, lock, saved, file, ended, faults, configured, wanted>>

-----------------------------------------------------------------------------
(***************************************************************************)
(* The engine.                                                             *)
(***************************************************************************)
\* What an engine may do: it raises (a plan that is none, or anything else), it
\* returns a report, or it comes to a task with a handler.  Where names are missing,
\* the executor reports a failed task and other code raises.
RunEngine(t) ==
    /\ At(t, "engine")
    /\ LET ran(how) == [call[t] EXCEPT !.ran = how]
           returns(c, success) == [c EXCEPT !.pc = "report", !.success = success]
           raises(c, error) == [c EXCEPT !.pc = "caught", !.error = error]
       IN  IF builtins = "full"
           THEN \/ Becomes(t, [call[t] EXCEPT !.pc = "enter"])
                \/ \E success \in BOOLEAN : Becomes(t, returns(ran("returned"), success))
                \/ \E error \in {"value", "runtime"} : Becomes(t, raises(ran("raised"), error))
           ELSE \/ Becomes(t, returns(Disturbed(ran("returned")), FALSE))
                \/ Becomes(t, raises(Disturbed(ran("raised")), "runtime"))
    /\ UNCHANGED <<bound, builtins, env, lock, saved, file, ended, faults, configured, wanted>>

\* ExecutionSandbox.execute, for a handler.
EnterSandbox(t) ==
    /\ At(t, "enter") /\ lock = NoThread
    /\ lock' = t /\ saved' = env
    /\ Becomes(t, [call[t] EXCEPT !.pc = "sandbox"])
    /\ UNCHANGED <<bound, builtins, env, file, ended, faults, configured, wanted>>

ClearBuiltins(t) ==
    /\ At(t, "sandbox") \/ At(t, "restore")
    /\ builtins' = "none"
    /\ Becomes(t, [call[t] EXCEPT !.pc = IF @ = "sandbox" THEN "restrict" ELSE "refill"])
    /\ UNCHANGED <<bound, env, lock, saved, file, ended, faults, configured, wanted>>

RestrictBuiltins(t) ==
    /\ At(t, "restrict")
    /\ builtins' = "safe"
    /\ Becomes(t, [call[t] EXCEPT !.pc = "handler"])
    /\ UNCHANGED <<bound, env, lock, saved, file, ended, faults, configured, wanted>>

\* The handler returns or raises: the sandbox makes a result of both, and the
\* executor a completed or a failed task.
Handler(t) ==
    /\ At(t, "handler")
    /\ \E success \in BOOLEAN :
          Becomes(t, [call[t] EXCEPT !.pc = "restore", !.ran = "returned", !.success = success])
    /\ UNCHANGED <<bound, builtins, env, lock, saved, file, ended, faults, configured, wanted>>

RefillBuiltins(t) ==
    /\ At(t, "refill")
    /\ builtins' = "full"
    /\ Becomes(t, [call[t] EXCEPT !.pc = "clear env"])
    /\ UNCHANGED <<bound, env, lock, saved, file, ended, faults, configured, wanted>>

ClearEnv(t) ==
    /\ At(t, "clear env")
    /\ env' = None
    /\ Becomes(t, [call[t] EXCEPT !.pc = "restore env"])
    /\ UNCHANGED <<bound, builtins, lock, saved, file, ended, faults, configured, wanted>>

LeaveSandbox_KeepsLock(t) ==
    /\ At(t, "restore env")
    /\ env' = IF saved = None THEN env ELSE saved
    /\ Becomes(t, [call[t] EXCEPT !.pc = "report"])
    /\ UNCHANGED <<bound, builtins, lock, saved, file, ended, faults, configured, wanted>>

LeaveSandbox_ForgetsEnv(t) ==
    /\ At(t, "restore env")
    /\ lock' = NoThread /\ saved' = None
    /\ Becomes(t, [call[t] EXCEPT !.pc = "report"])
    /\ UNCHANGED <<bound, builtins, env, file, ended, faults, configured, wanted>>

\* What was set is set again; what was not set is left as it is.
LeaveSandbox(t) ==
    /\ At(t, "restore env")
    /\ env' = IF saved = None THEN env ELSE saved
    /\ lock' = NoThread /\ saved' = None
    /\ Becomes(t, [call[t] EXCEPT !.pc = "report"])
    /\ UNCHANGED <<bound, builtins, file, ended, faults, configured, wanted>>

\* The engine makes its report and the hook copies it.
Report(t) ==
    /\ At(t, "report")
    /\ IF builtins = "full"
       THEN Becomes(t, [call[t] EXCEPT !.pc = "prepare", !.recording = "success"])
       ELSE \E c \in {call[t], [call[t] EXCEPT !.ran = "raised"]} :
               Becomes(t, Disturbed([c EXCEPT !.pc = "caught", !.error = "runtime"]))
    /\ UNCHANGED <<bound, builtins, env, lock, saved, file, ended, faults, configured, wanted>>

-----------------------------------------------------------------------------
(***************************************************************************)
(* AuditLogger.write_record: the line is made and the file opened, then the *)
(* line is written at once, or in two pieces, or none or half of it when a *)
(* write raises.  The loop looks up len before every write and after the   *)
(* last one.                                                               *)
(***************************************************************************)
Piece(t, part) == [by |-> t, n |-> call[t].n, status |-> call[t].recording, part |-> part]

Adds(t, part) == file' = [file EXCEPT ![call[t].path] = Append(@, Piece(t, part))]

\* write_record raised: in the try block, or in the handler of an exception.
Unwritten(t, error) ==
    [call[t] EXCEPT !.pc = IF call[t].recording = "success" THEN "caught" ELSE "raised",
                    !.error = error]

Failed(c) == [c EXCEPT !.failed = TRUE]

Fault == faults < bound.faults /\ faults' = faults + 1

\* mkdir, json.dumps of the record, in which the plan is, and open.
Prepare(t) ==
    /\ At(t, "prepare")
    /\ \/ /\ builtins = "full" /\ call[t].request.plan = "plain"
          /\ Becomes(t, [call[t] EXCEPT !.pc = "write"]) /\ UNCHANGED faults
       \/ /\ builtins = "full" /\ call[t].request.plan # "plain"
          /\ \E error \in {"value", "runtime"} : Becomes(t, Failed(Unwritten(t, error)))
          /\ UNCHANGED faults
       \/ /\ builtins = "full" /\ Fault
          /\ Becomes(t, Failed(Unwritten(t, "runtime")))
       \/ /\ builtins # "full"
          /\ Becomes(t, Disturbed(Unwritten(t, "runtime"))) /\ UNCHANGED faults
    /\ UNCHANGED <<bound, builtins, env, lock, saved, file, ended, configured, wanted>>

Write(t) ==
    /\ At(t, "write") /\ builtins # "none"
    /\ \/ /\ Adds(t, "whole") /\ Becomes(t, [call[t] EXCEPT !.pc = "close"])
          /\ UNCHANGED faults
       \/ /\ Adds(t, "head") /\ Becomes(t, [call[t] EXCEPT !.pc = "continue"])
          /\ Fault
    /\ UNCHANGED <<bound, builtins, env, lock, saved, ended, configured, wanted>>

Continue(t) ==
    /\ At(t, "continue") /\ builtins # "none"
    /\ Adds(t, "tail") /\ Becomes(t, [call[t] EXCEPT !.pc = "close"])
    /\ UNCHANGED <<bound, builtins, env, lock, saved, ended, faults, configured, wanted>>

\* A write raises, the first or the second.
WriteFails(t) ==
    /\ At(t, "write") \/ At(t, "continue")
    /\ builtins # "none" /\ Fault
    /\ Becomes(t, Failed(Unwritten(t, "runtime")))
    /\ UNCHANGED <<bound, builtins, env, lock, saved, file, ended, configured, wanted>>

\* There is no len, before a write or when the whole line has been written.
LenIsMissing(t) ==
    /\ At(t, "write") \/ At(t, "continue") \/ At(t, "close")
    /\ builtins = "none"
    /\ Becomes(t, Disturbed(Unwritten(t, "runtime")))
    /\ UNCHANGED <<bound, builtins, env, lock, saved, file, ended, faults, configured, wanted>>

\* The loop is over, and the close may raise too.
Close(t) ==
    /\ At(t, "close") /\ builtins # "none"
    /\ \/ /\ Becomes(t, [call[t] EXCEPT !.pc = IF call[t].recording = "success"
                                               THEN "return"
                                               ELSE "raised"])
          /\ UNCHANGED faults
       \/ /\ Fault
          /\ Becomes(t, Failed(Unwritten(t, "runtime")))
    /\ UNCHANGED <<bound, builtins, env, lock, saved, file, ended, configured, wanted>>

-----------------------------------------------------------------------------
HandleException_SkipsPolicy(t) ==
    /\ At(t, "caught")
    /\ Becomes(t, IF builtins = "full"
                  THEN IF call[t].error = "policy"
                       THEN [call[t] EXCEPT !.pc = "raised"]
                       ELSE [call[t] EXCEPT !.pc = "prepare", !.recording = "failure"]
                  ELSE Disturbed(Raised(t, "runtime")))
    /\ UNCHANGED <<bound, builtins, env, lock, saved, file, ended, faults, configured, wanted>>

\* The except clause of execute_with_policy looks at the class of the exception with
\* isinstance, and then writes a failure record.
HandleException(t) ==
    /\ At(t, "caught")
    /\ Becomes(t, IF builtins = "full"
                  THEN [call[t] EXCEPT !.pc = "prepare", !.recording = "failure"]
                  ELSE Disturbed(Raised(t, "runtime")))
    /\ UNCHANGED <<bound, builtins, env, lock, saved, file, ended, faults, configured, wanted>>

Ends(t, c, result) ==
    /\ ended' = ended \cup {[by |-> t, call |-> [c EXCEPT !.pc = "idle", !.error = "none",
                                                       !.recording = "none"]]}
    /\ Becomes(t, [Idle EXCEPT !.n = c.n, !.operation = c.operation,
                               !.request = c.request, !.result = result])

Classified_All(error) == "retryable"

\* _classify_exception: what neither the policy nor the plan is to blame for may be
\* retried.
Classified(error) == IF error \in {"policy", "value"} THEN "final" ELSE "retryable"

\* ExecutionRunner.run catches what was raised; where not even Exception has a
\* meaning, it escapes.
Catch(t) ==
    /\ At(t, "raised")
    /\ IF builtins = "none"
       THEN Ends(t, Disturbed(call[t]), "escaped")
       ELSE Ends(t, call[t], Classified(call[t].error))
    /\ UNCHANGED <<bound, builtins, env, lock, saved, file, faults, configured, wanted>>

\* What was returned is made a result, outside the try block.  A failed report
\* may be retried.
Return(t) ==
    /\ At(t, "return")
    /\ IF builtins = "full"
       THEN Ends(t, call[t], IF call[t].success THEN "done" ELSE "retryable")
       ELSE Ends(t, Disturbed(call[t]), "escaped")
    /\ UNCHANGED <<bound, builtins, env, lock, saved, file, faults, configured, wanted>>

\* Other code of the process sets the variable.
Configure ==
    /\ configured < bound.configured /\ builtins = "full"
    /\ \E p \in Paths :
          env' = p /\ wanted' = {p} \cup IF lock = NoThread THEN {} ELSE wanted
    /\ configured' = configured + 1
    /\ UNCHANGED <<bound, builtins, lock, saved, file, call, ended, faults>>

ThreadStep(t) ==
    \/ Resolve(t) \/ Validate(t)
    \/ RunEngine(t) \/ EnterSandbox(t) \/ ClearBuiltins(t) \/ RestrictBuiltins(t)
    \/ Handler(t) \/ RefillBuiltins(t) \/ ClearEnv(t) \/ LeaveSandbox(t)
    \/ Report(t) \/ Prepare(t) \/ Write(t) \/ Continue(t) \/ WriteFails(t)
    \/ LenIsMissing(t) \/ Close(t)
    \/ HandleException(t) \/ Catch(t) \/ Return(t)

Resting ==
    /\ \A t \in Threads : At(t, "idle") /\ call[t].n = bound.calls[t]
    /\ UNCHANGED vars

Next == (\E t \in Threads : Begin(t) \/ ThreadStep(t)) \/ Configure \/ Resting

\* A thread that is in a call goes on; engines, handlers and writes are assumed to
\* return.  Nothing is assumed of the order in which the lock is given.
Fairness == \A t \in Threads : WF_vars(ThreadStep(t))

Spec == Init /\ [][Next]_vars /\ Fairness

-----------------------------------------------------------------------------
(***************************************************************************)
(* Properties.                                                             *)
(***************************************************************************)
\* The lines of a file that can be read: a record in one piece or in two that follow
\* each other, behind a line that has ended.
Lines(p) ==
    LET f == file[p]
        starts(i) == i = 1 \/ f[i - 1].part # "head"
    IN  {i \in 1..Len(f) : starts(i) /\ \/ f[i].part = "whole"
                                        \/ /\ f[i].part = "head" /\ i < Len(f)
                                           /\ f[i + 1] = [f[i] EXCEPT !.part = "tail"]}

RecordsOf(e, p, status) ==
    {i \in Lines(p) : file[p][i].by = e.by /\ file[p][i].n = e.call.n
                      /\ file[p][i].status = status}

\* Every line that was begun can be read.
Sound(p) == \A i \in 1..Len(file[p]) : file[p][i].part # "tail" => i \in Lines(p)

\* The audit tells what ran: a success record only of an operation whose engine
\* returned; a failure record of such a one, with the success record or without it,
\* only when that could not be written or names were missing; never two of one kind,
\* and no run of a request the policy refuses.  Where nothing went wrong with the call
\* or with its file, there is exactly one record of each call; of a plan json.dumps
\* refuses there is none, though the operation may have run.
AuditTellsWhatRan ==
    \A e \in ended :
       LET c == e.call
           good == RecordsOf(e, c.path, "success")
           bad == RecordsOf(e, c.path, "failure")
       IN  /\ good # {} => c.ran = "returned"
           /\ bad # {} /\ c.ran = "returned" => c.failed \/ c.disturbed
           /\ c.request.plan # "plain" => good = {} /\ bad = {}
           /\ Cardinality(good) <= 1 /\ Cardinality(bad) <= 1
           /\ Verdict(c.request) # "none" => c.ran = "no"
           /\ ~c.failed /\ ~c.disturbed /\ Sound(c.path) =>
                 IF c.ran = "returned" THEN good # {} ELSE bad # {}

\* An operation that has been done, or that the policy refuses, is tried again only
\* when its record could not be written or names were missing: never because of
\* what the engine or the policy said.
RerunIsExplained ==
    \A d, e \in ended :
       /\ d.by = e.by /\ d.call.operation = e.call.operation /\ d.call.n < e.call.n
       /\ (d.call.ran = "returned" /\ d.call.success) \/ Verdict(d.call.request) # "none"
       => d.call.failed \/ d.call.disturbed

\* Whatever handlers do, whoever meets whom: when no thread is in the sandbox the
\* builtins are whole and the environment is as it was set, and what it lacks between
\* its clear and its update it lacks only then.  A change made beside a sandbox may be
\* undone, nothing else is.
ProcessIsRestored ==
    /\ builtins # "full" => \E t \in Threads :
          lock = t /\ call[t].pc \in {"restrict", "handler", "restore", "refill"}
    /\ env \notin wanted => \E t \in Threads : lock = t /\ At(t, "restore env")

\* Every call ends, whatever raises in it and whoever waits for the lock.
EveryCallEnds == \A t \in Threads : call[t].pc # "idle" ~> call[t].pc = "idle"
=============================================================================
