----------------------------- MODULE AppendLog -----------------------------
(***************************************************************************)
(* What a memory stream promises its callers: records are appended in      *)
(* insertion order, each write is atomic, and an append that returned is   *)
(* in the stream for good.  An append that raised, or whose process died,  *)
(* may or may not have taken effect.                                       *)
(***************************************************************************)
EXTENDS Sequences, Functions

CONSTANT Records

VARIABLES
    log,        \* the stream
    pending,    \* records whose append is under way
    acked       \* records whose append has returned

Init ==
    /\ log = <<>>
    /\ pending = {}
    /\ acked = {}

Request(r) ==
    /\ r \notin pending \cup acked \cup Range(log)
    /\ pending' = pending \cup {r}
    /\ UNCHANGED <<log, acked>>

Commit(r) ==
    /\ r \in pending \ Range(log)
    /\ log' = Append(log, r)
    /\ UNCHANGED <<pending, acked>>

Return(r) ==
    /\ r \in pending \cap Range(log)
    /\ acked' = acked \cup {r}
    /\ pending' = pending \ {r}
    /\ UNCHANGED log

Abandon(S) ==
    /\ pending' = pending \ S
    /\ UNCHANGED <<log, acked>>

Next ==
    \/ \E r \in Records : Request(r) \/ Commit(r) \/ Return(r)
    \/ \E S \in SUBSET pending : Abandon(S)

Spec == Init /\ [][Next]_<<log, pending, acked>>
=============================================================================
