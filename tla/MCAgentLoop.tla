---------------------------- MODULE MCAgentLoop ----------------------------
(***************************************************************************)
(* AgentLoop, by itself and under LegacyOrchestrator, for TLC.  Memory is  *)
(* empty, or holds ten successes and a decision, a violation or none, that *)
(* the copies of a retried run push out of sight, and right behind them as *)
(* many entries as a run can bring to a rate of exactly 0.8.               *)
(***************************************************************************)
EXTENDS LegacyOrchestrator

Past(stream, what) == [stream |-> stream, what |-> what]

Runs(n, what) == [i \in 1..n |-> Past("execution", what)]

LongAgo(what) ==
    Runs(10, "success") \o <<Past("decision", what)>> \o Runs(2, "success") \o Runs(1, "failed")

MCPriors == {<<>>, LongAgo("violation"), LongAgo("other")}
=============================================================================
