--------------------------- MODULE MCMemoryStore ---------------------------
(***************************************************************************)
(* MemoryStore with the callers of one service, who share its store, and   *)
(* with callers of two services, who do not.                               *)
(***************************************************************************)
EXTENDS MemoryStore

CONSTANTS c1, c2, s1, s2

Shared   == [c \in Callers |-> s1]
Separate == [c \in Callers |-> IF c = c1 THEN s1 ELSE s2]
=============================================================================
