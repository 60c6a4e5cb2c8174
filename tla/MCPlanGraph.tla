---------------------------- MODULE MCPlanGraph ----------------------------
(***************************************************************************)
(* PlanGraph on every dependency relation a small plan can have: lists of  *)
(* up to MaxMentions ids, which may repeat one, or a single unknown id.    *)
(***************************************************************************)
EXTENDS PlanGraph

CONSTANT MaxMentions

MCDependencies ==
    {f \in [0..N -> 0..MaxMentions] :
        /\ SumFunction(f) <= MaxMentions
        /\ f[0] > 0 => SumFunction(f) = 1}
=============================================================================
