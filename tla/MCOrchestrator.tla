-------------------------- MODULE MCOrchestrator --------------------------
(***************************************************************************)
(* Orchestrator with the reports an injected engine may return: every      *)
(* status and every combination of small counts, whether or not they agree *)
(* with each other and with a list of up to two tasks.                     *)
(***************************************************************************)
EXTENDS Orchestrator

MCCustomReports ==
    [status : Statuses, total : 0..2, completed : 0..1, failed : 0..1, skipped : 0..1,
     tasks : {<<>>, <<"completed">>, <<"running">>, <<"skipped", "failed">>}]
=============================================================================
