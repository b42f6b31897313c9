----------------------------- MODULE MCEvalDrivers -----------------------------
(* Instance of EvalDrivers for TLC: two episode artifacts, the tasks and the *)
(* report.                                                                   *)
EXTENDS EvalDrivers

CONSTANTS outer, inner, a1, a2, tasks, report, evidence, ucr

MCEpisodeEntries == {[hash |-> a1, type |-> evidence],
                     [hash |-> a2, type |-> ucr]}
MCTasks  == [hash |-> tasks, type |-> evidence]
MCReport == [hash |-> report, type |-> evidence]
=============================================================================
