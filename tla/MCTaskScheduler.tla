-------------------------- MODULE MCTaskScheduler --------------------------
(***************************************************************************)
(* A small instance of TaskScheduler by itself; MCOrchestrator has those   *)
(* in which the orchestrator uses it.                                      *)
(***************************************************************************)
EXTENDS TaskScheduler

CONSTANTS c1, t1, t2, t3, t4

\* run_host_discovery: every ping is scheduled, then they are waited for.
Discovery == [c \in {c1} |-> <<t1, t2, t3, t4, "wait">>]
=============================================================================
