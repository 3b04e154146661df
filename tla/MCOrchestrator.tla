--------------------------- MODULE MCOrchestrator ---------------------------
(***************************************************************************)
(* Small instances of Orchestrator.                                        *)
(***************************************************************************)
EXTENDS Orchestrator

CONSTANTS d1, d2, n0, r1, r2, r6

\* run_host_discovery: every ping is scheduled, then they are waited for.
Discovery == [c \in Callers |-> <<r1, r2, r6, "wait">>]
=============================================================================
