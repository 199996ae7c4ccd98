---------------------------- MODULE MCAgentRuns ----------------------------
(* Small instances of AgentRuns: all runs belong to one task.  Workers are *)
(* interchangeable: no definition names one, and the runs that use the     *)
(* symmetry check no liveness.                                             *)
EXTENDS AgentRuns, TLC

CONSTANT t1

OneTask == [r \in Runs |-> t1]

AnyWorker == Permutations(Workers)
=============================================================================
