----------------------------- MODULE MCJobQueue -----------------------------
(* Three jobs on two priorities for two workers.                           *)
EXTENDS JobQueue

CONSTANTS j1, j2, j3, w1, w2

MCJobs     == {j1, j2, j3}
MCPriority == [j \in MCJobs |-> IF j = j3 THEN 3 ELSE 1]
MCUnknown  == {j3}
MCWorkers  == {w1, w2}
=============================================================================
