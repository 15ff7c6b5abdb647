---------------------------- MODULE MCWorkflowJobs ----------------------------
(***************************************************************************)
(* Small instances of WorkflowJobs for TLC.                                 *)
(***************************************************************************)
EXTENDS WorkflowJobs, TLC

CONSTANTS j1, c1, c2, w1

MCJobs     == {j1}
MCCallers  == {c1, c2}
MCWatchers == {w1}
=============================================================================
