----------------------------- MODULE MCTaskRun -----------------------------
(* An instance of TaskRun for TLC.                                         *)
EXTENDS TaskRun
=============================================================================
