----------------------------- MODULE MCFileLock -----------------------------
(* Instances of FileLock for TLC.                                          *)
EXTENDS FileLock, TLC

CONSTANTS webhook, pump, worker, server, run, cli

\* The server's webhook handler and scheduler, and a worker process.
TwoProcesses == webhook :> server @@ pump :> server @@ worker :> run

\* Three processes.
ThreeProcesses == webhook :> server @@ worker :> run @@ pump :> cli
=============================================================================
