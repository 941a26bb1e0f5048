--------------------------- MODULE MCChildProcesses ---------------------------
(* Instances of ChildProcesses for TLC.                                    *)
EXTENDS ChildProcesses, TLC

CONSTANTS main, worker
================================================================================
