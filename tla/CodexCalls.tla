------------------------------ MODULE CodexCalls -------------------------------
(***************************************************************************)
(* CodexSubprocessLlm.complete: up to two prompt forms, each of them up to *)
(* two runs of `codex exec` (run_with_transient_retry), each run a process *)
(* of its own with the whole Timeout.  A run is one step: ChildProcesses   *)
(* shows that it ends.                                                     *)
(***************************************************************************)
EXTENDS AdapterCalls

CONSTANTS ExecReports,  \* usage `codex exec` may print, None for none
          Grace,        \* longest end of a process after its timeout
          Pause         \* between the two runs

ASSUME CodexConstants ==
  Grace \in Nat /\ Pause \in Nat /\ ExecReports \subseteq UsageType \cup {None}

VARIABLE try   \* the run of this prompt form, 1 or 2

codexVars == <<callVars, try>>

Runs == adapter = "codex" /\ phase = "busy" /\ UNCHANGED call

\* _usage_mapping: a total, or both parts of it.
ReadExec(report) ==
  IF report = None THEN None ELSE EngineReads(report)

ExecCost(report) == IF report.total # None THEN report.total ELSE Parts(report)

Request == requests' = requests + 1

CodexFails(d) ==
  /\ phase' = "failed" /\ elapsed' = elapsed + d /\ UNCHANGED <<form, try>>

\* The run ends within its time and leaves a message.  An answer that is no JSON
\* object is asked for once more in the second form, which has its own two runs.
CodexAnswers(report, object, d) ==
  /\ Runs /\ d <= Timeout /\ elapsed' = elapsed + d
  /\ Request /\ Tell(report, ExecCost(report)) /\ Account(ReadExec(report))
  /\ \/ /\ ~structured \/ object
        /\ phase' = "answered" /\ UNCHANGED <<form, try>>
     \/ /\ structured /\ ~object /\ form = 1
        /\ form' = 2 /\ try' = 1 /\ UNCHANGED phase
     \/ /\ structured /\ ~object /\ form = 2
        /\ phase' = "failed" /\ UNCHANGED <<form, try>>

\* Exit status, no message, an empty one, output that is not UTF-8: no retry.
CodexBreaks(d) ==
  /\ Runs /\ d <= Timeout
  /\ Request /\ CodexFails(d) /\ untold' = TRUE /\ UNCHANGED <<usage, told>>

\* FileNotFoundError is not retried, whatever was not found.
CodexNotFound(d) ==
  /\ Runs /\ d <= Timeout
  /\ CodexFails(d) /\ usage' = Lost /\ UNCHANGED history

\* Mutant: the retry never gives up.
CodexIsLost_Again(d) ==
  /\ Runs /\ d <= Timeout + Grace
  /\ Request /\ usage' = Lost /\ untold' = TRUE /\ UNCHANGED <<told, form>>
  /\ try' = 3 - try
  /\ elapsed' = elapsed + d + Pause /\ UNCHANGED phase

\* TimeoutExpired or OSError: no process could be started, or it was ended, or
\* its directory could not be made or removed, though it may have answered.
CodexIsLost(d) ==
  /\ Runs /\ d <= Timeout + Grace
  /\ Request /\ usage' = Lost /\ untold' = TRUE /\ UNCHANGED <<told, form>>
  /\ \/ /\ try = 1 /\ try' = 2
        /\ elapsed' = elapsed + d + Pause /\ UNCHANGED phase
     \/ /\ try = 2 /\ UNCHANGED try
        /\ elapsed' = elapsed + d /\ phase' = "failed"

CodexStep ==
  \E d \in Delays :
    \/ \E report \in ExecReports, object \in BOOLEAN : CodexAnswers(report, object, d)
    \/ CodexBreaks(d) \/ CodexNotFound(d) \/ CodexIsLost(d)

-----------------------------------------------------------------------------

\* One logical call takes at most the time of four runs and two pauses, though
\* --agent-timeout is the limit of each run.
CodexTimeIsBounded ==
  adapter = "codex" => elapsed <= 4 * (Timeout + Grace) + 2 * Pause

\* README.md:233: "`--agent-timeout` caps one agent call".
AgentTimeoutCapsCall == phase = "answered" => elapsed <= Timeout
================================================================================
