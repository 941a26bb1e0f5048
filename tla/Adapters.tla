------------------------------- MODULE Adapters --------------------------------
(***************************************************************************)
(* The adapters behind LlmPort: the factories choose one of them for the   *)
(* process (default_llm, _host_llm_factory), whose calls then follow one   *)
(* another in a thread.                                                    *)
(***************************************************************************)
EXTENDS CodexCalls, HermesCalls

vars == <<callVars, try, hermes>>

TypeOK == CallTypeOK /\ try \in {1, 2} /\ HermesTypeOK

Init == CallInit /\ try = 1 /\ HermesInit

Begin == BeginCall /\ try' = 1 /\ HermesBegin

Done == phase # "busy" /\ calls = MaxCalls /\ UNCHANGED vars

Next ==
  \/ Begin \/ Done
  \/ CodexStep /\ UNCHANGED hermes
  \/ HermesStep /\ UNCHANGED try

Spec == Init /\ [][Next]_vars

\* The caller's own thread runs and its timers fire; the host, the bridge and
\* their answers may be for ever in coming.
FairSpec ==
  /\ Spec
  /\ WF_vars(CodexStep /\ UNCHANGED hermes)
  /\ WF_vars((KillBridge \/ \E d \in Delays : Prepare(d) \/ Launch(d)) /\ UNCHANGED try)

\* The attribute last_usage of the adapter the engine holds.
LastUsage == IF adapter = "bridge" THEN client ELSE usage.last

Port == INSTANCE LlmPort WITH
  Unknown <- None,
  limit <- IF adapter = "codex" THEN 4 ELSE 2,
  reported <- IF phase = "answered" /\ LastUsage # None THEN LastUsage.total ELSE None

\* At most four runs of codex or two calls of the host serve a call, and the usage
\* the engine finds after it is whole and of this call, or absent
\* (DESIGN.md:186-189: "aggregated real host usage wins when complete").
ImplementsPort == Port!Spec

\* What the engine adds to the tokens of the round is what the journal records
\* for the call, and hence what a resume counts as replayed.
JournalReadsAlike ==
  phase = "answered" /\ LastUsage # None => EngineReads(LastUsage) = RecordReads(LastUsage)

\* A call of codex or of the bridge ends though the process or the host hangs; an
\* llm object of the host that never returns holds its caller for ever.
TimedCallsEnd == phase = "busy" /\ adapter # "host" ~> phase # "busy"
================================================================================
