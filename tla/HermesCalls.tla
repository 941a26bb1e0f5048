------------------------------ MODULE HermesCalls ------------------------------
(***************************************************************************)
(* The two Hermes adapters.  HermesHostLlm asks an llm object of the host, *)
(* once or twice, under one deadline.  HermesSubprocessLlm runs the bridge *)
(* `hermes ultracode-llm` once per call: the bridge process, another       *)
(* actor, serves the call with a HermesHostLlm of its own and prints an    *)
(* envelope.  The client and the bridge read the same clock, but know each *)
(* other's deadline only by the timeout in the request.                    *)
(*                                                                         *)
(* The kinds of errors (the codes) are not told apart.                     *)
(***************************************************************************)
EXTENDS AdapterCalls

CONSTANTS HostReports,  \* usage a host's response may carry, None for none
          ReserveCap    \* _HOST_TIMEOUT_RESERVE_CAP_S

ASSUME HermesConstants ==
  /\ ReserveCap \in Nat /\ HostReports \subseteq UsageType \cup {None}
  /\ None \notin {"ok", "error"}

VARIABLES
  pc,        \* where the call is, in the client or in the bridge
  granted,   \* bridge: time left to the client when it wrote the request
  deadline,  \* of HermesHostLlm.complete
  expires,   \* when the timeout ends that the host was given last
  envelope,  \* what the bridge prints: ok or error
  client,    \* HermesSubprocessLlm.last_usage
  lag,       \* history: time since the request was written outside the host's calls
  late,      \* history: a call of the host overran its timeout
  killed     \* history: the client ended the bridge at its timeout

hermes     == <<pc, granted, deadline, expires, envelope, client, lag, late, killed>>
hermesVars == <<callVars, hermes>>

InBridge == {"starting", "ask", "asking", "print"}

HermesTypeOK ==
  /\ pc \in InBridge \cup {"prepare", "launch", "done"}
  /\ granted \in Nat /\ deadline \in Nat /\ expires \in Nat
  /\ envelope \in {"ok", "error", None}
  /\ client \in UsageType \cup {None}
  /\ lag \in Nat /\ late \in BOOLEAN /\ killed \in BOOLEAN

HermesInit ==
  /\ pc = "done" /\ granted = 0 /\ deadline = 0 /\ expires = 0
  /\ envelope = None /\ client = None /\ lag = 0 /\ late = FALSE /\ killed = FALSE

HermesBegin ==
  /\ pc' = CASE adapter = "codex" -> "done"
             [] adapter = "host" -> "ask"
             [] adapter = "bridge" -> "prepare"
  /\ deadline' = IF adapter = "host" THEN Timeout ELSE 0
  /\ granted' = 0 /\ expires' = 0 /\ envelope' = None /\ client' = None
  /\ lag' = 0 /\ late' = FALSE /\ killed' = FALSE

Served(at) ==
  /\ adapter \in {"host", "bridge"} /\ phase = "busy" /\ pc = at /\ UNCHANGED call

\* Time passes, in a call of the host or outside.
Inside(d)  == elapsed' = elapsed + d /\ UNCHANGED lag
Outside(d) == elapsed' = elapsed + d /\ lag' = lag + d

Ends(outcome) == phase' = outcome /\ pc' = "done" /\ UNCHANGED envelope

-----------------------------------------------------------------------------
(* HermesHostLlm, in the process of the caller or in the bridge.           *)

\* _host_timeout_from_remaining
HostTimeout(left) ==
  left - (IF left \div 2 < ReserveCap THEN left \div 2 ELSE ReserveCap)

\* A host that does not know a number may say 0.
HostCost(report) == IF OrZero(report.total) # 0 THEN report.total ELSE Parts(report)

\* Mutant: a report without a total is kept as it is.
ReadHost_NoTotal(report) ==
  IF report = None THEN None ELSE IF HostCost(report) = 0 THEN None ELSE report

\* _duck_usage keeps the keys of the report and sees to it that there is a total.
ReadHost(report) ==
  IF report = None THEN None
  ELSE IF HostCost(report) = 0 THEN None ELSE [report EXCEPT !.total = HostCost(report)]

\* The call ends: for the caller, or by the envelope the bridge will print.
HostEnds(ok) ==
  IF adapter = "bridge"
  THEN pc' = "print" /\ envelope' = ok /\ UNCHANGED phase
  ELSE Ends(IF ok = "ok" THEN "answered" ELSE "failed")

\* _complete_text up to the call of the host, or an error: too late, or no host.
HostAsk(d) ==
  /\ Served("ask") /\ Outside(d)
  /\ \/ /\ elapsed' < deadline
        /\ requests' = requests + 1
        /\ pc' = "asking" /\ expires' = elapsed' + HostTimeout(deadline - elapsed')
        /\ UNCHANGED <<phase, envelope>>
     \/ HostEnds("error") /\ UNCHANGED <<requests, expires>>
  /\ UNCHANGED <<form, usage, told, untold, granted, deadline, client, late, killed>>

\* Mutant: the repair is repeated.
Parsed_Repairs(good, object) ==
  \/ ~good /\ HostEnds("error") /\ UNCHANGED form
  \/ good /\ (~structured \/ object) /\ HostEnds("ok") /\ UNCHANGED form
  \/ /\ good /\ structured /\ ~object
     /\ form' = form + 1 /\ pc' = "ask" /\ UNCHANGED <<phase, envelope>>

\* What follows an answer in time: no text, text, a JSON object, or a repair.
Parsed(good, object) ==
  \/ ~good /\ HostEnds("error") /\ UNCHANGED form
  \/ good /\ (~structured \/ object) /\ HostEnds("ok") /\ UNCHANGED form
  \/ /\ good /\ structured /\ ~object /\ form = 1
     /\ form' = 2 /\ pc' = "ask" /\ UNCHANGED <<phase, envelope>>
  \/ good /\ structured /\ ~object /\ form = 2 /\ HostEnds("error") /\ UNCHANGED form

\* The deadline is read before anything of the response is.
HostReturns(report, good, object, d) ==
  /\ Served("asking") /\ Inside(d)
  /\ late' = (late \/ elapsed' > expires)
  /\ \/ /\ elapsed' < deadline
        /\ Tell(report, HostCost(report)) /\ Account(ReadHost(report)) /\ Parsed(good, object)
     \/ /\ elapsed' >= deadline
        /\ untold' = TRUE /\ HostEnds("error") /\ UNCHANGED <<told, usage, form>>
  /\ UNCHANGED <<requests, granted, deadline, expires, client, killed>>

\* A timeout of the host's own, a refused model, any other exception.
HostRaises(d) ==
  /\ Served("asking") /\ Inside(d)
  /\ late' = (late \/ elapsed' > expires)
  /\ untold' = TRUE /\ HostEnds("error")
  /\ UNCHANGED <<form, usage, requests, told, granted, deadline, expires, client, killed>>

-----------------------------------------------------------------------------
(* HermesSubprocessLlm and handle_ultracode_llm_cli.                       *)

\* The request is written with the timeout the bridge may use: the reserve is
\* for its start and its end.
Prepare(d) ==
  /\ Served("prepare") /\ elapsed' = elapsed + d
  /\ \/ /\ elapsed' < Timeout
        /\ granted' = Timeout - elapsed' /\ pc' = "launch" /\ UNCHANGED <<phase, envelope>>
     \/ elapsed' >= Timeout /\ Ends("failed") /\ UNCHANGED granted
  /\ lag' = 0
  /\ UNCHANGED <<form, usage, history, deadline, expires, client, late, killed>>

\* The process gets what is left of the Timeout.  It may fail to start.
Launch(d) ==
  /\ Served("launch") /\ Outside(d)
  /\ \/ elapsed' < Timeout /\ pc' = "starting" /\ UNCHANGED <<phase, envelope>>
     \/ Ends("failed")
  /\ UNCHANGED <<form, usage, history, granted, deadline, expires, client, late, killed>>

\* Mutant: the bridge counts on all the client has left.
BridgeStarts_NoReserve(d) ==
  /\ Served("starting") /\ Outside(d)
  /\ pc' = "ask" /\ deadline' = elapsed' + granted
  /\ UNCHANGED <<phase, envelope, form, usage, history, granted, expires, client, late, killed>>

\* The bridge has read the request, and refuses one of another version.
BridgeStarts(d) ==
  /\ Served("starting") /\ Outside(d)
  /\ \/ /\ pc' = "ask" /\ deadline' = elapsed' + HostTimeout(granted)
        /\ UNCHANGED <<phase, envelope>>
     \/ HostEnds("error") /\ UNCHANGED deadline
  /\ UNCHANGED <<form, usage, history, granted, expires, client, late, killed>>

\* The answer cannot be printed: the bridge prints an error instead.
PrintFails ==
  /\ Served("print") /\ envelope = "ok" /\ envelope' = "error"
  /\ UNCHANGED <<phase, form, elapsed, usage, history, pc, granted, deadline, expires,
                 client, lag, late, killed>>

\* The process ends and the client reads the envelope, if there still is time.
BridgeEnds(d) ==
  /\ Served("print") /\ Outside(d)
  /\ \/ /\ elapsed' < Timeout /\ envelope = "ok"
        /\ client' = usage.last /\ Ends("answered")
     \/ /\ elapsed' >= Timeout \/ envelope = "error"
        /\ Ends("failed") /\ UNCHANGED client
  /\ UNCHANGED <<form, usage, history, granted, deadline, expires, late, killed>>

\* It ends without a valid envelope, or with a failure after a good one.
BridgeBreaks(d) ==
  /\ adapter = "bridge" /\ phase = "busy" /\ pc \in InBridge /\ UNCHANGED call
  /\ elapsed' = elapsed + d /\ Ends("failed")
  /\ UNCHANGED <<form, usage, history, granted, deadline, expires, client, lag, late, killed>>

Later(s, t) == IF s < t THEN t ELSE s

\* Mutant: a bridge that waits for its host is not ended.
KillBridge_WhileIdle ==
  /\ adapter = "bridge" /\ phase = "busy" /\ pc \in InBridge \ {"asking"} /\ UNCHANGED call
  /\ elapsed' = Later(elapsed, Timeout) /\ killed' = TRUE /\ Ends("failed")
  /\ lag' = lag + (elapsed' - elapsed) /\ UNCHANGED late
  /\ UNCHANGED <<form, usage, history, granted, deadline, expires, client>>

\* communicate times out; the time till then was the host's, or the bridge's.
KillBridge ==
  /\ adapter = "bridge" /\ phase = "busy" /\ pc \in InBridge /\ UNCHANGED call
  /\ elapsed' = Later(elapsed, Timeout) /\ killed' = TRUE /\ Ends("failed")
  /\ IF pc = "asking"
     THEN late' = (late \/ elapsed' > expires) /\ UNCHANGED lag
     ELSE lag' = lag + (elapsed' - elapsed) /\ UNCHANGED late
  /\ UNCHANGED <<form, usage, history, granted, deadline, expires, client>>

Client(d) == Prepare(d) \/ Launch(d) \/ BridgeEnds(d)

Host(d) ==
  \/ HostAsk(d) \/ HostRaises(d)
  \/ \E report \in HostReports, good \in BOOLEAN, object \in BOOLEAN :
       HostReturns(report, good, object, d)

HermesStep ==
  \/ \E d \in Delays : Client(d) \/ Host(d) \/ BridgeStarts(d) \/ BridgeBreaks(d)
  \/ PrintFails \/ KillBridge

-----------------------------------------------------------------------------

\* The reserve does its work: the client ends a bridge only if its host overran
\* the timeout it was given, or the bridge itself used up the reserve.  A host
\* that keeps to its timeouts leaves time for the answer, also of a second call.
KilledMeansSlow ==
  killed /\ ~late => lag >= granted - HostTimeout(granted)
================================================================================
