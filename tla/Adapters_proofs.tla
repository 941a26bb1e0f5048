---------------------------- MODULE Adapters_proofs ----------------------------
(***************************************************************************)
(* Proofs about Adapters, for any timeouts, delays and usage reports.      *)
(***************************************************************************)
EXTENDS Adapters, TLAPS

\* The time given to a call of the host is some of what is left.
LEMMA HostTimeoutType ==
  ASSUME NEW left \in Nat
  PROVE  HostTimeout(left) \in Nat /\ HostTimeout(left) <= left
BY HermesConstants DEF HostTimeout

\* A sum of usages is a usage.
LEMMA SumUsageType ==
  ASSUME NEW left \in UsageType \cup {None}, NEW right \in UsageType
  PROVE  SumUsage(left, right) \in UsageType
<1>1. CASE left = None
  BY <1>1 DEF SumUsage
<1>2. CASE left \in UsageType
  <2>1. left # None
    BY <1>2, AdapterConstants
  <2>2. \A key \in {"input", "output", "total"} : PlusKey(left[key], right[key]) \in OptNat
    BY <1>2, AdapterConstants DEF UsageType, OptNat, PlusKey, OrZero
  <2> QED BY <2>1, <2>2 DEF SumUsage, UsageType
<1> QED BY <1>1, <1>2

LEMMA ExecTypes ==
  ASSUME NEW report \in UsageType
  PROVE  /\ ExecCost(report) \in Nat
         /\ EngineReads(report) \in UsageType \cup {None}
         /\ EngineReads(report) # None => EngineReads(report).total = ExecCost(report)
BY AdapterConstants
   DEF EngineReads, Reading, ExecCost, Parts, OrZero, AtLeast0, UsageType, OptNat

LEMMA HostTypes ==
  ASSUME NEW report \in UsageType
  PROVE  /\ HostCost(report) \in Nat
         /\ ReadHost(report) \in UsageType \cup {None}
         /\ ReadHost(report) # None => ReadHost(report).total = HostCost(report)
BY AdapterConstants DEF ReadHost, HostCost, Parts, OrZero, UsageType, OptNat

-----------------------------------------------------------------------------
(* Type correctness.                                                       *)

LEMMA CleanIsTyped == Clean \in [last : UsageType \cup {None}, unknown : BOOLEAN]
BY DEF Clean

LEMMA InitIsTyped == Init => TypeOK
<1> SUFFICES ASSUME Init PROVE TypeOK
  OBVIOUS
<1>1. usage \in [last : UsageType \cup {None}, unknown : BOOLEAN]
  BY CleanIsTyped DEF Init, CallInit
<1>2. late \in BOOLEAN /\ killed \in BOOLEAN /\ structured \in BOOLEAN /\ untold \in BOOLEAN
  BY DEF Init, CallInit, HermesInit
<1>3. CallTypeOK
  BY <1>1, <1>2 DEF Init, CallInit, CallTypeOK
<1>4. HermesTypeOK
  BY <1>2 DEF Init, HermesInit, HermesTypeOK, InBridge
<1> QED BY <1>3, <1>4 DEF Init, TypeOK

LEMMA AccountIsTyped ==
  ASSUME CallTypeOK, NEW reading \in UsageType \cup {None}, Account(reading)
  PROVE  usage' \in [last : UsageType \cup {None}, unknown : BOOLEAN]
<1>1. CASE reading = None \/ usage.unknown
  BY <1>1 DEF Account, Lost
<1>2. CASE ~(reading = None \/ usage.unknown)
  <2>1. usage.last \in UsageType \cup {None} /\ reading \in UsageType
    BY <1>2 DEF CallTypeOK
  <2> QED BY <1>2, <2>1, SumUsageType DEF Account
<1> QED BY <1>1, <1>2

LEMMA TellIsTyped ==
  ASSUME CallTypeOK, NEW report, NEW cost, report # None => cost \in Nat, Tell(report, cost)
  PROVE  told' \in Nat /\ told <= told' /\ untold' \in BOOLEAN /\ (untold => untold')
<1>1. CASE report = None
  BY <1>1 DEF CallTypeOK, Tell
<1>2. CASE report # None
  BY <1>2 DEF CallTypeOK, Tell
<1> QED BY <1>1, <1>2

LEMMA BeginIsTyped == TypeOK /\ Begin => TypeOK'
<1> SUFFICES ASSUME TypeOK, Begin PROVE TypeOK'
  OBVIOUS
<1>1. CallTypeOK'
  <2>1. usage' \in [last : UsageType \cup {None}, unknown : BOOLEAN]
    BY CleanIsTyped DEF Begin, BeginCall
  <2>2. untold' \in BOOLEAN
    BY DEF Begin, BeginCall
  <2> QED BY <2>1, <2>2 DEF TypeOK, CallTypeOK, Begin, BeginCall
<1>2. pc' \in {"done", "ask", "prepare"}
  BY DEF TypeOK, CallTypeOK, Adapters, Begin, HermesBegin
<1>3. HermesTypeOK'
  BY <1>2, AdapterConstants DEF Begin, HermesBegin, HermesTypeOK, InBridge
<1> QED BY <1>1, <1>3 DEF TypeOK, Begin

LEMMA CodexIsTyped == TypeOK /\ CodexStep /\ UNCHANGED hermes => TypeOK'
<1> SUFFICES ASSUME TypeOK, CodexStep, UNCHANGED hermes PROVE TypeOK'
  OBVIOUS
<1>1. HermesTypeOK'
  BY DEF TypeOK, HermesTypeOK, hermes
<1>2. PICK d \in Nat :
        \/ \E report \in ExecReports, object \in BOOLEAN : CodexAnswers(report, object, d)
        \/ CodexBreaks(d) \/ CodexNotFound(d) \/ CodexIsLost(d)
  BY AdapterConstants DEF CodexStep
<1>3. ASSUME NEW report \in ExecReports, NEW object \in BOOLEAN,
             CodexAnswers(report, object, d)
      PROVE  TypeOK'
  <2>1. ReadExec(report) \in UsageType \cup {None} /\ (report # None => ExecCost(report) \in Nat)
    BY ExecTypes, CodexConstants DEF ReadExec
  <2>3. told' \in Nat /\ untold' \in BOOLEAN
    BY <1>3, <2>1, TellIsTyped DEF TypeOK, CodexAnswers
  <2>2. usage' \in [last : UsageType \cup {None}, unknown : BOOLEAN]
    BY <1>3, <2>1, AccountIsTyped DEF TypeOK, CodexAnswers
  <2> QED
    BY <1>1, <1>3, <2>2, <2>3 DEF TypeOK, CallTypeOK, CodexAnswers, Runs, call, Request
<1>4. CASE CodexBreaks(d)
  BY <1>1, <1>4 DEF TypeOK, CallTypeOK, CodexBreaks, CodexFails, Runs, call, Request
<1>5. CASE CodexNotFound(d)
  BY <1>1, <1>5 DEF TypeOK, CallTypeOK, CodexNotFound, CodexFails, Runs, call, history, Lost
<1>6. CASE CodexIsLost(d)
  BY <1>1, <1>6, CodexConstants DEF TypeOK, CallTypeOK, CodexIsLost, Runs, call, Request, Lost
<1> QED BY <1>2, <1>3, <1>4, <1>5, <1>6

\* The actions of HermesStep.
LEMMA HermesCases ==
  ASSUME HermesStep, NEW P,
         \A d \in Nat : Prepare(d) \/ Launch(d) \/ BridgeStarts(d) \/ BridgeEnds(d) => P,
         \A d \in Nat : BridgeBreaks(d) => P,
         PrintFails \/ KillBridge => P,
         \A d \in Nat : HostAsk(d) \/ HostRaises(d) => P,
         \A d \in Nat, report \in UsageType \cup {None}, good \in BOOLEAN, object \in BOOLEAN :
           HostReturns(report, good, object, d) => P
  PROVE  P
BY AdapterConstants, HermesConstants DEF HermesStep, Client, Host

LEMMA HermesIsTyped == TypeOK /\ HermesStep /\ UNCHANGED try => TypeOK'
<1> SUFFICES ASSUME TypeOK, HermesStep, UNCHANGED try PROVE TypeOK'
  OBVIOUS
<1> USE DEF TypeOK, CallTypeOK, HermesTypeOK, call, history, Ends, HostEnds, Inside, Outside,
            Served, InBridge
<1>1. ASSUME NEW d \in Nat, Prepare(d) \/ Launch(d) \/ BridgeStarts(d) \/ BridgeEnds(d)
      PROVE  TypeOK'
  <2>1. CASE Prepare(d)
    BY <2>1, AdapterConstants DEF Prepare
  <2>2. CASE Launch(d)
    BY <2>2, AdapterConstants DEF Launch
  <2>3. CASE BridgeStarts(d)
    BY <2>3, HostTimeoutType DEF BridgeStarts
  <2>4. CASE BridgeEnds(d)
    BY <2>4 DEF BridgeEnds
  <2> QED BY <1>1, <2>1, <2>2, <2>3, <2>4
<1>2. ASSUME NEW d \in Nat, BridgeBreaks(d) PROVE TypeOK'
  BY <1>2 DEF BridgeBreaks
<1>3. ASSUME PrintFails \/ KillBridge PROVE TypeOK'
  <2>1. CASE PrintFails
    BY <2>1 DEF PrintFails
  <2>2. CASE KillBridge
    <3>1. Later(elapsed, Timeout) \in Nat /\ Later(elapsed, Timeout) - elapsed \in Nat
      BY AdapterConstants DEF Later
    <3>2. elapsed' \in Nat /\ lag' \in Nat
      BY <2>2, <3>1 DEF KillBridge
    <3>3. late' \in BOOLEAN
      BY <2>2 DEF KillBridge
    <3> QED BY <2>2, <3>2, <3>3 DEF KillBridge
  <2> QED BY <1>3, <2>1, <2>2
<1>4. ASSUME NEW d \in Nat, HostAsk(d) \/ HostRaises(d) PROVE TypeOK'
  <2>1. CASE HostAsk(d)
    <3>1. CASE elapsed' < deadline
      <4>1. elapsed' \in Nat /\ deadline - elapsed' \in Nat
        BY <2>1, <3>1 DEF HostAsk
      <4>2. HostTimeout(deadline - elapsed') \in Nat
        BY <4>1, HostTimeoutType
      <4> QED BY <2>1, <4>1, <4>2 DEF HostAsk
    <3>2. CASE HostEnds("error") /\ UNCHANGED <<requests, expires>>
      BY <2>1, <3>2 DEF HostAsk
    <3> QED BY <2>1, <3>1, <3>2 DEF HostAsk
  <2>2. CASE HostRaises(d)
    BY <2>2 DEF HostRaises
  <2> QED BY <1>4, <2>1, <2>2
<1>5. ASSUME NEW d \in Nat, NEW report \in UsageType \cup {None},
             NEW good \in BOOLEAN, NEW object \in BOOLEAN,
             HostReturns(report, good, object, d)
      PROVE  TypeOK'
  <2>1. ReadHost(report) \in UsageType \cup {None} /\ (report # None => HostCost(report) \in Nat)
    BY HostTypes DEF ReadHost
  <2>2. usage' \in [last : UsageType \cup {None}, unknown : BOOLEAN]
    BY <1>5, <2>1, AccountIsTyped DEF HostReturns
  <2>3. told' \in Nat /\ untold' \in BOOLEAN
    <3>1. CASE Tell(report, HostCost(report))
      BY <2>1, <3>1, TellIsTyped
    <3>2. CASE untold' = TRUE /\ UNCHANGED told
      BY <3>2
    <3> QED BY <1>5, <3>1, <3>2 DEF HostReturns
  <2> QED BY <1>5, <2>2, <2>3 DEF HostReturns, Parsed
<1> QED BY <1>1, <1>2, <1>3, <1>4, <1>5, HermesCases

LEMMA NextIsTyped == TypeOK /\ [Next]_vars => TypeOK'
<1> SUFFICES ASSUME TypeOK, [Next]_vars PROVE TypeOK'
  OBVIOUS
<1>1. CASE Done \/ UNCHANGED vars
  BY <1>1 DEF Done, vars, callVars, call, history, hermes, TypeOK, CallTypeOK, HermesTypeOK
<1> QED
  BY <1>1, BeginIsTyped, CodexIsTyped, HermesIsTyped DEF Next

\* Every variable of the adapters has its type.
THEOREM TypeCorrect == Spec => []TypeOK
BY InitIsTyped, NextIsTyped, PTL DEF Spec

-----------------------------------------------------------------------------
(* The time of a call of codex, run by run.                                *)

Run == Timeout + Grace

\* What the runs before this one may have taken and requested.
CodexProgress ==
  /\ form = 1 /\ try = 1 => elapsed = 0 /\ requests = 0
  /\ form = 1 /\ try = 2 => elapsed <= Run + Pause /\ requests <= 1
  /\ form = 2 /\ try = 1 => elapsed <= 2 * Run + Pause /\ requests <= 2
  /\ form = 2 /\ try = 2 => elapsed <= 3 * Run + 2 * Pause /\ requests <= 3

CodexInv ==
  adapter = "codex" =>
    /\ phase = "busy" => CodexProgress
    /\ elapsed <= 4 * Run + 2 * Pause /\ requests <= 4

LEMMA CodexInvInit == Init => CodexInv
BY AdapterConstants, CodexConstants DEF Init, CallInit, CodexInv, CodexProgress, Run

LEMMA CodexInvStep == TypeOK /\ CodexInv /\ [Next]_vars => CodexInv'
<1> SUFFICES ASSUME TypeOK, CodexInv, [Next]_vars PROVE CodexInv'
  OBVIOUS
<1>t. /\ adapter \in Adapters /\ form \in {1, 2} /\ try \in {1, 2}
      /\ elapsed \in Nat /\ requests \in Nat
      /\ Timeout \in Nat /\ Grace \in Nat /\ Pause \in Nat /\ Run \in Nat /\ Run = Timeout + Grace
  BY AdapterConstants, CodexConstants DEF TypeOK, CallTypeOK, Run
<1>1. CASE Begin
  <2>1. elapsed' = 0 /\ requests' = 0 /\ form' = 1 /\ try' = 1
    BY <1>1 DEF Begin, BeginCall
  <2> QED BY <1>t, <2>1 DEF CodexInv, CodexProgress
<1>2. CASE Done \/ UNCHANGED vars
  <2>1. UNCHANGED <<adapter, phase, form, try, elapsed, requests>>
    BY <1>2 DEF Done, vars, callVars, call, history
  <2> QED BY <2>1 DEF CodexInv, CodexProgress
<1>3. CASE HermesStep /\ UNCHANGED try
  <2>1. adapter # "codex" /\ adapter' = adapter
    <3>1. \A d \in Nat : Prepare(d) \/ Launch(d) \/ BridgeStarts(d) \/ BridgeEnds(d)
             => adapter # "codex" /\ adapter' = adapter
      BY DEF Prepare, Launch, BridgeStarts, BridgeEnds, Served, call
    <3>2. \A d \in Nat : BridgeBreaks(d) => adapter # "codex" /\ adapter' = adapter
      BY DEF BridgeBreaks, call
    <3>3. PrintFails \/ KillBridge => adapter # "codex" /\ adapter' = adapter
      BY DEF PrintFails, KillBridge, Served, call
    <3>4. \A d \in Nat : HostAsk(d) \/ HostRaises(d) => adapter # "codex" /\ adapter' = adapter
      BY DEF HostAsk, HostRaises, Served, call
    <3>5. \A d \in Nat, report \in UsageType \cup {None}, good \in BOOLEAN, object \in BOOLEAN :
            HostReturns(report, good, object, d) => adapter # "codex" /\ adapter' = adapter
      BY DEF HostReturns, Served, call
    <3> QED BY <1>3, <3>1, <3>2, <3>3, <3>4, <3>5, HermesCases
  <2> QED BY <2>1 DEF CodexInv
<1>4. CASE CodexStep /\ UNCHANGED hermes
  <2>1. PICK d \in Nat :
          \/ \E report \in ExecReports, object \in BOOLEAN : CodexAnswers(report, object, d)
          \/ CodexBreaks(d) \/ CodexNotFound(d) \/ CodexIsLost(d)
    BY <1>4, AdapterConstants DEF CodexStep
  <2>2. adapter = "codex" /\ phase = "busy" /\ CodexProgress
    BY <2>1 DEF CodexAnswers, CodexBreaks, CodexNotFound, CodexIsLost, Runs, CodexInv
  <2>3. CASE \E report \in ExecReports, object \in BOOLEAN : CodexAnswers(report, object, d)
    <3>1. /\ d <= Timeout /\ elapsed' = elapsed + d /\ requests' = requests + 1
          /\ phase' = "busy" => form = 1 /\ form' = 2 /\ try' = 1
      BY <2>2, <2>3 DEF CodexAnswers, Request
    <3> QED BY <1>t, <2>2, <3>1 DEF CodexInv, CodexProgress
  <2>4. CASE CodexBreaks(d) \/ CodexNotFound(d)
    <3>1. /\ d <= Timeout /\ elapsed' = elapsed + d /\ requests' \in {requests, requests + 1}
          /\ phase' = "failed" /\ UNCHANGED <<form, try>>
      BY <2>4 DEF CodexBreaks, CodexNotFound, CodexFails, Request, history
    <3> QED BY <1>t, <2>2, <3>1 DEF CodexInv, CodexProgress
  <2>5. CASE CodexIsLost(d)
    <3>1. /\ d <= Run /\ requests' = requests + 1 /\ UNCHANGED form
          /\ \/ try = 1 /\ try' = 2 /\ elapsed' = elapsed + d + Pause
             \/ try = 2 /\ phase' = "failed" /\ elapsed' = elapsed + d
      BY <2>5 DEF CodexIsLost, Request, Run
    <3> QED BY <1>t, <2>2, <3>1 DEF CodexInv, CodexProgress
  <2> QED BY <2>1, <2>3, <2>4, <2>5
<1> QED BY <1>1, <1>2, <1>3, <1>4 DEF Next

\* A call of codex takes at most the time of four runs and two pauses.
THEOREM CodexCallsEndInTime == Spec => []CodexTimeIsBounded
<1>1. TypeOK /\ CodexInv => CodexTimeIsBounded
  BY DEF CodexInv, CodexTimeIsBounded, Run
<1> QED BY <1>1, InitIsTyped, NextIsTyped, CodexInvInit, CodexInvStep, PTL DEF Spec

-----------------------------------------------------------------------------
(* The reserve the bridge leaves its client.                               *)

\* The time up to which a host that keeps to its timeouts may have worked: what
\* passed before the request was written, what passed outside the host's calls
\* since, and the time the bridge may use.
Allowed == Timeout - granted + lag + HostTimeout(granted)

BridgeInv ==
  /\ phase = "busy" => ~killed
  /\ phase = "busy" /\ pc \in {"launch"} \cup InBridge /\ adapter = "bridge" =>
       /\ granted <= Timeout
       /\ pc \in {"launch", "starting"} => elapsed = Timeout - granted + lag
       /\ pc \in {"ask", "asking"} => deadline <= Allowed
       /\ pc \in {"ask", "asking", "print"} /\ ~late => elapsed <= Allowed
       /\ pc = "asking" => expires <= deadline
  /\ KilledMeansSlow

LEMMA BridgeInvInit == Init => BridgeInv
BY DEF Init, CallInit, HermesInit, BridgeInv, KilledMeansSlow

LEMMA BridgeInvStep == TypeOK /\ BridgeInv /\ [Next]_vars => BridgeInv'
<1> SUFFICES ASSUME TypeOK, BridgeInv, [Next]_vars PROVE BridgeInv'
  OBVIOUS
<1>t. /\ elapsed \in Nat /\ granted \in Nat /\ deadline \in Nat /\ expires \in Nat /\ lag \in Nat
      /\ Timeout \in Nat /\ HostTimeout(granted) \in Nat /\ HostTimeout(granted) <= granted
  BY AdapterConstants, HostTimeoutType DEF TypeOK, CallTypeOK, HermesTypeOK
<1>1. CASE Begin
  BY <1>1 DEF Begin, BeginCall, HermesBegin, BridgeInv, KilledMeansSlow, InBridge
<1>2. CASE Done \/ UNCHANGED vars
  BY <1>2 DEF Done, vars, callVars, call, hermes, BridgeInv, KilledMeansSlow, Allowed
<1>3. CASE CodexStep /\ UNCHANGED hermes
  <2>1. adapter = "codex" /\ phase = "busy" /\ adapter' = adapter
    BY <1>3 DEF CodexStep, CodexAnswers, CodexBreaks, CodexNotFound, CodexIsLost, Runs, call
  <2> QED BY <1>3, <2>1 DEF hermes, BridgeInv, KilledMeansSlow
<1>4. CASE HermesStep /\ UNCHANGED try
  <2> USE DEF Served, call, Ends, HostEnds, Inside, Outside, InBridge
  <2>1. ASSUME NEW d \in Nat, Prepare(d) PROVE BridgeInv'
    <3>1. CASE pc' = "launch"
      <4>1. /\ granted' = Timeout - elapsed' /\ elapsed' = elapsed + d /\ elapsed' < Timeout
            /\ lag' = 0 /\ ~killed' /\ phase' = phase
        BY <2>1, <3>1 DEF Prepare, BridgeInv
      <4> QED BY <1>t, <3>1, <4>1 DEF BridgeInv, KilledMeansSlow, Allowed
    <3>2. CASE pc' = "done"
      BY <2>1, <3>2 DEF Prepare, BridgeInv, KilledMeansSlow
    <3> QED BY <2>1, <3>1, <3>2 DEF Prepare
  <2>2. ASSUME NEW d \in Nat, Launch(d) PROVE BridgeInv'
    <3>1. /\ elapsed' = elapsed + d /\ lag' = lag + d /\ ~killed' /\ granted' = granted
          /\ pc' \in {"starting", "done"} /\ adapter' = adapter /\ pc = "launch" /\ phase = "busy"
      BY <2>2 DEF Launch, BridgeInv
    <3> QED BY <1>t, <3>1 DEF BridgeInv, KilledMeansSlow, Allowed
  <2>3. ASSUME NEW d \in Nat, BridgeStarts(d) PROVE BridgeInv'
    <3>1. /\ elapsed' = elapsed + d /\ lag' = lag + d /\ ~killed' /\ granted' = granted
          /\ adapter' = adapter /\ pc = "starting" /\ phase = "busy"
          /\ pc' \in {"ask", "print", "done"}
          /\ pc' = "ask" => deadline' = elapsed' + HostTimeout(granted)
          /\ deadline' = deadline \/ pc' = "ask"
      BY <2>3 DEF BridgeStarts, BridgeInv
    <3> QED BY <1>t, <3>1 DEF BridgeInv, KilledMeansSlow, Allowed
  <2>4. ASSUME NEW d \in Nat, BridgeEnds(d) \/ BridgeBreaks(d) PROVE BridgeInv'
    <3>1. phase' # "busy" /\ ~killed'
      BY <2>4 DEF BridgeEnds, BridgeBreaks, BridgeInv
    <3> QED BY <3>1 DEF BridgeInv, KilledMeansSlow
  <2>5. CASE PrintFails
    BY <2>5 DEF PrintFails, BridgeInv, KilledMeansSlow, Allowed
  <2>6. CASE KillBridge
    <3>1. /\ elapsed' >= Timeout /\ phase' # "busy" /\ granted' = granted /\ lag' \in Nat
          /\ pc = "asking" => lag' = lag /\ (~late' => ~late /\ elapsed' <= expires)
          /\ pc # "asking" => lag' = lag + (elapsed' - elapsed) /\ late' = late
          /\ elapsed' \in Nat /\ adapter = "bridge" /\ phase = "busy" /\ pc \in InBridge
      BY <1>t, <2>6, NextIsTyped DEF KillBridge, Later, TypeOK, CallTypeOK, HermesTypeOK
    <3>2. ASSUME ~late' PROVE elapsed' <= Timeout - granted + lag' + HostTimeout(granted)
      <4>1. CASE pc = "asking"
        <5>1. expires <= deadline /\ deadline <= Allowed
          BY <3>1, <4>1 DEF BridgeInv
        <5> QED BY <1>t, <3>1, <3>2, <4>1, <5>1 DEF Allowed
      <4>2. CASE pc # "asking"
        <5>1. ~late
          BY <3>1, <3>2, <4>2
        <5>2. elapsed <= Allowed
          BY <1>t, <3>1, <4>2, <5>1 DEF BridgeInv, Allowed
        <5> QED BY <1>t, <3>1, <4>2, <5>2 DEF Allowed
      <4> QED BY <4>1, <4>2
    <3>3. ~late' => lag' >= granted' - HostTimeout(granted')
      BY <1>t, <3>1, <3>2
    <3> QED BY <3>1, <3>3 DEF BridgeInv, KilledMeansSlow
  <2>7. ASSUME NEW d \in Nat, HostAsk(d) PROVE BridgeInv'
    <3>1. /\ elapsed' = elapsed + d /\ lag' = lag + d /\ granted' = granted /\ deadline' = deadline
          /\ late' = late /\ ~killed' /\ adapter' = adapter /\ pc = "ask" /\ phase = "busy"
      BY <2>7 DEF HostAsk, BridgeInv
    <3>2. CASE elapsed' < deadline /\ pc' = "asking"
                 /\ expires' = elapsed' + HostTimeout(deadline - elapsed')
      <4>1. HostTimeout(deadline - elapsed') \in Nat
            /\ HostTimeout(deadline - elapsed') <= deadline - elapsed'
        BY <1>t, <3>1, <3>2, HostTimeoutType
      <4> QED BY <1>t, <3>1, <3>2, <4>1 DEF BridgeInv, KilledMeansSlow, Allowed
    <3>3. CASE pc' \in {"print", "done"}
      BY <1>t, <3>1, <3>3 DEF BridgeInv, KilledMeansSlow, Allowed
    <3> QED BY <2>7, <3>2, <3>3 DEF HostAsk
  <2>8. ASSUME NEW d \in Nat, HostRaises(d) \/ \E report, good, object : HostReturns(report, good, object, d)
        PROVE  BridgeInv'
    <3>1. /\ elapsed' = elapsed + d /\ lag' = lag /\ granted' = granted /\ deadline' = deadline
          /\ ~killed' /\ adapter' = adapter
          /\ pc = "asking" /\ phase = "busy" /\ pc' \in {"ask", "print", "done"}
      BY <2>8 DEF HostRaises, HostReturns, Parsed, BridgeInv
    <3>2. ~late' => ~(elapsed' > expires)
      BY <2>8 DEF HostRaises, HostReturns
    <3>3. ~late' => elapsed' <= expires
      BY <1>t, <3>1, <3>2
    <3>4. CASE adapter = "bridge"
      <4>1. expires <= deadline /\ deadline <= Allowed /\ granted <= Timeout
        BY <3>1, <3>4 DEF BridgeInv
      <4> QED BY <1>t, <3>1, <3>3, <4>1 DEF BridgeInv, KilledMeansSlow, Allowed
    <3>5. CASE adapter # "bridge"
      BY <3>1, <3>5 DEF BridgeInv, KilledMeansSlow
    <3> QED BY <3>4, <3>5
  <2> QED BY <1>4, <2>1, <2>2, <2>3, <2>4, <2>5, <2>6, <2>7, <2>8, HermesCases
<1> QED BY <1>1, <1>2, <1>3, <1>4 DEF Next

\* The client ends a bridge only if the host overran its timeout or the bridge
\* itself used the reserve up.
THEOREM BridgesAreEndedForCause == Spec => []KilledMeansSlow
<1>1. BridgeInv => KilledMeansSlow
  BY DEF BridgeInv
<1> QED BY <1>1, InitIsTyped, NextIsTyped, BridgeInvInit, BridgeInvStep, PTL DEF Spec

-----------------------------------------------------------------------------
(* Usage.                                                                  *)

\* last_usage is what all the requests of the call were told to have cost, or
\* absent: because nothing was told yet, or because something was not told.
Sums ==
  /\ usage.last # None => ~usage.unknown /\ usage.last.total \in Nat
  /\ ~usage.unknown => ~untold
  /\ ~usage.unknown => told = IF usage.last = None THEN 0 ELSE usage.last.total

\* Sums may fail only where the call does; an envelope exists once it is printed.
UsageInv ==
  /\ adapter # "bridge" => envelope = None
  /\ phase = "busy" /\ pc # "print" => envelope = None
  /\ phase # "failed" /\ envelope # "error" => Sums
  /\ adapter = "bridge" /\ phase = "answered" => client = usage.last /\ envelope = "ok"

LEMMA SumUsageTotal ==
  ASSUME NEW left \in UsageType \cup {None}, NEW right \in UsageType,
         right.total \in Nat, left # None => left.total \in Nat
  PROVE  /\ SumUsage(left, right) # None
         /\ SumUsage(left, right).total = (IF left = None THEN 0 ELSE left.total) + right.total
<1>1. SumUsage(left, right) # None
  BY SumUsageType, AdapterConstants
<1>2. CASE left = None
  BY <1>1, <1>2 DEF SumUsage
<1>3. CASE left # None
  <2>1. SumUsage(left, right).total = PlusKey(left.total, right.total)
    BY <1>3 DEF SumUsage
  <2> QED BY <1>1, <1>3, <2>1, AdapterConstants DEF PlusKey, OrZero
<1> QED BY <1>2, <1>3

\* One more request keeps the sum, if what is read is what was told.
LEMMA SumsGoOn ==
  ASSUME CallTypeOK, Sums,
         NEW report, NEW cost, NEW reading \in UsageType \cup {None},
         report = None => reading = None,
         report # None => cost \in Nat,
         reading # None => reading.total = cost,
         Tell(report, cost), Account(reading)
  PROVE  Sums'
<1>1. CASE reading = None \/ usage.unknown
  BY <1>1 DEF Account, Lost, Sums
<1>2. CASE reading # None /\ ~usage.unknown
  <2>1. /\ report # None /\ told' = told + cost /\ untold' = untold /\ reading.total \in Nat
        /\ told = IF usage.last = None THEN 0 ELSE usage.last.total
        /\ usage.last \in UsageType \cup {None} /\ reading \in UsageType
        /\ usage.last # None => usage.last.total \in Nat
        /\ ~untold
    BY <1>2 DEF Tell, Sums, CallTypeOK
  <2>2. usage' = [last |-> SumUsage(usage.last, reading), unknown |-> FALSE]
    BY <1>2 DEF Account
  <2>3. usage'.last = SumUsage(usage.last, reading) /\ ~usage'.unknown
    BY <2>2
  <2>4. /\ usage'.last # None
        /\ usage'.last.total = (IF usage.last = None THEN 0 ELSE usage.last.total) + reading.total
    BY <2>1, <2>3, SumUsageTotal
  <2>5. usage'.last.total \in Nat /\ told' = usage'.last.total
    BY <1>2, <2>1, <2>4
  <2> QED BY <2>1, <2>3, <2>4, <2>5 DEF Sums
<1> QED BY <1>1, <1>2

LEMMA UsageInvInit == Init => UsageInv
<1> SUFFICES ASSUME Init PROVE UsageInv
  OBVIOUS
<1>1. usage.last = None /\ ~usage.unknown /\ ~untold /\ told = 0
  BY DEF Init, CallInit, Clean
<1> QED BY <1>1 DEF Init, CallInit, HermesInit, UsageInv, Sums

LEMMA CodexAccounts ==
  ASSUME TypeOK, UsageInv, CodexStep, UNCHANGED hermes
  PROVE  UsageInv'
<1>1. adapter = "codex" /\ phase = "busy" /\ adapter' = adapter /\ envelope = None /\ Sums
  BY HermesConstants
  DEF CodexStep, CodexAnswers, CodexBreaks, CodexNotFound, CodexIsLost, Runs, call, UsageInv
<1>2. phase' # "failed" => Sums'
  <2>1. PICK d \in Nat :
          \/ \E report \in ExecReports, object \in BOOLEAN : CodexAnswers(report, object, d)
          \/ CodexBreaks(d) \/ CodexNotFound(d) \/ CodexIsLost(d)
    BY AdapterConstants DEF CodexStep
  <2>2. ASSUME NEW report \in ExecReports, NEW object \in BOOLEAN,
               CodexAnswers(report, object, d)
        PROVE  Sums'
    <3>1. /\ ReadExec(report) \in UsageType \cup {None}
          /\ report = None => ReadExec(report) = None
          /\ report # None => ExecCost(report) \in Nat
          /\ ReadExec(report) # None => ReadExec(report).total = ExecCost(report)
      BY ExecTypes, CodexConstants DEF ReadExec
    <3> QED BY <1>1, <2>2, <3>1, SumsGoOn DEF CodexAnswers, TypeOK
  <2>3. CASE CodexBreaks(d) \/ CodexNotFound(d)
    BY <2>3 DEF CodexBreaks, CodexNotFound, CodexFails
  <2>4. CASE CodexIsLost(d)
    BY <2>4 DEF CodexIsLost, Lost, Sums
  <2> QED BY <2>1, <2>2, <2>3, <2>4
<1> QED BY <1>1, <1>2 DEF UsageInv, hermes

LEMMA HermesAccounts ==
  ASSUME TypeOK, UsageInv, HermesStep
  PROVE  UsageInv'
<1> USE DEF Served, call, history, Ends, HostEnds, Inside, Outside, InBridge
<1>1. ASSUME NEW d \in Nat, Prepare(d) \/ Launch(d) \/ BridgeStarts(d) \/ BridgeEnds(d)
      PROVE  UsageInv'
  <2>1. usage' = usage /\ told' = told /\ untold' = untold
    BY <1>1 DEF Prepare, Launch, BridgeStarts, BridgeEnds
  <2>2. Sums => Sums'
    BY <2>1 DEF Sums
  <2>3. CASE Prepare(d) \/ Launch(d)
    BY <2>1, <2>2, <2>3, HermesConstants DEF Prepare, Launch, UsageInv
  <2>4. CASE BridgeStarts(d)
    BY <2>1, <2>2, <2>4, HermesConstants DEF BridgeStarts, UsageInv
  <2>5. CASE BridgeEnds(d)
    BY <2>1, <2>2, <2>5, HermesConstants DEF BridgeEnds, UsageInv
  <2> QED BY <1>1, <2>3, <2>4, <2>5
<1>2. ASSUME NEW d \in Nat, BridgeBreaks(d) PROVE UsageInv'
  BY <1>2, HermesConstants DEF BridgeBreaks, UsageInv
<1>3. ASSUME PrintFails \/ KillBridge PROVE UsageInv'
  BY <1>3, HermesConstants DEF PrintFails, KillBridge, UsageInv
<1>4. ASSUME NEW d \in Nat, HostAsk(d) \/ HostRaises(d) PROVE UsageInv'
  <2>1. CASE HostAsk(d)
    <3>1. usage' = usage /\ told' = told /\ untold' = untold
      BY <2>1 DEF HostAsk
    <3>2. Sums => Sums'
      BY <3>1 DEF Sums
    <3> QED BY <2>1, <3>2, HermesConstants DEF HostAsk, UsageInv
  <2>2. CASE HostRaises(d)
    BY <2>2, HermesConstants DEF HostRaises, UsageInv
  <2> QED BY <1>4, <2>1, <2>2
<1>5. ASSUME NEW d \in Nat, NEW report \in UsageType \cup {None},
             NEW good \in BOOLEAN, NEW object \in BOOLEAN,
             HostReturns(report, good, object, d)
      PROVE  UsageInv'
  <2>1. Sums /\ phase = "busy" /\ adapter' = adapter /\ envelope = None
    BY <1>5, HermesConstants DEF HostReturns, UsageInv
  <2>2. CASE Tell(report, HostCost(report)) /\ Account(ReadHost(report)) /\ Parsed(good, object)
    <3>1. /\ ReadHost(report) \in UsageType \cup {None}
          /\ report = None => ReadHost(report) = None
          /\ report # None => HostCost(report) \in Nat
          /\ ReadHost(report) # None => ReadHost(report).total = HostCost(report)
      BY HostTypes DEF ReadHost
    <3>2. Sums'
      BY <2>1, <2>2, <3>1, SumsGoOn DEF TypeOK
    <3>3. /\ adapter # "bridge" => envelope' = None
          /\ phase' = "busy" /\ pc' # "print" => envelope' = None
          /\ ~(adapter = "bridge" /\ phase' = "answered")
      BY <2>1, <2>2 DEF Parsed
    <3> QED BY <2>1, <3>2, <3>3 DEF UsageInv
  <2>3. CASE HostEnds("error")
    BY <2>1, <2>3, HermesConstants DEF UsageInv
  <2> QED BY <1>5, <2>2, <2>3 DEF HostReturns
<1> QED BY <1>1, <1>2, <1>3, <1>4, <1>5, HermesCases

LEMMA UsageInvStep == TypeOK /\ UsageInv /\ [Next]_vars => UsageInv'
<1> SUFFICES ASSUME TypeOK, UsageInv, [Next]_vars PROVE UsageInv'
  OBVIOUS
<1>1. CASE Begin
  <2>1. phase' = "busy" /\ envelope' = None
    BY <1>1 DEF Begin, BeginCall, HermesBegin
  <2>2. usage'.last = None /\ ~usage'.unknown /\ ~untold' /\ told' = 0
    BY <1>1 DEF Begin, BeginCall, Clean
  <2> QED BY <2>1, <2>2 DEF UsageInv, Sums
<1>2. CASE Done \/ UNCHANGED vars
  <2>1. UNCHANGED <<adapter, phase, pc, envelope, client, usage, told, untold>>
    BY <1>2 DEF Done, vars, callVars, call, history, hermes
  <2> QED BY <2>1 DEF UsageInv, Sums
<1> QED BY <1>1, <1>2, CodexAccounts, HermesAccounts DEF Next

\* What the engine adds for a call is what the journal records of it.
THEOREM JournalAgreesWithEngine == Spec => []JournalReadsAlike
<1>1. UsageInv => JournalReadsAlike
  <2> SUFFICES ASSUME UsageInv, phase = "answered", LastUsage # None
               PROVE  EngineReads(LastUsage) = RecordReads(LastUsage)
    BY DEF JournalReadsAlike
  <2>1. LastUsage = usage.last /\ envelope # "error"
    BY HermesConstants DEF UsageInv, LastUsage
  <2>2. LastUsage.total # None
    BY <2>1, AdapterConstants DEF UsageInv, Sums
  <2> QED BY <2>2 DEF EngineReads, RecordReads
<1> QED BY <1>1, InitIsTyped, NextIsTyped, UsageInvInit, UsageInvStep, PTL DEF Spec

-----------------------------------------------------------------------------
(* The adapters implement the port.                                        *)

\* A call of the host precedes the repair, and nothing precedes the first.
HostInv ==
  adapter # "codex" =>
    /\ requests <= 2
    /\ phase = "busy" /\ pc \in {"prepare", "launch", "starting"} => requests = 0
    /\ phase = "busy" /\ pc = "ask" => requests <= form - 1
    /\ phase = "busy" /\ pc = "asking" => requests <= form
    /\ phase = "busy" /\ pc \in {"prepare", "launch", "starting"} => form = 1

LEMMA HostInvInit == Init => HostInv
BY DEF Init, CallInit, HostInv

LEMMA HostInvStep == TypeOK /\ HostInv /\ [Next]_vars => HostInv'
<1> SUFFICES ASSUME TypeOK, HostInv, [Next]_vars PROVE HostInv'
  OBVIOUS
<1>t. form \in {1, 2} /\ requests \in Nat /\ adapter \in Adapters
  BY DEF TypeOK, CallTypeOK
<1>1. CASE Begin
  BY <1>t, <1>1 DEF Begin, BeginCall, HermesBegin, HostInv
<1>2. CASE Done \/ UNCHANGED vars
  BY <1>2 DEF Done, vars, callVars, call, history, hermes, HostInv
<1>3. CASE CodexStep /\ UNCHANGED hermes
  <2>1. adapter' = "codex"
    BY <1>3 DEF CodexStep, CodexAnswers, CodexBreaks, CodexNotFound, CodexIsLost, Runs, call
  <2> QED BY <2>1 DEF HostInv
<1>4. CASE HermesStep
  <2> USE DEF Served, call, history, Ends, HostEnds, InBridge, HostInv
  <2>1. ASSUME NEW d \in Nat, Prepare(d) \/ Launch(d) \/ BridgeStarts(d) \/ BridgeEnds(d)
        PROVE  HostInv'
    BY <1>t, <2>1 DEF Prepare, Launch, BridgeStarts, BridgeEnds
  <2>2. ASSUME NEW d \in Nat, BridgeBreaks(d) PROVE HostInv'
    BY <1>t, <2>2 DEF BridgeBreaks
  <2>3. ASSUME PrintFails \/ KillBridge PROVE HostInv'
    BY <1>t, <2>3 DEF PrintFails, KillBridge
  <2>4. ASSUME NEW d \in Nat, HostAsk(d) \/ HostRaises(d) PROVE HostInv'
    BY <1>t, <2>4 DEF HostAsk, HostRaises
  <2>5. ASSUME NEW d \in Nat, NEW report \in UsageType \cup {None},
               NEW good \in BOOLEAN, NEW object \in BOOLEAN,
               HostReturns(report, good, object, d)
        PROVE  HostInv'
    <3>1. requests' = requests /\ adapter' = adapter /\ pc' \in {"ask", "print", "done"}
      BY <2>5 DEF HostReturns, Parsed
    <3>2. CASE pc' = "ask"
      BY <1>t, <2>5, <3>1, <3>2 DEF HostReturns, Parsed
    <3>3. CASE pc' # "ask"
      BY <1>t, <2>5, <3>1, <3>3 DEF HostReturns
    <3> QED BY <3>2, <3>3
  <2> QED BY <1>4, <2>1, <2>2, <2>3, <2>4, <2>5, HermesCases
<1> QED BY <1>1, <1>2, <1>3, <1>4 DEF Next

Limit    == IF adapter = "codex" THEN 4 ELSE 2
Reported == IF phase = "answered" /\ LastUsage # None THEN LastUsage.total ELSE None

\* No step takes back what was requested or told.
LEMMA OnlyMore ==
  ASSUME TypeOK, CodexStep \/ HermesStep
  PROVE  /\ phase = "busy" /\ phase' # "idle" /\ adapter' = adapter
         /\ requests <= requests' /\ told <= told' /\ (untold => untold')
<1>t. requests \in Nat /\ told \in Nat /\ CallTypeOK
  BY DEF TypeOK, CallTypeOK
<1>1. CASE CodexStep
  <2>1. PICK d \in Nat :
          \/ \E report \in ExecReports, object \in BOOLEAN : CodexAnswers(report, object, d)
          \/ CodexBreaks(d) \/ CodexNotFound(d) \/ CodexIsLost(d)
    BY <1>1, AdapterConstants DEF CodexStep
  <2>2. ASSUME NEW report \in ExecReports, NEW object \in BOOLEAN,
               CodexAnswers(report, object, d)
        PROVE  /\ phase = "busy" /\ phase' # "idle" /\ adapter' = adapter
               /\ requests' = requests + 1 /\ told <= told' /\ (untold => untold')
    <3>1. report # None => ExecCost(report) \in Nat
      BY ExecTypes, CodexConstants
    <3>2. told <= told' /\ (untold => untold')
      BY <1>t, <2>2, <3>1, TellIsTyped DEF CodexAnswers
    <3> QED BY <2>2, <3>2 DEF CodexAnswers, Runs, call, Request
  <2>3. CASE CodexBreaks(d) \/ CodexNotFound(d) \/ CodexIsLost(d)
    BY <1>t, <2>3 DEF CodexBreaks, CodexNotFound, CodexIsLost, CodexFails, Runs, call, history,
                      Request
  <2> QED BY <1>t, <2>1, <2>2, <2>3
<1>2. CASE HermesStep
  <2> DEFINE More == /\ phase = "busy" /\ phase' # "idle" /\ adapter' = adapter
                     /\ requests <= requests' /\ told <= told' /\ (untold => untold')
  <2> USE DEF Served, call, history, Ends, HostEnds
  <2>1. ASSUME NEW d \in Nat, Prepare(d) \/ Launch(d) \/ BridgeStarts(d) \/ BridgeEnds(d)
        PROVE  More
    BY <1>t, <2>1 DEF Prepare, Launch, BridgeStarts, BridgeEnds
  <2>2. ASSUME NEW d \in Nat, BridgeBreaks(d) PROVE More
    BY <1>t, <2>2 DEF BridgeBreaks
  <2>3. ASSUME PrintFails \/ KillBridge PROVE More
    BY <1>t, <2>3 DEF PrintFails, KillBridge
  <2>4. ASSUME NEW d \in Nat, HostAsk(d) \/ HostRaises(d) PROVE More
    BY <1>t, <2>4 DEF HostAsk, HostRaises
  <2>5. ASSUME NEW d \in Nat, NEW report \in UsageType \cup {None},
               NEW good \in BOOLEAN, NEW object \in BOOLEAN,
               HostReturns(report, good, object, d)
        PROVE  More
    <3>1. report # None => HostCost(report) \in Nat
      BY HostTypes
    <3>2. told <= told' /\ (untold => untold')
      <4>1. CASE Tell(report, HostCost(report))
        BY <1>t, <3>1, <4>1, TellIsTyped
      <4>2. CASE untold' = TRUE /\ UNCHANGED told
        BY <1>t, <4>2
      <4> QED BY <2>5, <4>1, <4>2 DEF HostReturns
    <3> QED BY <1>t, <2>5, <3>2 DEF HostReturns, Parsed
  <2> QED BY <1>2, <2>1, <2>2, <2>3, <2>4, <2>5, HermesCases
<1> QED BY <1>1, <1>2

PortInv == TypeOK /\ CodexInv /\ HostInv /\ UsageInv

LEMMA StepsOfThePort ==
  ASSUME PortInv, PortInv', [Next]_vars
  PROVE  [Port!Next]_(Port!vars)
<1>t. /\ phase' \in {"idle", "busy", "answered", "failed"}
      /\ requests' \in Nat /\ requests \in Nat
  BY DEF PortInv, TypeOK, CallTypeOK
<1>1. CASE Begin
  <2>1. /\ phase # "busy" /\ phase' = "busy" /\ adapter' = adapter
        /\ requests' = 0 /\ told' = 0 /\ untold' = FALSE
    BY <1>1 DEF Begin, BeginCall
  <2>2. Reported' = None /\ Limit' = Limit
    BY <2>1 DEF Reported, Limit
  <2>3. Port!Begin
    BY <2>1, <2>2 DEF Port!Begin, Reported, Limit
  <2> QED BY <2>3 DEF Port!Next
<1>2. CASE Done \/ UNCHANGED vars
  BY <1>2 DEF Done, vars, callVars, call, history, hermes, Port!vars, LastUsage
<1>3. CASE CodexStep \/ HermesStep
  <2>1. /\ phase = "busy" /\ phase' # "idle" /\ adapter' = adapter
        /\ requests <= requests' /\ told <= told' /\ (untold => untold')
    BY <1>3, OnlyMore DEF PortInv
  <2>2. Limit' = Limit
    BY <2>1 DEF Limit
  <2>3. requests' <= Limit
    BY <1>t, <2>1 DEF PortInv, CodexInv, HostInv, Limit
  <2>4. Port!Requests
    BY <2>1, <2>2, <2>3 DEF Port!Requests, Limit
  <2>5. CASE phase' = "busy"
    <3>1. Reported' = None /\ Reported = None
      BY <2>1, <2>5 DEF Reported
    <3> QED BY <2>1, <2>4, <2>5, <3>1 DEF Port!Work, Port!Next, Reported
  <2>6. CASE phase' = "answered"
    <3>1. Sums' /\ LastUsage' = usage'.last
      BY <2>6, HermesConstants DEF PortInv, UsageInv, LastUsage
    <3>2. Reported' = None \/ (~untold' /\ Reported' = told')
      BY <2>6, <3>1 DEF Sums, Reported
    <3> QED BY <2>4, <2>6, <3>2 DEF Port!Answer, Port!Next, Reported
  <2>7. CASE phase' = "failed"
    <3>1. Reported' = None
      BY <2>7 DEF Reported
    <3> QED BY <2>4, <2>7, <3>1 DEF Port!Fail, Port!Next, Reported
  <2> QED BY <1>t, <2>1, <2>5, <2>6, <2>7
<1> QED BY <1>1, <1>2, <1>3 DEF Next

\* At most four requests serve a call of codex and two one of Hermes, and the
\* usage of a call that answered is whole and its own, or absent.
THEOREM PortIsImplemented == Spec => ImplementsPort
<1>1. Init => PortInv
  BY InitIsTyped, CodexInvInit, HostInvInit, UsageInvInit DEF PortInv
<1>2. PortInv /\ [Next]_vars => PortInv'
  BY NextIsTyped, CodexInvStep, HostInvStep, UsageInvStep DEF PortInv
<1>3. Init => Port!Init
  BY DEF Init, CallInit, Port!Init
<1>4. PortInv /\ PortInv' /\ [Next]_vars => [Port!Next]_(Port!vars)
  BY StepsOfThePort
<1> QED BY <1>1, <1>2, <1>3, <1>4, PTL DEF Spec, ImplementsPort, Port!Spec

================================================================================
