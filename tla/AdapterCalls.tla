----------------------------- MODULE AdapterCalls ------------------------------
(***************************************************************************)
(* What the Codex and the Hermes adapter have in common: calls of one      *)
(* thread, one after the other, that ask for text or for a JSON object, a  *)
(* clock, and the token usage a call keeps in last_usage and usage_unknown.*)
(* Both are attributes of a threading.local, so calls of other threads do  *)
(* not touch them.                                                         *)
(*                                                                         *)
(* Every step says how much time it takes.  Times are whole numbers of an  *)
(* arbitrary unit, and `elapsed` counts from the start of complete().      *)
(***************************************************************************)
EXTENDS Integers

CONSTANTS Timeout,    \* timeout_seconds of the adapter
          Delays,     \* what a step may take
          MaxCalls,   \* bound: calls of the thread
          None

OptNat    == Nat \cup {None}
UsageType == [input : OptNat, output : OptNat, total : OptNat]

ASSUME AdapterConstants ==
  /\ Timeout \in Nat \ {0} /\ MaxCalls \in Nat
  /\ None \notin Nat /\ None \notin UsageType
  /\ Delays \subseteq Nat

VARIABLES
  adapter,    \* the adapter the factories chose; "bridge" is HermesSubprocessLlm
  phase,      \* idle, busy, answered or failed
  calls,      \* calls begun
  structured, \* the call has a schema
  form,       \* 1, or 2 when the first answer was no JSON object
  elapsed,    \* time since the call began
  usage,      \* last_usage and usage_unknown
  requests,   \* history: requests of this call to a model
  told,       \* history: tokens they were told to have cost
  untold      \* history: one of them did not tell, or its answer was lost

history  == <<requests, told, untold>>
call     == <<adapter, calls, structured>>
callVars == <<call, phase, form, elapsed, usage, history>>

Adapters == {"codex", "host", "bridge"}

CallTypeOK ==
  /\ adapter \in Adapters
  /\ phase \in {"idle", "busy", "answered", "failed"}
  /\ calls \in Nat /\ structured \in BOOLEAN /\ form \in {1, 2} /\ elapsed \in Nat
  /\ usage \in [last : UsageType \cup {None}, unknown : BOOLEAN]
  /\ requests \in Nat /\ told \in Nat /\ untold \in BOOLEAN

Clean == [last |-> None, unknown |-> FALSE]
Lost  == [last |-> None, unknown |-> TRUE]

\* default_llm, or _host_llm_factory where the plugin's host has an llm surface.
CallInit ==
  /\ adapter \in Adapters /\ phase = "idle" /\ calls = 0
  /\ structured = FALSE /\ form = 1 /\ elapsed = 0 /\ usage = Clean
  /\ requests = 0 /\ told = 0 /\ untold = FALSE

BeginCall ==
  /\ phase # "busy" /\ phase' = "busy"
  /\ calls < MaxCalls /\ calls' = calls + 1
  /\ structured' \in BOOLEAN /\ form' = 1 /\ elapsed' = 0 /\ usage' = Clean
  /\ requests' = 0 /\ told' = 0 /\ untold' = FALSE
  /\ UNCHANGED adapter

-----------------------------------------------------------------------------
(* Usage.                                                                  *)

OrZero(n) == IF n = None THEN 0 ELSE n
AtLeast0(n) == IF n < 0 THEN 0 ELSE n

Parts(report) == OrZero(report.input) + OrZero(report.output)

\* A request tells what it cost, or brings no report.
Tell(report, cost) ==
  IF report = None THEN untold' = TRUE /\ UNCHANGED told
  ELSE told' = told + cost /\ UNCHANGED untold

\* _sum_usage adds key by key; a key only one side has is taken as it is.
PlusKey(m, n) == IF m = None THEN n ELSE m + OrZero(n)
SumUsage(left, right) ==
  IF left = None THEN right
  ELSE [key \in {"input", "output", "total"} |-> PlusKey(left[key], right[key])]

\* Mutant: an unknown part is left out of the sum.
Account_SkipsUnknown(reading) ==
  usage' = IF reading = None THEN usage
           ELSE [last |-> SumUsage(usage.last, reading), unknown |-> FALSE]

\* One part unknown makes the whole unknown.
Account(reading) ==
  usage' = IF reading = None \/ usage.unknown THEN Lost
           ELSE [last |-> SumUsage(usage.last, reading), unknown |-> FALSE]

\* The engine's _real_token_usage, and _real_usage with which the call record of
\* the journal is written: two functions that must agree on what one call cost.
Reading(u, total) ==
  IF total = None THEN None
  ELSE [input |-> OrZero(u.input), total |-> total,
        output |-> IF u.output # None THEN u.output ELSE AtLeast0(total - OrZero(u.input))]

EngineReads(u) ==
  Reading(u, IF u.total # None THEN u.total
             ELSE IF u.input # None /\ u.output # None THEN u.input + u.output ELSE None)

RecordReads(u) ==
  Reading(u, IF u.total # None THEN u.total
             ELSE IF u.output # None THEN OrZero(u.input) + u.output ELSE None)
================================================================================
