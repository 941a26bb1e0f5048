-------------------------------- MODULE LlmPort --------------------------------
(***************************************************************************)
(* What the engine may expect of complete() (core/ports.py LlmPort and the *)
(* last_usage it reads beside it): a call makes at most `limit` requests   *)
(* to a model, and its usage is either unknown, in which case the engine   *)
(* estimates it, or what all its own requests together were told to cost.  *)
(* It is never a part of that, nor anything of an earlier call.            *)
(***************************************************************************)
EXTENDS Integers

CONSTANT Unknown   \* no usage is reported

VARIABLES
  phase,     \* of the call: idle, busy, answered or failed
  limit,     \* of requests per call
  requests,  \* made by this call
  told,      \* tokens the requests of this call were told to have cost
  untold,    \* some request of this call did not tell, or its answer was lost
  reported   \* the tokens of an answered call

vars == <<phase, limit, requests, told, untold, reported>>

Init ==
  /\ phase = "idle" /\ limit \in Nat /\ requests = 0
  /\ told = 0 /\ untold = FALSE /\ reported = Unknown

Begin ==
  /\ phase # "busy" /\ phase' = "busy"
  /\ requests' = 0 /\ told' = 0 /\ untold' = FALSE /\ reported' = Unknown
  /\ UNCHANGED limit

\* The call goes on: requests are made and tell what they cost.
Requests ==
  /\ phase = "busy" /\ UNCHANGED limit
  /\ requests <= requests' /\ requests' <= limit
  /\ told <= told' /\ (untold => untold')

Work == Requests /\ UNCHANGED <<phase, reported>>

Answer ==
  /\ Requests /\ phase' = "answered"
  /\ reported' = Unknown \/ (~untold' /\ reported' = told')

Fail == Requests /\ phase' = "failed" /\ reported' = Unknown

Next == Begin \/ Work \/ Answer \/ Fail

Spec == Init /\ [][Next]_vars
================================================================================
