----------------------------- MODULE ParallelDebate ----------------------------
(***************************************************************************)
(* ConsensusEngine.decide over an adapter that is not serial: the agents   *)
(* of a round run on a thread pool and the engine collects their futures   *)
(* in order (core/consensus.py: _gather_positions and                      *)
(* _account_post_deadline_parallel).  Closing and judging a round is that  *)
(* of Debate; its serial gathering is replaced.                            *)
(*                                                                         *)
(* A wait may time out whenever its future is not done: the durations of   *)
(* agent_timeout_s and of the remaining budget are not modelled.  Threads  *)
(* that outlive their round are forgotten by the engine and by the model.  *)
(***************************************************************************)
EXTENDS Debate

CONSTANTS
  Workers,     \* max_workers of the pool
  MinQuorum    \* MIN_QUORUM

ASSUME PoolConstants == Workers \in 2..8 /\ MinQuorum \in 2..AgentsCount

VARIABLES
  phase,     \* of the open round: waiting, draining or idle
  slot,      \* the future of each task
  turn,      \* the task whose future is waited for
  gathered,  \* results: task -> position, None while missing
  drain,     \* already_done, the siblings still to be drained
  completed, \* completed_calls of a deadline abort
  proven     \* history: tasks whose call had completed when the drain began

pool == <<phase, slot, turn, gathered, drain, completed, proven>>
parallelVars == <<vars, pool>>

Queued  == [state |-> "queued"]
Running == [state |-> "running"]
Missing == [agent |-> 0]

Tasks == DOMAIN slot

AgentOf(k) == IF round = 0 THEN k ELSE current[k].agent

Done(k)   == slot[k].state \in {"position", "late", "error", "timeout", "cancelled"}
Proven(k) == slot[k].state \in {"position", "late"}

ParallelInit ==
  /\ Init
  /\ phase = "idle" /\ slot = <<>> /\ turn = 0 /\ gathered = <<>>
  /\ drain = {} /\ completed = 0 /\ proven = {}

\* executor.submit for every agent that is left.
Submit ==
  LET count == IF round = 0 THEN AgentsCount ELSE Len(current) IN
  /\ pc = "before" /\ phase = "idle"
  /\ phase' = "waiting" /\ turn' = 1
  /\ slot' = [k \in 1..count |-> Queued]
  /\ gathered' = [k \in 1..count |-> Missing]
  /\ UNCHANGED <<vars, drain, completed, proven>>

-----------------------------------------------------------------------------
(* The threads of the pool.                                                *)

SetSlot(k, future) == slot' = [slot EXCEPT ![k] = future]

\* The queue of the pool is first in, first out.
Start(k) ==
  /\ slot[k] = Queued /\ \A j \in Tasks : slot[j] = Queued => k <= j
  /\ Cardinality({j \in Tasks : slot[j] = Running}) < Workers
  /\ SetSlot(k, Running)
  /\ calls' = calls + 1
  /\ UNCHANGED <<pc, expired, debate, raw, result, billed, late,
                 phase, turn, gathered, drain, completed, proven>>

\* The call returns; past the deadline its answer is not even parsed.
Return(k, response) ==
  /\ slot[k] = Running
  /\ SetSlot(k, IF expired THEN [state |-> "late", tokens |-> response.tokens]
                ELSE IF Acceptable(k, response)
                THEN [state |-> "position", position |-> Position(AgentOf(k), response)]
                ELSE [state |-> "error", error |-> "protocol_error"])
  /\ billed' = billed + response.tokens
  /\ late' = IF expired THEN late + 1 ELSE late
  /\ UNCHANGED <<pc, expired, debate, raw, result, calls,
                 phase, turn, gathered, drain, completed, proven>>

\* The adapter raises; its TimeoutError is the one future.result raises.
ReturnError(k) ==
  /\ slot[k] = Running
  /\ \/ SetSlot(k, [state |-> "timeout"])
     \/ SetSlot(k, [state |-> "error", error |-> "adapter_error"])
  /\ UNCHANGED <<vars, phase, turn, gathered, drain, completed, proven>>

-----------------------------------------------------------------------------
(* The collector.                                                          *)

\* executor.shutdown(cancel_futures=True): what is queued never runs, and what
\* runs on has no effect on the debate any more.
Shutdown ==
  /\ phase' = "idle" /\ slot' = <<>> /\ turn' = 0 /\ gathered' = <<>>

Waiting(k) == phase = "waiting" /\ turn = k /\ k \in Tasks

Collect(k) ==
  /\ Waiting(k) /\ slot[k].state = "position"
  /\ gathered' = [gathered EXCEPT ![k] = slot[k].position]
  /\ turn' = turn + 1
  /\ UNCHANGED <<vars, phase, slot, drain, completed, proven>>

\* Mutant: the wait has no timeout of its own.
Drop_WithoutTimeout(k) ==
  /\ Waiting(k) /\ slot[k].state = "timeout"
  /\ turn' = turn + 1
  /\ UNCHANGED <<vars, phase, slot, gathered, drain, completed, proven>>

\* A hang is isolated: the agent is dropped, and cancelled if it has not begun.
Drop(k) ==
  /\ Waiting(k) /\ (~Done(k) \/ slot[k].state = "timeout")
  /\ slot' = [slot EXCEPT ![k] = IF @ = Queued THEN [state |-> "cancelled"] ELSE @]
  /\ turn' = turn + 1
  /\ UNCHANGED <<vars, phase, gathered, drain, completed, proven>>

\* Protocol violations and backend errors propagate.
Propagate(k) ==
  /\ Waiting(k) /\ slot[k].state = "error"
  /\ Raise(slot[k].error)
  /\ Shutdown
  /\ UNCHANGED <<expired, debate, raw, history, drain, completed, proven>>

GatheredSet == {k \in Tasks : gathered[k] # Missing}
InOrder     ==
  FoldLeft(LAMBDA found, p : IF p # Missing THEN Append(found, p) ELSE found, <<>>, gathered)

\* _account_post_deadline_parallel: the eligible siblings are frozen first.
SeeLateAnswer(k) ==
  /\ Waiting(k) /\ slot[k].state = "late"
  /\ phase' = "draining"
  /\ drain' = {j \in Tasks : j # k /\ j \notin GatheredSet /\ Done(j)}
  /\ proven' = {j \in Tasks : Proven(j)}
  /\ spent' = spent + TokensOf(InOrder) + slot[k].tokens
  /\ completed' = Cardinality(GatheredSet) + 1
  /\ UNCHANGED <<pc, expired, round, current, results, transcript, raw, result, history,
                 slot, turn, gathered>>

\* Mutant: siblings that had returned in time are not counted.
DrainSibling_LateOnly(k) ==
  /\ phase = "draining" /\ k \in drain /\ \A j \in drain : k <= j
  /\ drain' = drain \ {k}
  /\ spent' = spent + (IF slot[k].state = "late" THEN slot[k].tokens ELSE 0)
  /\ completed' = IF slot[k].state = "late" THEN completed + 1 ELSE completed
  /\ UNCHANGED <<pc, expired, round, current, results, transcript, raw, result, history,
                 phase, slot, turn, gathered, proven>>

DrainSibling(k) ==
  /\ phase = "draining" /\ k \in drain /\ \A j \in drain : k <= j
  /\ drain' = drain \ {k}
  /\ spent' = spent + (CASE slot[k].state = "late"     -> slot[k].tokens
                         [] slot[k].state = "position" -> slot[k].position.tokens
                         [] OTHER                      -> 0)
  /\ completed' = IF Proven(k) THEN completed + 1 ELSE completed
  /\ UNCHANGED <<pc, expired, round, current, results, transcript, raw, result, history,
                 phase, slot, turn, gathered, proven>>

Drained ==
  /\ phase = "draining" /\ drain = {}
  /\ Abort(0, RoundsBefore)
  /\ phase' = "drained"
  /\ UNCHANGED <<expired, round, current, results, transcript, raw, history,
                 slot, turn, gathered, drain, completed, proven>>

\* Every future was waited for.
Gathered == phase = "waiting" /\ turn \notin Tasks

LoseQuorum ==
  /\ Gathered /\ Cardinality(GatheredSet) < MinQuorum
  /\ Abort(0, RoundsBefore)
  /\ phase' = "quorum lost"
  /\ UNCHANGED <<expired, round, current, results, transcript, raw, history,
                 slot, turn, gathered, drain, completed, proven>>

\* Mutant: any position will do.
KeepQuorum_AnyOne ==
  /\ Gathered /\ GatheredSet # {}
  /\ results' = InOrder
  /\ Goto("close")
  /\ Shutdown
  /\ UNCHANGED <<expired, round, current, transcript, spent, raw, result, history,
                 drain, completed, proven>>

KeepQuorum ==
  /\ Gathered /\ Cardinality(GatheredSet) >= MinQuorum
  /\ results' = InOrder
  /\ Goto("close")
  /\ Shutdown
  /\ UNCHANGED <<expired, round, current, transcript, spent, raw, result, history,
                 drain, completed, proven>>

Collector ==
  \/ Submit \/ Drained \/ LoseQuorum \/ KeepQuorum
  \/ \E k \in Tasks :
       Collect(k) \/ Drop(k) \/ Propagate(k) \/ SeeLateAnswer(k) \/ DrainSibling(k)

\* The rest of decide is that of Debate.
Decide ==
  /\ CloseRound \/ JudgeRound \/ NextRound \/ Agree \/ Disagree
  /\ UNCHANGED pool

Threads ==
  /\ pc # "done"
  /\ \E k \in Tasks :
       \/ Start(k) \/ ReturnError(k)
       \/ \E response \in Responses : Return(k, response)

ParallelNext ==
  \/ Collector \/ Decide \/ Threads
  \/ (Tick \/ Finished) /\ UNCHANGED pool

ParallelSpec == ParallelInit /\ [][ParallelNext]_parallelVars

\* The engine's own thread runs and its waits end; an adapter may hang for ever.
ParallelFairSpec == ParallelSpec /\ WF_parallelVars(Collector \/ Decide)

-----------------------------------------------------------------------------
(* Properties.                                                             *)

TokensOfRounds(closed) ==
  FoldLeft(LAMBDA sum, positions : sum + TokensOf(positions), 0, closed)

ClosedTokens == TokensOfRounds(transcript)

SlotTokens(k) == IF slot[k].state = "late" THEN slot[k].tokens ELSE slot[k].position.tokens

\* A deadline abort counts, besides the closed rounds, exactly the calls of the
\* open round that had completed when the late answer was seen, whatever finishes
\* during the accounting (consensus.py:370-380); and no path counts a call twice,
\* by its own round and a later one.
AbortCountsTheSnapshot ==
  /\ phase = "drained" =>
       /\ completed = Cardinality(proven)
       /\ spent = ClosedTokens + MapThenSumSet(SlotTokens, proven)
  /\ spent <= billed

\* The engine ends even if threads hang for ever: one stuck agent blocks neither
\* its siblings nor the debate (consensus.py:305).
EndsDespiteHangs == <>(pc = "done")

\* The verdict rules hold with agents that drop out, as long as a quorum stays.
ParallelHonest == INSTANCE HonestDebate WITH rounds <- transcript, outcome <- Outcome

ImplementsHonestDebateWithQuorum == ParallelHonest!HonestSpec

\* "Token usage is tracked per logical call and per round" (DESIGN.md:187-188):
\* an abort for lost quorum counts the calls whose positions it had collected.
QuorumAbortCountsCalls ==
  phase = "quorum lost" => spent = ClosedTokens + TokensOf(InOrder)
================================================================================
