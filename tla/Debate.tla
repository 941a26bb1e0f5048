--------------------------------- MODULE Debate --------------------------------
(***************************************************************************)
(* ConsensusEngine.decide over a serial adapter (core/consensus.py), the   *)
(* path of every journaled CLI and plugin run: agents answer one after the *)
(* other, and the clock is read where the code reads it.  The clock is one *)
(* bit: whether time.monotonic() has passed the debate deadline.           *)
(***************************************************************************)
EXTENDS Positions

CONSTANTS
  AgentsCount,
  MaxRounds,
  BudgetTokens,  \* budget_tokens, or NoBudget
  NoBudget

\* The bounds __init__ enforces.
ASSUME EngineConstants ==
  /\ AgentsCount \in 2..8 /\ MaxRounds \in 0..8
  /\ BudgetTokens = NoBudget \/ BudgetTokens \in Nat \ {0}

VARIABLES
  pc,
  expired,     \* the debate deadline has passed
  round,       \* round_index
  current,     \* the positions of the last closed round
  results,     \* the positions gathered in the open round
  raw,         \* the answer the adapter has just returned
  transcript,
  spent,       \* _tokens_spent
  result,      \* what decide returned or raised
  billed,      \* history: tokens of every call the adapter completed
  calls,       \* history: calls started
  late         \* history: calls that returned after the deadline

debate  == <<round, current, results, transcript, spent>>
history == <<billed, calls, late>>
vars    == <<pc, expired, debate, raw, result, history>>

Labels == {"before", "call", "returned", "accepted", "close", "judge", "agree",
           "head", "finish", "done"}

Pending  == [status |-> "pending"]
NoAnswer == [stance |-> NoStance]

Init ==
  /\ pc = "before" /\ expired = FALSE
  /\ round = 0 /\ current = <<>> /\ results = <<>> /\ transcript = <<>>
  /\ spent = 0 /\ raw = NoAnswer /\ result = Pending
  /\ billed = 0 /\ calls = 0 /\ late = 0

Goto(label) == pc' = label

Finish(status, decision, dissent, majority, completed) ==
  /\ result' = [status |-> status, decision |-> decision, dissent |-> dissent,
                majority |-> majority, completed |-> completed, tokens |-> spent']
  /\ Goto("done")

\* _aborted_result keeps the last closed round's positions as the dissent; the
\* calls of the open round are added to the tokens first.
Abort(openTokens, completed) ==
  /\ spent' = spent + openTokens
  /\ Finish("aborted", NoStance, current, NoStance, completed)

Raise(error) == result' = [status |-> error] /\ Goto("done")

RoundsBefore == IF round = 0 THEN 0 ELSE round - 1

Tick ==
  /\ pc # "done" /\ ~expired /\ expired' = TRUE
  /\ UNCHANGED <<pc, debate, raw, result, history>>

-----------------------------------------------------------------------------
(* _gather_positions_serial and _complete: one agent.                      *)

CheckBefore ==
  /\ pc = "before"
  /\ \/ /\ expired
        /\ Abort(TokensOf(results), RoundsBefore)
     \/ /\ ~expired
        /\ Goto("call") /\ UNCHANGED <<spent, result>>
  /\ UNCHANGED <<expired, round, current, results, transcript, raw, history>>

AdapterReturns(response) ==
  /\ pc = "call"
  /\ raw' = response
  /\ billed' = billed + response.tokens
  /\ calls' = calls + 1
  /\ late' = IF expired THEN late + 1 ELSE late
  /\ Goto("returned")
  /\ UNCHANGED <<expired, debate, result>>

\* A timeout, a transient error that was not cured, a refused model, ...
AdapterRaises ==
  /\ pc = "call" /\ calls' = calls + 1
  /\ Raise("adapter_error")
  /\ UNCHANGED <<expired, debate, raw, billed, late>>

\* Mutant: the late answer is not paid for.
TakeLateAnswer_Unpaid ==
  /\ pc = "returned" /\ expired
  /\ Abort(TokensOf(results), RoundsBefore)
  /\ UNCHANGED <<expired, round, current, results, transcript, raw, history>>

\* The deadline is read before the answer is parsed: a late answer aborts the
\* debate, with its tokens, even if it is malformed.
TakeLateAnswer ==
  /\ pc = "returned" /\ expired
  /\ Abort(TokensOf(results) + raw.tokens, RoundsBefore)
  /\ UNCHANGED <<expired, round, current, results, transcript, raw, history>>

\* The position of the k-th agent of the round passes _parse_position and, in a
\* debate round, _validate_debate_update.
Acceptable(k, response) ==
  /\ Parses(response, round > 0)
  /\ round > 0 => ValidUpdate(current[k], Position(current[k].agent, response))

\* Mutant: the answer is parsed before the deadline is read.
TakeAnswer_ParsesFirst ==
  LET agent == Len(results) + 1 IN
  /\ pc = "returned"
  /\ \/ /\ Acceptable(agent, raw)
        /\ results' = Append(results, Position(agent, raw))
        /\ Goto("accepted") /\ UNCHANGED result
     \/ /\ ~Acceptable(agent, raw)
        /\ Raise("protocol_error") /\ UNCHANGED results
  /\ raw' = NoAnswer
  /\ UNCHANGED <<expired, round, current, transcript, spent, history>>

TakeAnswer ==
  LET agent == Len(results) + 1 IN
  /\ pc = "returned" /\ ~expired
  /\ \/ /\ Acceptable(agent, raw)
        /\ results' = Append(results, Position(agent, raw))
        /\ Goto("accepted") /\ UNCHANGED result
     \/ /\ ~Acceptable(agent, raw)
        /\ Raise("protocol_error") /\ UNCHANGED results
  /\ raw' = NoAnswer
  /\ UNCHANGED <<expired, round, current, transcript, spent, history>>

CheckAfter ==
  /\ pc = "accepted"
  /\ \/ /\ expired
        /\ Abort(TokensOf(results), RoundsBefore)
     \/ /\ ~expired
        /\ Goto(IF Len(results) = AgentsCount THEN "close" ELSE "before")
        /\ UNCHANGED <<spent, result>>
  /\ UNCHANGED <<expired, round, current, results, transcript, raw, history>>

-----------------------------------------------------------------------------
(* decide: closing and judging a round.                                    *)

\* _append_round
CloseRound ==
  /\ pc = "close"
  /\ current' = results /\ results' = <<>>
  /\ transcript' = Append(transcript, results)
  /\ spent' = spent + TokensOf(results)
  /\ Goto("judge")
  /\ UNCHANGED <<expired, round, raw, result, history>>

\* Mutant: only the tokens of the round that was just closed are compared.
OverBudget_LastRound == BudgetTokens # NoBudget /\ TokensOf(current) > BudgetTokens

OverBudget == BudgetTokens # NoBudget /\ spent > BudgetTokens

\* Mutant: <= in the place of <, one round too many.
JudgeRound_OneMore ==
  /\ pc = "judge"
  /\ \/ /\ OverBudget
        /\ Abort(0, round)
     \/ /\ ~OverBudget
        /\ Goto(IF Unanimous(current) THEN "agree"
                ELSE IF round <= MaxRounds THEN "head" ELSE "finish")
        /\ UNCHANGED <<spent, result>>
  /\ UNCHANGED <<expired, round, current, results, transcript, raw, history>>

JudgeRound ==
  /\ pc = "judge"
  /\ \/ /\ OverBudget
        /\ Abort(0, round)
     \/ /\ ~OverBudget
        /\ Goto(IF Unanimous(current) THEN "agree"
                ELSE IF round < MaxRounds THEN "head" ELSE "finish")
        /\ UNCHANGED <<spent, result>>
  /\ UNCHANGED <<expired, round, current, results, transcript, raw, history>>

\* Mutant: the old positions are judged again, the round is never gathered.
NextRound_Rejudges ==
  /\ pc = "head"
  /\ \/ /\ expired
        /\ Abort(0, round)
     \/ /\ ~expired
        /\ Goto("judge") /\ UNCHANGED <<spent, result>>
  /\ UNCHANGED <<expired, round, current, results, transcript, raw, history>>

\* The check at the head of a debate round.
NextRound ==
  /\ pc = "head"
  /\ \/ /\ expired
        /\ Abort(0, round)
        /\ UNCHANGED round
     \/ /\ ~expired
        /\ round' = round + 1
        /\ Goto("before") /\ UNCHANGED <<spent, result>>
  /\ UNCHANGED <<expired, current, results, transcript, raw, history>>

Agree ==
  /\ pc = "agree"
  /\ \/ expired /\ Abort(0, round)
     \/ /\ ~expired /\ UNCHANGED spent
        /\ Finish("unanimous", current[1].stance, <<>>, NoStance, round)
  /\ UNCHANGED <<expired, round, current, results, transcript, raw, history>>

Disagree ==
  /\ pc = "finish"
  /\ \/ expired /\ Abort(0, round)
     \/ /\ ~expired /\ UNCHANGED spent
        /\ Finish("no_consensus", NoStance, current, MajorityStance(current), round)
  /\ UNCHANGED <<expired, round, current, results, transcript, raw, history>>

Finished == pc = "done" /\ UNCHANGED vars

Engine ==
  \/ CheckBefore \/ TakeLateAnswer \/ TakeAnswer \/ CheckAfter
  \/ CloseRound \/ JudgeRound \/ NextRound \/ Agree \/ Disagree

Adapter == AdapterRaises \/ \E response \in Responses : AdapterReturns(response)

Next == Engine \/ Adapter \/ Tick \/ Finished

Spec == Init /\ [][Next]_vars

\* The engine runs.  Nothing is asked of the adapter: the engine has no timer of its
\* own around a serial call, and HermesHostLlm calls its host in the same thread.
FairSpec == Spec /\ WF_vars(Engine)

-----------------------------------------------------------------------------
(* Properties.                                                             *)

Positional == [agent : 1..AgentsCount, stance : Stances, conceded : BOOLEAN,
               maintained : BOOLEAN, tokens : Nat]

\* Every variable has its type.
TypeOK ==
  /\ pc \in Labels /\ expired \in BOOLEAN /\ round \in 0..MaxRounds
  /\ current \in Seq(Positional) /\ results \in Seq(Positional)
  /\ transcript \in Seq(Seq(Positional))
  /\ raw \in Responses \cup {NoAnswer}
  /\ spent \in Nat /\ billed \in Nat /\ calls \in Nat /\ late \in Nat
  /\ result.status \in {"pending", "unanimous", "no_consensus", "aborted",
                        "adapter_error", "protocol_error"}

Returned == result.status \in {"unanimous", "no_consensus", "aborted"}

\* Whatever way decide returns, its tokens_spent counts every completed call
\* once: the calls of closed rounds, the accepted ones of an open round, and the
\* one whose answer came too late to be parsed.
TokensCountedOnce == Returned => result.tokens = billed

\* "Overrun is bounded to one in-flight logical call" (consensus.py:329), and a
\* malformed answer cannot mask a crossed deadline (consensus.py:276-277): after
\* a call that returned late no other is made and the debate ends as aborted.
LateAnswersEndIt ==
  /\ late <= 1
  /\ pc = "done" /\ late > 0 => result.status = "aborted"

\* The token budget is judged after each round, so what a debate spends beyond it
\* is at most one round of calls.
BudgetOvershootsOneRound ==
  BudgetTokens # NoBudget =>
    billed <= BudgetTokens + AgentsCount * Max({r.tokens : r \in Responses})

\* Only a call that never returns keeps a serial debate from its end: whatever the
\* answers and wherever the deadline passes, decide has no wait and no loop of its own
\* without a limit.
EndsUnlessACallHangs == <>(pc = "done") \/ <>[](pc = "call")

\* What decide returned without the tokens, or that it raised.
Outcome ==
  IF Returned THEN [field \in DOMAIN result \ {"tokens"} |-> result[field]]
  ELSE [status |-> IF result.status = "pending" THEN "open" ELSE "failed",
        decision |-> NoStance, dissent |-> <<>>, majority |-> NoStance, completed |-> 0]

\* The engine implements the honest debate with all agents in every round.
Honest == INSTANCE HonestDebate
            WITH rounds <- transcript, outcome <- Outcome, MinQuorum <- AgentsCount

\* No agreement is fabricated: a unanimous verdict only on one non-empty stance of
\* all agents of the last round, no_consensus only after all rounds and with a
\* majority only where more than half mean it, no round after agreement, and no
\* change of stance without a concession; "partial transcript is preserved": an
\* abort reports the rounds that were closed and the last one's positions.
ImplementsHonestDebate == Honest!HonestSpec
================================================================================
