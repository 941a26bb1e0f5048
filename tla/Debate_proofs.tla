----------------------------- MODULE Debate_proofs -----------------------------
(***************************************************************************)
(* Proofs about Debate, for any stances, answers, agents, rounds and token *)
(* budget: the engine implements the honest debate, late answers end it,   *)
(* each call is counted once, and a budget is overshot by one round.       *)
(***************************************************************************)
EXTENDS Debate, SequenceFolds

-----------------------------------------------------------------------------
(* The tokens of a list of positions.                                      *)

Priced(P) == \A p \in P : p.tokens \in Nat

\* How the tokens of one more position are added.
TokenStep(P) == [x \in Nat \X P |-> x[1] + x[2].tokens]

LEMMA TokenStepType ==
  ASSUME NEW P, Priced(P)
  PROVE  /\ TokenStep(P) \in [Nat \X P -> Nat]
         /\ \A sum \in Nat, p \in P : TokenStep(P)[<<sum, p>>] = sum + p.tokens
BY DEF TokenStep, Priced

LEMMA TokensFold ==
  ASSUME NEW P, Priced(P), NEW t \in Seq(P)
  PROVE  \E f : Folds(f, Nat, TokenStep(P), 0, t) /\ TokensOf(t) = f[1..Len(t)]
<1> DEFINE step == TokenStep(P)
           it == CHOOSE f : f = [S \in SUBSET (DOMAIN t) |->
                     IF S = {} THEN 0 ELSE f[S \ {Max(S)}] + t[Max(S)].tokens]
<1>1. TokensOf(t) = it[DOMAIN t]
  BY DEF TokensOf, FoldLeft, MapThenFoldSet
<1>2. /\ step \in [Nat \X P -> Nat] /\ 0 \in Nat
      /\ \A sum \in Nat, p \in P : step[<<sum, p>>] = sum + p.tokens
  BY TokenStepType
<1>3. it = [S \in SUBSET (DOMAIN t) |->
             IF S = {} THEN 0 ELSE it[S \ {Max(S)}] + t[Max(S)].tokens]
  <2>1. PICK g : Folds(g, Nat, step, 0, t)
    <3> HIDE DEF it, step
    <3> QED
      BY <1>2, FoldExists
  <2>2. g = [S \in SUBSET (DOMAIN t) |->
               IF S = {} THEN 0 ELSE g[S \ {Max(S)}] + t[Max(S)].tokens]
    <3> HIDE DEF it, step
    <3>1. /\ g = [S \in SUBSET (DOMAIN t) |-> g[S]]
          /\ g[{}] = 0
          /\ \A S \in SUBSET (DOMAIN t) : S # {} =>
               /\ g[S \ {Max(S)}] \in Nat /\ t[Max(S)] \in P
               /\ g[S] = step[<<g[S \ {Max(S)}], t[Max(S)]>>]
      <4>1. MadeOf(g, Nat, P, step, 0, t)
        BY <1>2, <2>1, FoldSteps
      <4> QED
        BY <4>1 DEF MadeOf
    <3>2. ASSUME NEW S \in SUBSET (DOMAIN t), S # {}
          PROVE  g[S] = g[S \ {Max(S)}] + t[Max(S)].tokens
      BY <1>2, <3>1, <3>2
    <3> QED
      BY <3>1, <3>2
  <2> QED
    BY <2>2, Zenon
<1> HIDE DEF it, step
<1>4. it = [S \in SUBSET (DOMAIN t) |-> it[S]] /\ it[{}] = 0
  BY <1>3
<1>5. ASSUME NEW S \in SUBSET (DOMAIN t), S # {}, it[S \ {Max(S)}] \in Nat, t[Max(S)] \in P
      PROVE  it[S] = step[<<it[S \ {Max(S)}], t[Max(S)]>>]
  <2>1. it[S] = it[S \ {Max(S)}] + t[Max(S)].tokens
    BY <1>3, <1>5
  <2> QED
    BY <1>2, <1>5, <2>1
<1>6. Folds(it, Nat, step, 0, t)
  BY <1>2, <1>4, <1>5, FoldFromSteps
<1>7. DOMAIN t = 1..Len(t)
  OBVIOUS
<1> QED
  BY <1>1, <1>6, <1>7 DEF step

\* No position costs nothing, and each adds its own tokens.
LEMMA TokensOfNone == TokensOf(<<>>) = 0
<1>1. PICK f : Folds(f, Nat, TokenStep({}), 0, <<>>) /\ TokensOf(<<>>) = f[1..Len(<<>>)]
  <2>1. <<>> \in Seq({}) /\ Priced({})
    BY DEF Priced
  <2> QED
    BY <2>1, TokensFold
<1>2. 1..Len(<<>>) = {}
  OBVIOUS
<1> QED
  BY <1>1, <1>2 DEF Folds, FoldsUpto

LEMMA TokensOfType ==
  ASSUME NEW P, Priced(P), NEW t \in Seq(P)
  PROVE  TokensOf(t) \in Nat
<1>1. PICK f : Folds(f, Nat, TokenStep(P), 0, t) /\ TokensOf(t) = f[1..Len(t)]
  BY TokensFold
<1> QED
  BY <1>1 DEF Folds, FoldsUpto

LEMMA TokensOfAppend ==
  ASSUME NEW P, Priced(P), NEW t \in Seq(P), NEW p \in P
  PROVE  TokensOf(Append(t, p)) = TokensOf(t) + p.tokens
<1> DEFINE step == TokenStep(P)
           u == Append(t, p)
<1>1. step \in [Nat \X P -> Nat] /\ 0 \in Nat /\ u \in Seq(P)
  <2>1. u \in Seq(P)
    OBVIOUS
  <2> HIDE DEF u
  <2> QED
    BY <2>1, TokenStepType
<1>2. \A sum \in Nat : step[<<sum, p>>] = sum + p.tokens
  BY TokenStepType
<1>3. PICK f : Folds(f, Nat, step, 0, t) /\ TokensOf(t) = f[1..Len(t)]
  BY TokensFold
<1>4. PICK g : Folds(g, Nat, step, 0, u) /\ TokensOf(u) = g[1..Len(u)]
  BY <1>1, TokensFold
<1>5. TokensOf(t) \in Nat
  BY TokensOfType
<1>6. u[Len(u)] = p /\ OneMore(t, u)
  BY DEF OneMore
<1>7. OneStep(f, g, step, t, u)
  <2> HIDE DEF step, u
  <2> QED
    BY <1>1, <1>3, <1>4, <1>6, FoldOfAppend
<1>8. TokensOf(u) = step[<<TokensOf(t), p>>]
  BY <1>3, <1>4, <1>6, <1>7 DEF OneStep
<1> HIDE DEF step
<1> QED
  BY <1>2, <1>5, <1>8

LEMMA PositionsArePriced == Priced(Positional)
BY DEF Priced, Positional

-----------------------------------------------------------------------------
(* The inductive invariant.                                                *)

Gathering == {"before", "call", "returned", "accepted", "close"}
Judging   == {"judge", "agree", "head", "finish"}

\* The k-th position of a round is that of agent k.
InSeats(positions) == \A k \in DOMAIN positions : positions[k].agent = k

Typed ==
  /\ pc \in Labels /\ round \in 0..MaxRounds
  /\ current \in Seq(Positional) /\ results \in Seq(Positional)
  /\ transcript \in Seq(Seq(Positional))
  /\ pc = "returned" => raw \in ResponseType
  /\ pc # "done" => result = Pending

\* What the engine holds as current is the last closed round, and no round is
\* gathered after an agreement.
CurrentIsLast ==
  /\ transcript = <<>> => current = <<>>
  /\ transcript # <<>> =>
       /\ current = transcript[Len(transcript)]
       /\ Len(current) = AgentsCount /\ InSeats(current)
  /\ pc \in Gathering /\ transcript # <<>> => ~Unanimous(current)

\* The open round holds the agents in order, each of which kept its stance or
\* conceded.
OpenRound ==
  pc \in Gathering =>
    /\ Len(transcript) = round
    /\ InSeats(results) /\ Len(results) <= AgentsCount
    /\ pc \in {"before", "call", "returned"} => Len(results) < AgentsCount
    /\ pc = "close" => Len(results) = AgentsCount
    /\ transcript # <<>> =>
         \A k \in DOMAIN results :
           ~SameStance(current[k], results[k]) => results[k].conceded

\* Where the engine is tells what it found about the closed round.
ClosedRound ==
  pc \in Judging =>
    /\ Len(transcript) = round + 1 /\ results = <<>>
    /\ pc = "agree" => Unanimous(current)
    /\ pc = "head" => ~Unanimous(current) /\ round < MaxRounds
    /\ pc = "finish" => ~Unanimous(current) /\ round = MaxRounds

DebateInv == Typed /\ CurrentIsLast /\ OpenRound /\ ClosedRound

-----------------------------------------------------------------------------
(* Positions.                                                              *)

\* What is accepted of an answer is a position of its agent.
LEMMA PositionType ==
  ASSUME NEW agent \in 1..AgentsCount, NEW response \in ResponseType
  PROVE  Position(agent, response) \in Positional /\ Position(agent, response).agent = agent
BY PositionConstants DEF Position, Positional, ResponseType

LEMMA CountsAreNaturals == AgentsCount \in Nat /\ AgentsCount >= 2 /\ MaxRounds \in Nat
BY EngineConstants

LEMMA InitInv == Init => DebateInv
<1> SUFFICES ASSUME Init PROVE DebateInv
  OBVIOUS
<1>1. Typed
  BY CountsAreNaturals, EmptySeq DEF Init, Typed, Labels
<1>2. CurrentIsLast /\ ClosedRound
  BY DEF Init, CurrentIsLast, ClosedRound, Judging
<1>3. OpenRound
  BY CountsAreNaturals, EmptySeq DEF Init, OpenRound, InSeats
<1> QED BY <1>1, <1>2, <1>3 DEF DebateInv

\* A step that leaves the rounds alone and ends the debate keeps the invariant.
LEMMA EndKeepsInv ==
  ASSUME DebateInv, pc' = "done", UNCHANGED <<round, current, results, transcript>>
  PROVE  DebateInv'
BY DEF DebateInv, Typed, Labels, CurrentIsLast, OpenRound, ClosedRound, Gathering, Judging,
       InSeats

\* A new accepted position keeps the open round in order.
LEMMA AcceptKeepsInv ==
  ASSUME DebateInv, pc = "returned", Acceptable(Len(results) + 1, raw),
         results' = Append(results, Position(Len(results) + 1, raw)), pc' = "accepted",
         UNCHANGED <<round, current, transcript, result>>
  PROVE  DebateInv'
<1> DEFINE agent == Len(results) + 1
           new == Position(agent, raw)
<1>1. /\ results \in Seq(Positional) /\ Len(results) < AgentsCount /\ Len(results) \in Nat
      /\ raw \in ResponseType /\ Len(transcript) = round
  BY LenProperties DEF DebateInv, Typed, OpenRound, Gathering
<1>2. agent \in 1..AgentsCount
  BY <1>1, CountsAreNaturals
<1>3. new \in Positional /\ new.agent = agent
  BY <1>1, <1>2, PositionType
<1>4. /\ results' \in Seq(Positional) /\ Len(results') = agent
      /\ \A k \in 1..Len(results) : results'[k] = results[k]
      /\ results'[agent] = new /\ DOMAIN results' = 1..agent
      /\ DOMAIN results = 1..Len(results)
  BY <1>1, <1>3, AppendProperties, LenProperties
<1>5. Typed'
  BY <1>4 DEF DebateInv, Typed, Labels
<1>6. CurrentIsLast' /\ ClosedRound'
  BY DEF DebateInv, CurrentIsLast, ClosedRound, Gathering, Judging, InSeats
<1>7. InSeats(results)'
  BY <1>1, <1>3, <1>4 DEF InSeats, DebateInv, OpenRound, Gathering
<1>8. ASSUME transcript # <<>>, NEW k \in 1..agent
      PROVE  ~SameStance(current[k], results'[k]) => results'[k].conceded
  <2>1. CASE k \in 1..Len(results)
    BY <1>4, <1>8, <2>1 DEF DebateInv, OpenRound, Gathering
  <2>2. CASE k = agent
    <3>1. round > 0
      BY <1>1, <1>8, EmptySeq, LenProperties DEF DebateInv, Typed
    <3>2. ValidUpdate(current[k], Position(current[k].agent, raw))
      BY <2>2, <3>1 DEF Acceptable
    <3>3. Position(current[k].agent, raw).stance = new.stance
          /\ Position(current[k].agent, raw).conceded = new.conceded
      BY DEF Position
    <3> QED BY <1>4, <2>2, <3>2, <3>3 DEF ValidUpdate, SameStance
  <2> QED BY <1>1, <2>1, <2>2
<1>9. OpenRound'
  BY <1>1, <1>2, <1>4, <1>7, <1>8 DEF OpenRound, Gathering
<1> QED BY <1>5, <1>6, <1>9 DEF DebateInv

LEMMA CloseKeepsInv == DebateInv /\ CloseRound => DebateInv'
<1> SUFFICES ASSUME DebateInv, CloseRound PROVE DebateInv'
  OBVIOUS
<1>1. /\ pc = "close" /\ results \in Seq(Positional) /\ Len(results) = AgentsCount
      /\ InSeats(results) /\ Len(transcript) = round /\ transcript \in Seq(Seq(Positional))
  BY DEF CloseRound, DebateInv, Typed, OpenRound, Gathering
<1>2. /\ pc' = "judge" /\ current' = results /\ results' = <<>> /\ round' = round
      /\ transcript' = Append(transcript, results) /\ result' = result
  BY DEF CloseRound, Goto
<1>3. /\ transcript' \in Seq(Seq(Positional)) /\ Len(transcript') = Len(transcript) + 1
      /\ transcript'[Len(transcript')] = results /\ transcript' # <<>>
  BY <1>1, <1>2, AppendProperties, LenProperties, EmptySeq
<1>4. Typed'
  BY <1>1, <1>2, <1>3, EmptySeq DEF DebateInv, Typed, Labels
<1>5. CurrentIsLast'
  BY <1>1, <1>2, <1>3 DEF CurrentIsLast, Gathering, InSeats
<1>6. OpenRound' /\ ClosedRound'
  BY <1>1, <1>2, <1>3 DEF OpenRound, ClosedRound, Gathering
<1> QED BY <1>4, <1>5, <1>6 DEF DebateInv

LEMMA JudgeKeepsInv == DebateInv /\ JudgeRound => DebateInv'
<1> SUFFICES ASSUME DebateInv, JudgeRound PROVE DebateInv'
  OBVIOUS
<1>1. CASE OverBudget
  <2>1. pc' = "done" \/ ~OverBudget
    BY DEF JudgeRound, Abort, Finish, Goto
  <2> QED BY <1>1, <2>1, EndKeepsInv DEF JudgeRound
<1>2. CASE ~OverBudget
  <2>1. /\ pc = "judge" /\ UNCHANGED <<round, current, results, transcript, result, raw>>
        /\ pc' = IF Unanimous(current) THEN "agree"
                 ELSE IF round < MaxRounds THEN "head" ELSE "finish"
    BY <1>2 DEF JudgeRound, Goto
  <2>2. round \in 0..MaxRounds
    BY DEF DebateInv, Typed
  <2>3. /\ pc' = "agree" => Unanimous(current)
        /\ pc' = "head" => ~Unanimous(current) /\ round < MaxRounds
        /\ pc' = "finish" => ~Unanimous(current) /\ round = MaxRounds
        /\ pc' \in {"agree", "head", "finish"}
    BY <2>1, <2>2, CountsAreNaturals
  <2>4. Typed' /\ CurrentIsLast'
    BY <2>1, <2>3 DEF DebateInv, Typed, Labels, CurrentIsLast, Gathering, InSeats
  <2>5. Unanimous(current)' = Unanimous(current)
    BY <2>1
  <2>6. OpenRound' /\ ClosedRound'
    BY <2>1, <2>3, <2>5 DEF DebateInv, OpenRound, ClosedRound, Gathering, Judging
  <2> QED BY <2>4, <2>6 DEF DebateInv
<1> QED BY <1>1, <1>2

LEMMA HeadKeepsInv == DebateInv /\ NextRound => DebateInv'
<1> SUFFICES ASSUME DebateInv, NextRound PROVE DebateInv'
  OBVIOUS
<1>1. CASE expired
  BY <1>1, EndKeepsInv DEF NextRound, Abort, Finish, Goto
<1>2. CASE ~expired
  <2>1. /\ pc = "head" /\ pc' = "before" /\ round' = round + 1
        /\ UNCHANGED <<current, results, transcript, result>>
    BY <1>2 DEF NextRound, Goto
  <2>2. /\ Len(transcript) = round + 1 /\ results = <<>>
        /\ ~Unanimous(current) /\ round < MaxRounds /\ round \in Nat
    BY <2>1 DEF DebateInv, Typed, ClosedRound, Judging
  <2>3. Typed' /\ CurrentIsLast' /\ ClosedRound'
    BY <2>1, <2>2, CountsAreNaturals
       DEF DebateInv, Typed, Labels, CurrentIsLast, ClosedRound, Judging, InSeats
  <2>4. OpenRound'
    BY <2>1, <2>2, CountsAreNaturals, EmptySeq DEF OpenRound, Gathering, InSeats
  <2> QED BY <2>3, <2>4 DEF DebateInv
<1> QED BY <1>1, <1>2

LEMMA CheckAfterKeepsInv == DebateInv /\ CheckAfter => DebateInv'
<1> SUFFICES ASSUME DebateInv, CheckAfter PROVE DebateInv'
  OBVIOUS
<1>1. CASE expired
  BY <1>1, EndKeepsInv DEF CheckAfter, Abort, Finish, Goto
<1>2. CASE ~expired
  <2>1. /\ pc = "accepted" /\ UNCHANGED <<round, current, results, transcript, result>>
        /\ pc' = IF Len(results) = AgentsCount THEN "close" ELSE "before"
    BY <1>2 DEF CheckAfter, Goto
  <2>2. Len(results) <= AgentsCount /\ Len(results) \in Nat
    BY <2>1, LenProperties DEF DebateInv, Typed, OpenRound, Gathering
  <2>3. /\ pc' = "close" => Len(results) = AgentsCount
        /\ pc' = "before" => Len(results) < AgentsCount
        /\ pc' \in {"close", "before"}
    BY <2>1, <2>2, CountsAreNaturals
  <2>4. Typed' /\ CurrentIsLast' /\ ClosedRound'
    BY <2>1, <2>3
       DEF DebateInv, Typed, Labels, CurrentIsLast, ClosedRound, Gathering, Judging, InSeats
  <2>5. OpenRound'
    BY <2>1, <2>3 DEF DebateInv, OpenRound, Gathering, InSeats
  <2> QED BY <2>4, <2>5 DEF DebateInv
<1> QED BY <1>1, <1>2

\* A step of the engine, or of an adapter that returns any answer at all: what a
\* journal replays costs nothing, so it need not be one of Responses.
Moves ==
  \/ Engine \/ Tick \/ Finished \/ AdapterRaises
  \/ \E response \in ResponseType : AdapterReturns(response)

LEMMA NextMoves == [Next]_vars => [Moves]_vars
BY PositionConstants DEF Next, Moves, Adapter

LEMMA MovesInv == DebateInv /\ [Moves]_vars => DebateInv'
<1> SUFFICES ASSUME DebateInv, [Moves]_vars PROVE DebateInv'
  OBVIOUS
<1>1. CASE CheckBefore
  <2>1. CASE expired
    BY <1>1, <2>1, EndKeepsInv DEF CheckBefore, Abort, Finish, Goto
  <2>2. CASE ~expired
    BY <1>1, <2>2
       DEF CheckBefore, Goto, DebateInv, Typed, Labels, CurrentIsLast, OpenRound, ClosedRound,
           Gathering, Judging, InSeats
  <2> QED BY <2>1, <2>2
<1>2. CASE TakeLateAnswer
  BY <1>2, EndKeepsInv DEF TakeLateAnswer, Abort, Finish, Goto
<1>3. CASE TakeAnswer
  <2>1. CASE Acceptable(Len(results) + 1, raw)
    BY <1>3, <2>1, AcceptKeepsInv DEF TakeAnswer, Goto
  <2>2. CASE ~Acceptable(Len(results) + 1, raw)
    BY <1>3, <2>2, EndKeepsInv DEF TakeAnswer, Raise, Goto
  <2> QED BY <2>1, <2>2
<1>4. CASE CheckAfter
  BY <1>4, CheckAfterKeepsInv
<1>5. CASE CloseRound
  BY <1>5, CloseKeepsInv
<1>6. CASE JudgeRound
  BY <1>6, JudgeKeepsInv
<1>7. CASE NextRound
  BY <1>7, HeadKeepsInv
<1>8. CASE Agree \/ Disagree
  BY <1>8, EndKeepsInv DEF Agree, Disagree, Abort, Finish, Goto
<1>9. CASE AdapterRaises
  BY <1>9, EndKeepsInv DEF AdapterRaises, Raise, Goto, debate
<1>10. ASSUME NEW response \in ResponseType, AdapterReturns(response)
       PROVE  DebateInv'
  BY <1>10
     DEF AdapterReturns, Goto, debate, DebateInv, Typed, Labels, CurrentIsLast, OpenRound,
         ClosedRound, Gathering, Judging, InSeats
<1>11. CASE Tick \/ UNCHANGED vars
  BY <1>11
     DEF Tick, vars, debate, DebateInv, Typed, CurrentIsLast, OpenRound, ClosedRound, InSeats
<1> QED BY <1>1, <1>2, <1>3, <1>4, <1>5, <1>6, <1>7, <1>8, <1>9, <1>10, <1>11
        DEF Moves, Engine, Finished

LEMMA NextInv == DebateInv /\ [Next]_vars => DebateInv'
BY MovesInv, NextMoves

-----------------------------------------------------------------------------
(* Late answers.                                                           *)

\* After a late answer the engine is about to read the clock, or has aborted.
LateInv ==
  /\ late = 0 \/ late = 1
  /\ late = 1 => /\ expired
                 /\ pc = "returned" \/ (pc = "done" /\ result.status = "aborted")

LEMMA LateInvStep == LateInv /\ [Next]_vars => LateInv'
<1> SUFFICES ASSUME LateInv, [Next]_vars PROVE LateInv'
  OBVIOUS
<1>1. CASE TakeLateAnswer
  BY <1>1 DEF TakeLateAnswer, Abort, Finish, Goto, LateInv, history
<1>2. CASE TakeAnswer \/ CheckBefore \/ CheckAfter \/ CloseRound \/ JudgeRound \/ NextRound
           \/ Agree \/ Disagree
  BY <1>2
     DEF TakeAnswer, CheckBefore, CheckAfter, CloseRound, JudgeRound, NextRound, Agree,
         Disagree, LateInv, history
<1>3. CASE Adapter
  BY <1>3 DEF Adapter, AdapterReturns, AdapterRaises, Goto, LateInv
<1>4. CASE Tick \/ Finished \/ UNCHANGED vars
  BY <1>4 DEF Tick, Finished, vars, history, LateInv
<1> QED BY <1>1, <1>2, <1>3, <1>4 DEF Next, Engine

\* At most one answer of a debate is late, and a debate with a late answer ends as
\* aborted.
THEOREM LateAnswersAbort == Spec => []LateAnswersEndIt
<1>1. Init => LateInv
  BY DEF Init, LateInv
<1>2. LateInv => LateAnswersEndIt
  BY DEF LateInv, LateAnswersEndIt
<1> QED BY <1>1, <1>2, LateInvStep, PTL DEF Spec

-----------------------------------------------------------------------------
(* Tokens: what the engine reports of them, and how far they exceed a       *)
(* budget.                                                                  *)

\* The variables that DebateInv does not need have their types.
Sized ==
  /\ expired \in BOOLEAN
  /\ spent \in Nat /\ billed \in Nat /\ calls \in Nat /\ late \in Nat
  /\ result.status \in {"pending", "unanimous", "no_consensus", "aborted",
                        "adapter_error", "protocol_error"}

\* The tokens of the open round that are not in spent yet.
Unbooked == TokensOf(results) + (IF pc = "returned" THEN raw.tokens ELSE 0)

\* What was billed is what was spent and what is not booked yet.
TokenInv ==
  /\ pc # "done" => billed = spent + Unbooked
  /\ pc = "done" => TokensCountedOnce

AccountInv == DebateInv /\ Sized /\ TokenInv

LEMMA ResponseTokens == \A response \in ResponseType : response.tokens \in Nat
BY DEF ResponseType

LEMMA ResultsTokens ==
  ASSUME DebateInv
  PROVE  TokensOf(results) \in Nat
BY PositionsArePriced, TokensOfType DEF DebateInv, Typed

LEMMA InitAccount == Init => AccountInv
<1> SUFFICES ASSUME Init PROVE AccountInv
  OBVIOUS
<1>1. DebateInv
  BY InitInv
<1>2. Sized
  BY DEF Init, Sized, Pending
<1>3. TokenInv
  BY TokensOfNone DEF Init, TokenInv, Unbooked
<1> QED
  BY <1>1, <1>2, <1>3 DEF AccountInv

\* An end of the debate that books what was not booked counts every call once.
LEMMA BookedEnd ==
  ASSUME AccountInv, pc # "done", NEW status \in {"unanimous", "no_consensus", "aborted"},
         NEW decision, NEW dissent, NEW majority, NEW ended,
         spent' = spent + Unbooked, billed' = billed,
         Finish(status, decision, dissent, majority, ended)
  PROVE  TokenInv'
<1>1. /\ result' = [status |-> status, decision |-> decision, dissent |-> dissent,
                    majority |-> majority, completed |-> ended, tokens |-> spent']
      /\ pc' = "done"
  BY DEF Finish, Goto
<1>2. result'.tokens = spent'
  BY <1>1
<1>3. billed = spent + Unbooked
  BY DEF AccountInv, TokenInv
<1>4. result'.tokens = billed'
  BY <1>2, <1>3
<1> QED
  BY <1>1, <1>4 DEF TokenInv, TokensCountedOnce

LEMMA BookedAbort ==
  ASSUME AccountInv, pc # "done", NEW openTokens, openTokens = Unbooked, NEW ended,
         Abort(openTokens, ended), billed' = billed
  PROVE  TokenInv'
<1>1. Finish("aborted", NoStance, current, NoStance, ended) /\ spent' = spent + Unbooked
  BY DEF Abort
<1> QED
  BY <1>1, BookedEnd

\* An error reports no tokens.
LEMMA RaisedEnd ==
  ASSUME NEW error \in {"adapter_error", "protocol_error"}, Raise(error)
  PROVE  TokenInv'
BY DEF Raise, Goto, TokenInv, TokensCountedOnce, Returned

\* Where no call has just returned, the open round's positions are what is not
\* booked; where a round is judged, nothing is.
LEMMA UnbookedIs ==
  ASSUME DebateInv, pc # "done"
  PROVE  /\ pc # "returned" => Unbooked = TokensOf(results)
         /\ pc = "returned" => Unbooked = TokensOf(results) + raw.tokens
         /\ pc \in Judging => Unbooked = 0
         /\ Unbooked \in Nat
<1>1. TokensOf(results) \in Nat
  BY ResultsTokens
<1>2. pc = "returned" => raw.tokens \in Nat
  BY ResponseTokens DEF DebateInv, Typed
<1>3. pc \in Judging => TokensOf(results) = 0
  BY TokensOfNone DEF DebateInv, ClosedRound
<1> QED
  BY <1>1, <1>2, <1>3 DEF Unbooked, Judging

LEMMA AccountStep == AccountInv /\ [Moves]_vars => TokenInv'
<1> SUFFICES ASSUME AccountInv, [Moves]_vars PROVE TokenInv'
  OBVIOUS
<1>1. /\ DebateInv /\ TokensOf(results) \in Nat
      /\ spent \in Nat /\ billed \in Nat /\ TokenInv
  BY ResultsTokens DEF AccountInv, Sized
<1>2. CASE CheckBefore
  <2>1. pc = "before" /\ billed' = billed /\ results' = results
    BY <1>2 DEF CheckBefore, history
  <2>2. CASE expired
    <3>1. Abort(TokensOf(results), RoundsBefore)
      BY <1>2, <2>2 DEF CheckBefore
    <3> QED
      BY <1>1, <2>1, <3>1, UnbookedIs, BookedAbort
  <2>3. CASE ~expired
    <3>1. pc' = "call" /\ spent' = spent
      BY <1>2, <2>3 DEF CheckBefore, Goto
    <3> QED
      BY <1>1, <2>1, <3>1 DEF TokenInv, Unbooked
  <2> QED
    BY <2>2, <2>3
<1>3. CASE TakeLateAnswer
  <2>1. pc = "returned" /\ billed' = billed /\ Abort(TokensOf(results) + raw.tokens, RoundsBefore)
    BY <1>3 DEF TakeLateAnswer, history
  <2> QED
    BY <1>1, <2>1, UnbookedIs, BookedAbort
<1>4. CASE TakeAnswer
  <2>1. CASE Acceptable(Len(results) + 1, raw)
    <3> DEFINE agent == Len(results) + 1
               new == Position(agent, raw)
    <3>1. /\ pc = "returned" /\ pc' = "accepted" /\ results' = Append(results, new)
          /\ spent' = spent /\ billed' = billed
      BY <1>4, <2>1 DEF TakeAnswer, Goto, history
    <3>2. agent \in 1..AgentsCount /\ raw \in ResponseType /\ results \in Seq(Positional)
      BY <1>1, <3>1, CountsAreNaturals DEF DebateInv, Typed, OpenRound, Gathering
    <3>3. new \in Positional /\ new.tokens = raw.tokens
      BY <3>2, PositionType DEF Position
    <3>4. TokensOf(results') = TokensOf(results) + raw.tokens
      <4> HIDE DEF new
      <4>1. TokensOf(results') = TokensOf(results) + new.tokens
        BY <3>1, <3>2, <3>3, PositionsArePriced, TokensOfAppend
      <4> QED
        BY <3>3, <4>1
    <3>5. raw.tokens \in Nat
      BY <3>2, ResponseTokens
    <3> QED
      BY <1>1, <3>1, <3>4, <3>5 DEF TokenInv, Unbooked
  <2>2. CASE ~Acceptable(Len(results) + 1, raw)
    BY <1>4, <2>2, RaisedEnd DEF TakeAnswer
  <2> QED
    BY <2>1, <2>2
<1>5. CASE CheckAfter
  <2>1. pc = "accepted" /\ billed' = billed /\ results' = results
    BY <1>5 DEF CheckAfter, history
  <2>2. CASE expired
    <3>1. Abort(TokensOf(results), RoundsBefore)
      BY <1>5, <2>2 DEF CheckAfter
    <3> QED
      BY <1>1, <2>1, <3>1, UnbookedIs, BookedAbort
  <2>3. CASE ~expired
    <3>1. pc' \in {"close", "before"} /\ spent' = spent
      BY <1>5, <2>3 DEF CheckAfter, Goto
    <3> QED
      BY <1>1, <2>1, <3>1 DEF TokenInv, Unbooked
  <2> QED
    BY <2>2, <2>3
<1>6. CASE CloseRound
  <2>1. /\ pc = "close" /\ pc' = "judge" /\ results' = <<>> /\ billed' = billed
        /\ spent' = spent + TokensOf(results)
    BY <1>6 DEF CloseRound, Goto, history
  <2> QED
    BY <1>1, <2>1, TokensOfNone DEF TokenInv, Unbooked
<1>7. CASE JudgeRound
  <2>1. pc = "judge" /\ billed' = billed /\ results' = results
    BY <1>7 DEF JudgeRound, history
  <2>2. CASE OverBudget
    <3>1. Abort(0, round)
      BY <1>7, <2>2 DEF JudgeRound
    <3> QED
      BY <1>1, <2>1, <3>1, UnbookedIs, BookedAbort DEF Judging
  <2>3. CASE ~OverBudget
    <3>1. pc' \in {"agree", "head", "finish"} /\ spent' = spent
      BY <1>7, <2>3 DEF JudgeRound, Goto
    <3> QED
      BY <1>1, <2>1, <3>1 DEF TokenInv, Unbooked
  <2> QED
    BY <2>2, <2>3
<1>8. CASE NextRound
  <2>1. pc = "head" /\ billed' = billed /\ results' = results
    BY <1>8 DEF NextRound, history
  <2>2. CASE expired
    <3>1. Abort(0, round)
      BY <1>8, <2>2 DEF NextRound
    <3> QED
      BY <1>1, <2>1, <3>1, UnbookedIs, BookedAbort DEF Judging
  <2>3. CASE ~expired
    <3>1. pc' = "before" /\ spent' = spent
      BY <1>8, <2>3 DEF NextRound, Goto
    <3> QED
      BY <1>1, <2>1, <3>1 DEF TokenInv, Unbooked
  <2> QED
    BY <2>2, <2>3
<1>9. CASE Agree \/ Disagree
  <2>1. pc \in Judging /\ pc # "done" /\ billed' = billed
    BY <1>9 DEF Agree, Disagree, Judging, history
  <2>2. Unbooked = 0 /\ spent + 0 = spent
    BY <1>1, <2>1, UnbookedIs
  <2>3. CASE expired
    <3>1. Abort(0, round)
      BY <1>9, <2>3 DEF Agree, Disagree
    <3> QED
      BY <1>1, <2>1, <2>2, <3>1, BookedAbort
  <2>4. CASE ~expired
    <3>1. spent' = spent + Unbooked
      BY <1>9, <2>2, <2>4 DEF Agree, Disagree
    <3>2. CASE Agree
      <4>1. Finish("unanimous", current[1].stance, <<>>, NoStance, round)
        BY <2>4, <3>2 DEF Agree
      <4> QED
        BY <2>1, <3>1, <4>1, BookedEnd
    <3>3. CASE Disagree
      <4>1. Finish("no_consensus", NoStance, current, MajorityStance(current), round)
        BY <2>4, <3>3 DEF Disagree
      <4> QED
        BY <2>1, <3>1, <4>1, BookedEnd
    <3> QED
      BY <1>9, <3>2, <3>3
  <2> QED
    BY <2>3, <2>4
<1>10. CASE AdapterRaises
  BY <1>10, RaisedEnd DEF AdapterRaises
<1>11. ASSUME NEW response \in ResponseType, AdapterReturns(response)
       PROVE  TokenInv'
  <2>1. /\ pc = "call" /\ pc' = "returned" /\ raw' = response
        /\ billed' = billed + response.tokens /\ spent' = spent /\ results' = results
    BY <1>11 DEF AdapterReturns, Goto, debate
  <2>2. response.tokens \in Nat
    BY ResponseTokens
  <2> QED
    BY <1>1, <2>1, <2>2 DEF TokenInv, Unbooked
<1>12. CASE Tick \/ UNCHANGED vars
  BY <1>1, <1>12
     DEF Tick, vars, debate, history, TokenInv, Unbooked, TokensCountedOnce, Returned
<1> QED
  BY <1>2, <1>3, <1>4, <1>5, <1>6, <1>7, <1>8, <1>9, <1>10, <1>11, <1>12
     DEF Moves, Engine, Finished

LEMMA SizedStep == AccountInv /\ [Moves]_vars => Sized'
<1> SUFFICES ASSUME AccountInv, [Moves]_vars PROVE Sized'
  OBVIOUS
<1>1. /\ DebateInv /\ TokensOf(results) \in Nat /\ Sized
  BY ResultsTokens DEF AccountInv
<1>2. CASE CheckBefore \/ CheckAfter \/ CloseRound \/ JudgeRound \/ NextRound \/ Agree \/ Disagree
  BY <1>1, <1>2
     DEF CheckBefore, CheckAfter, CloseRound, JudgeRound, NextRound, Agree, Disagree,
         Abort, Finish, Sized, history
<1>3. CASE TakeLateAnswer
  <2>1. raw.tokens \in Nat
    BY <1>1, <1>3, ResponseTokens DEF TakeLateAnswer, DebateInv, Typed
  <2> QED
    BY <1>1, <1>3, <2>1 DEF TakeLateAnswer, Abort, Finish, Sized, history
<1>4. CASE TakeAnswer
  BY <1>1, <1>4 DEF TakeAnswer, Raise, Sized, history
<1>5. CASE AdapterRaises
  BY <1>1, <1>5 DEF AdapterRaises, Raise, Sized, debate
<1>6. ASSUME NEW response \in ResponseType, AdapterReturns(response)
      PROVE  Sized'
  BY <1>1, <1>6, ResponseTokens DEF AdapterReturns, Sized, debate
<1>7. CASE Tick \/ UNCHANGED vars
  BY <1>1, <1>7 DEF Tick, vars, debate, history, Sized
<1> QED
  BY <1>2, <1>3, <1>4, <1>5, <1>6, <1>7 DEF Moves, Engine, Finished

LEMMA MovesAccount == AccountInv /\ [Moves]_vars => AccountInv'
BY MovesInv, AccountStep, SizedStep DEF AccountInv

LEMMA NextAccount == AccountInv /\ [Next]_vars => AccountInv'
BY MovesAccount, NextMoves

\* Here the adapter returns one of Responses.
Asked == raw \in Responses \cup {NoAnswer}

LEMMA NextAsked == Asked /\ [Next]_vars => Asked'
<1> SUFFICES ASSUME Asked, [Next]_vars PROVE Asked'
  OBVIOUS
<1>1. CASE Engine \/ AdapterRaises \/ Tick \/ Finished \/ UNCHANGED vars
  BY <1>1
     DEF Engine, CheckBefore, TakeLateAnswer, TakeAnswer, CheckAfter, CloseRound, JudgeRound,
         NextRound, Agree, Disagree, AdapterRaises, Tick, Finished, vars, Asked
<1>2. ASSUME NEW response \in Responses, AdapterReturns(response) PROVE Asked'
  BY <1>2 DEF AdapterReturns, Asked
<1> QED
  BY <1>1, <1>2 DEF Next, Adapter

\* Every variable of the engine keeps its type.
THEOREM TypeCorrect == Spec => []TypeOK
<1>1. AccountInv /\ Asked => TypeOK
  BY DEF AccountInv, DebateInv, Typed, Sized, Asked, TypeOK
<1>2. Init => Asked
  BY DEF Init, Asked
<1> QED
  BY <1>1, <1>2, InitAccount, NextAccount, NextAsked, PTL DEF Spec

\* Whatever way decide returns, its tokens are those of every completed call,
\* counted once.
THEOREM EveryCallIsCountedOnce == Spec => []TokensCountedOnce
<1>1. AccountInv => TokensCountedOnce
  BY DEF AccountInv, TokenInv, DebateInv, Typed, TokensCountedOnce, Returned, Pending
<1> QED
  BY <1>1, InitAccount, NextAccount, PTL DEF Spec

\* The answers of the open round, the one that has just come in included.
Answered == Len(results) + (IF pc = "returned" THEN 1 ELSE 0)

\* Some answer costs the most: where the budget is given and answers have no
\* bound, nothing bounds what one round costs.
SomeAnswerIsCostliest == \E r \in Responses : \A q \in Responses : q.tokens <= r.tokens

Costliest == Max({r.tokens : r \in Responses})

\* A round is opened within the budget only, and costs at most one costliest answer
\* for each agent.
BudgetInv ==
  /\ pc \notin {"judge", "done"} => spent <= BudgetTokens
  /\ pc # "done" => Unbooked <= Answered * Costliest
  /\ billed <= BudgetTokens + AgentsCount * Costliest

LEMMA CostliestBounds ==
  ASSUME SomeAnswerIsCostliest
  PROVE  Costliest \in Nat /\ \A response \in Responses : response.tokens <= Costliest
<1> DEFINE costs == {r.tokens : r \in Responses}
<1>1. costs \subseteq Nat
  BY PositionConstants, ResponseTokens
<1>2. \E x \in costs : \A y \in costs : x >= y
  <2>1. PICK r \in Responses : \A q \in Responses : q.tokens <= r.tokens
    BY DEF SomeAnswerIsCostliest
  <2> QED
    BY <2>1, PositionConstants, ResponseTokens
<1>3. Max(costs) \in costs /\ \A y \in costs : Max(costs) >= y
  <2> HIDE DEF costs
  <2> QED
    BY <1>2 DEF Max
<1> QED
  BY <1>1, <1>3 DEF Costliest

\* One more answer is at most one more costliest answer.
LEMMA OneMoreAnswer ==
  ASSUME NEW m \in Nat, NEW n \in Nat, NEW cost \in Nat, NEW sum \in Nat,
         cost <= m, sum <= n * m
  PROVE  sum + cost <= (n + 1) * m
<1>1. (n + 1) * m = n * m + m /\ n * m \in Nat
  OBVIOUS
<1> QED
  BY <1>1

LEMMA FewerAnswers ==
  ASSUME NEW m \in Nat, NEW n \in Nat, NEW k \in Nat, k <= n
  PROVE  k * m <= n * m
OBVIOUS

LEMMA BudgetIsNatural == BudgetTokens # NoBudget => BudgetTokens \in Nat
BY EngineConstants

LEMMA InitBudget ==
  ASSUME SomeAnswerIsCostliest, BudgetTokens # NoBudget
  PROVE  Init => BudgetInv
<1>1. Costliest \in Nat /\ AgentsCount \in Nat /\ BudgetTokens \in Nat
  BY CostliestBounds, CountsAreNaturals, BudgetIsNatural
<1>2. AgentsCount * Costliest \in Nat
  BY <1>1
<1>3. 0 * Costliest = 0
  BY <1>1
<1> QED
  BY <1>1, <1>2, <1>3, TokensOfNone DEF Init, BudgetInv, Unbooked, Answered

\* The bound holds wherever a round is open or has been judged.
LEMMA OpenBudget ==
  ASSUME SomeAnswerIsCostliest, BudgetTokens # NoBudget, DebateInv,
         NEW money \in Nat, NEW answers \in Nat, NEW cost \in Nat,
         money <= BudgetTokens, answers <= AgentsCount, cost <= answers * Costliest
  PROVE  money + cost <= BudgetTokens + AgentsCount * Costliest
<1>1. Costliest \in Nat /\ AgentsCount \in Nat /\ BudgetTokens \in Nat
  BY CostliestBounds, CountsAreNaturals, BudgetIsNatural
<1>2. answers * Costliest <= AgentsCount * Costliest
  BY <1>1, FewerAnswers
<1>3. answers * Costliest \in Nat /\ AgentsCount * Costliest \in Nat
  BY <1>1
<1> QED
  BY <1>1, <1>2, <1>3

LEMMA BudgetStep ==
  ASSUME SomeAnswerIsCostliest, BudgetTokens # NoBudget, AccountInv, BudgetInv, [Next]_vars
  PROVE  BudgetInv'
<1>1. /\ DebateInv /\ TokensOf(results) \in Nat /\ Len(results) \in Nat
      /\ spent \in Nat /\ billed \in Nat /\ BudgetTokens \in Nat
      /\ Costliest \in Nat /\ AgentsCount \in Nat
  BY ResultsTokens, CostliestBounds, CountsAreNaturals, BudgetIsNatural
     DEF AccountInv, Sized, DebateInv, Typed
<1> DEFINE limit == BudgetTokens + AgentsCount * Costliest
<1> HIDE DEF Costliest
\* Where the debate ends nothing more is billed.
<1>2. ASSUME pc' = "done", billed' = billed PROVE BudgetInv'
  BY <1>2 DEF BudgetInv
<1>3. ASSUME UNCHANGED <<results, spent, billed>>, pc # "returned", pc' # "returned",
             pc' \notin {"judge", "done"} => spent <= BudgetTokens, pc # "done"
      PROVE  BudgetInv'
  BY <1>3 DEF BudgetInv, Unbooked, Answered
<1>4. CASE CheckBefore \/ CheckAfter \/ NextRound
  <2>1. CASE expired
    BY <1>2, <1>4, <2>1 DEF CheckBefore, CheckAfter, NextRound, Abort, Finish, Goto, history
  <2>2. CASE ~expired
    BY <1>3, <1>4, <2>2 DEF CheckBefore, CheckAfter, NextRound, Goto, history, BudgetInv
  <2> QED
    BY <2>1, <2>2
<1>5. CASE TakeLateAnswer \/ Agree \/ Disagree
  BY <1>2, <1>5 DEF TakeLateAnswer, Agree, Disagree, Abort, Finish, Goto, history
<1>6. CASE AdapterRaises
  BY <1>2, <1>6 DEF AdapterRaises, Raise, Goto
<1>7. CASE TakeAnswer
  <2>1. CASE Acceptable(Len(results) + 1, raw)
    <3> DEFINE agent == Len(results) + 1
               new == Position(agent, raw)
    <3>1. /\ pc = "returned" /\ pc' = "accepted" /\ results' = Append(results, new)
          /\ spent' = spent /\ billed' = billed
      BY <1>7, <2>1 DEF TakeAnswer, Goto, history
    <3>2. agent \in 1..AgentsCount /\ raw \in ResponseType /\ results \in Seq(Positional)
      BY <1>1, <3>1, CountsAreNaturals DEF DebateInv, Typed, OpenRound, Gathering
    <3>3. new \in Positional /\ new.tokens = raw.tokens
      BY <3>2, PositionType DEF Position
    <3>4. TokensOf(results') = TokensOf(results) + raw.tokens /\ Len(results') = agent
      <4> HIDE DEF new
      <4>1. TokensOf(results') = TokensOf(results) + new.tokens
        BY <3>1, <3>2, <3>3, PositionsArePriced, TokensOfAppend
      <4> QED
        BY <3>1, <3>2, <3>3, <4>1, AppendProperties
    <3>5. raw.tokens \in Nat
      BY <3>2, ResponseTokens
    <3>6. Unbooked' = Unbooked /\ Answered' = Answered
      BY <1>1, <3>1, <3>4, <3>5 DEF Unbooked, Answered
    <3> QED
      BY <3>1, <3>6 DEF BudgetInv
  <2>2. CASE ~Acceptable(Len(results) + 1, raw)
    BY <1>2, <1>7, <2>2 DEF TakeAnswer, Raise, Goto, history
  <2> QED
    BY <2>1, <2>2
<1>8. CASE CloseRound
  <2>1. /\ pc = "close" /\ pc' = "judge" /\ results' = <<>> /\ billed' = billed
        /\ spent' = spent + TokensOf(results)
    BY <1>8 DEF CloseRound, Goto, history
  <2>2. Unbooked' = 0 /\ Answered' = 0 /\ 0 * Costliest = 0
    BY <1>1, <2>1, TokensOfNone DEF Unbooked, Answered
  <2> QED
    BY <2>1, <2>2 DEF BudgetInv
<1>9. CASE JudgeRound
  <2>1. CASE OverBudget
    BY <1>2, <1>9, <2>1 DEF JudgeRound, Abort, Finish, Goto, history
  <2>2. CASE ~OverBudget
    <3>1. spent <= BudgetTokens
      BY <1>1, <2>2 DEF OverBudget
    <3> QED
      BY <1>3, <1>9, <2>2, <3>1 DEF JudgeRound, Goto, history
  <2> QED
    BY <2>1, <2>2
<1>10. ASSUME NEW response \in Responses, AdapterReturns(response)
       PROVE  BudgetInv'
  <2>1. /\ pc = "call" /\ pc' = "returned" /\ raw' = response
        /\ billed' = billed + response.tokens /\ spent' = spent /\ results' = results
    BY <1>10 DEF AdapterReturns, Goto, debate
  <2>2. response.tokens \in Nat /\ response.tokens <= Costliest
    BY PositionConstants, ResponseTokens, CostliestBounds
  <2>3. /\ spent <= BudgetTokens /\ TokensOf(results) <= Len(results) * Costliest
        /\ billed = spent + TokensOf(results)
    BY <1>1, <2>1 DEF BudgetInv, Unbooked, Answered, AccountInv, TokenInv
  <2>4. Len(results) + 1 <= AgentsCount
    BY <1>1, <2>1 DEF DebateInv, OpenRound, Gathering
  <2>5. TokensOf(results) + response.tokens <= (Len(results) + 1) * Costliest
    BY <1>1, <2>2, <2>3, OneMoreAnswer
  <2>6. spent + (TokensOf(results) + response.tokens) <= limit
    <3>1. Len(results) + 1 \in Nat /\ TokensOf(results) + response.tokens \in Nat
      BY <1>1, <2>2
    <3> QED
      BY <1>1, <2>3, <2>4, <2>5, <3>1, OpenBudget
  <2>7. billed' = spent + (TokensOf(results) + response.tokens)
    BY <1>1, <2>1, <2>2, <2>3
  <2>8. Unbooked' = TokensOf(results) + response.tokens /\ Answered' = Len(results) + 1
    BY <2>1 DEF Unbooked, Answered
  <2>9. billed' <= limit
    BY <2>6, <2>7
  <2>10. Costliest' = Costliest /\ (AgentsCount * Costliest)' = AgentsCount * Costliest
    BY DEF Costliest
  <2> QED
    BY <2>1, <2>3, <2>5, <2>8, <2>9, <2>10 DEF BudgetInv
<1>11. CASE Tick \/ UNCHANGED vars
  BY <1>1, <1>11 DEF Tick, vars, debate, history, BudgetInv, Unbooked, Answered
<1> QED
  BY <1>4, <1>5, <1>6, <1>7, <1>8, <1>9, <1>10, <1>11
     DEF Next, Engine, Adapter, Finished

\* What a debate spends beyond its token budget is at most one round of calls.
THEOREM BudgetIsOvershotByOneRound ==
  SomeAnswerIsCostliest => (Spec => []BudgetOvershootsOneRound)
<1>1. CASE BudgetTokens = NoBudget
  <2>1. BudgetOvershootsOneRound
    BY <1>1 DEF BudgetOvershootsOneRound
  <2> QED
    BY <2>1, PTL
<1>2. CASE SomeAnswerIsCostliest /\ BudgetTokens # NoBudget
  <2>1. Init => AccountInv /\ BudgetInv
    BY <1>2, InitAccount, InitBudget
  <2>2. AccountInv /\ BudgetInv /\ [Next]_vars => (AccountInv /\ BudgetInv)'
    BY <1>2, NextAccount, BudgetStep
  <2>3. BudgetInv => BudgetOvershootsOneRound
    BY DEF BudgetInv, BudgetOvershootsOneRound, Costliest
  <2> QED
    BY <2>1, <2>2, <2>3, PTL DEF Spec
<1>3. CASE ~SomeAnswerIsCostliest
  BY <1>3
<1> QED
  BY <1>1, <1>2, <1>3

-----------------------------------------------------------------------------
(* The engine implements the honest debate.                                *)

\* A debate that has not ended has no outcome.
LEMMA OpenOutcome ==
  ASSUME DebateInv, pc # "done"
  PROVE  Outcome = Honest!Open
BY DEF DebateInv, Typed, Pending, Outcome, Returned, Honest!Open

\* What decide returns is the outcome without the tokens.
LEMMA FinishOutcome ==
  ASSUME NEW status \in {"unanimous", "no_consensus", "aborted"},
         NEW decision, NEW dissent, NEW majority, NEW completed,
         Finish(status, decision, dissent, majority, completed)
  PROVE  Outcome' = [status |-> status, decision |-> decision, dissent |-> dissent,
                     majority |-> majority, completed |-> completed]
<1>1. result' = [status |-> status, decision |-> decision, dissent |-> dissent,
                 majority |-> majority, completed |-> completed, tokens |-> spent']
  BY DEF Finish
<1>2. Returned'
  BY <1>1 DEF Returned
<1>3. Outcome' = [field \in DOMAIN result' \ {"tokens"} |-> result'[field]]
  BY <1>2 DEF Outcome
<1>4. DOMAIN result' \ {"tokens"} = {"status", "decision", "dissent", "majority", "completed"}
  BY <1>1
<1> QED BY <1>1, <1>3, <1>4

\* The honest debate sees the current positions as its last round.
LEMMA LastRoundIsCurrent ==
  ASSUME DebateInv
  PROVE  Honest!LastRound = current
BY DEF DebateInv, CurrentIsLast, Honest!LastRound, Honest!Last

LEMMA RoundsCompleted ==
  ASSUME DebateInv
  PROVE  /\ pc \in Gathering => RoundsBefore = Honest!Completed
         /\ pc \in Judging => round = Honest!Completed
<1>1. round \in Nat /\ transcript \in Seq(Seq(Positional))
  BY CountsAreNaturals DEF DebateInv, Typed
<1>2. transcript = <<>> <=> Len(transcript) = 0
  BY <1>1, EmptySeq, LenProperties
<1> QED BY <1>1, <1>2
        DEF DebateInv, OpenRound, ClosedRound, RoundsBefore, Honest!Completed

\* However an abort comes about, it reports the rounds that were closed.
LEMMA AbortIsHonest ==
  ASSUME DebateInv, pc # "done", NEW tokens, Abort(tokens, Honest!Completed),
         UNCHANGED transcript
  PROVE  Honest!Abort
<1>1. Outcome = Honest!Open
  BY OpenOutcome
<1>2. Outcome' = [status |-> "aborted", decision |-> NoStance, dissent |-> current,
                  majority |-> NoStance, completed |-> Honest!Completed]
  BY FinishOutcome DEF Abort
<1> QED BY <1>1, <1>2, LastRoundIsCurrent DEF Honest!Abort, Honest!Conclude

LEMMA RaiseIsHonest ==
  ASSUME DebateInv, pc # "done", Raise("adapter_error") \/ Raise("protocol_error"),
         UNCHANGED transcript
  PROVE  Honest!Fail
<1>1. Outcome = Honest!Open
  BY OpenOutcome
<1>2. Outcome' = [status |-> "failed", decision |-> NoStance, dissent |-> <<>>,
                  majority |-> NoStance, completed |-> 0]
  BY DEF Raise, Outcome, Returned
<1> QED BY <1>1, <1>2 DEF Honest!Fail, Honest!Open

\* Each agent has a position in the last closed round.
LEMMA SeatsOfCurrent ==
  ASSUME DebateInv, transcript # <<>>
  PROVE  /\ current = transcript[Len(transcript)] /\ current # <<>>
         /\ current \in Seq(Positional) /\ Len(current) = AgentsCount
         /\ DOMAIN current = 1..AgentsCount /\ 1 \in DOMAIN current
         /\ \A k \in DOMAIN current : current[k].agent = k /\ current[k].stance \in Stances
<1>1. /\ current = transcript[Len(transcript)] /\ current \in Seq(Positional)
      /\ Len(current) = AgentsCount /\ InSeats(current)
  BY DEF DebateInv, Typed, CurrentIsLast
<1>2. DOMAIN current = 1..AgentsCount
  BY <1>1, LenProperties
<1>3. 1 \in 1..AgentsCount /\ current # <<>>
  BY <1>1, CountsAreNaturals, EmptySeq
<1>4. ASSUME NEW k \in 1..AgentsCount PROVE current[k].stance \in Stances
  <2>1. current[k] \in Positional
    BY <1>1, ElementOfSeq
  <2> QED BY <2>1 DEF Positional
<1> QED BY <1>1, <1>2, <1>3, <1>4 DEF InSeats

\* Unanimity as the engine computes it is agreement.
LEMMA UnanimityIsAgreement ==
  ASSUME DebateInv
  PROVE  /\ Unanimous(current) => current[1].stance \in Honest!AgreedOn
         /\ ~Unanimous(current) => Honest!AgreedOn = {}
<1>1. CASE transcript = <<>>
  BY <1>1 DEF DebateInv, CurrentIsLast, Unanimous, Honest!AgreedOn
<1>2. CASE transcript # <<>>
  <2>1. /\ current = transcript[Len(transcript)] /\ current # <<>>
        /\ DOMAIN current = 1..AgentsCount /\ 1 \in DOMAIN current
        /\ \A k \in DOMAIN current : current[k].stance \in Stances
    BY <1>2, SeatsOfCurrent
  <2>2. Honest!AgreedOn =
          {stance \in Stances :
             /\ Norm[stance] # EmptyNorm
             /\ \A k \in DOMAIN current : Norm[current[k].stance] = Norm[stance]
             /\ \E k \in DOMAIN current : current[k].stance = stance}
    BY <1>2, <2>1 DEF Honest!AgreedOn
  <2>3. ASSUME Unanimous(current) PROVE current[1].stance \in Honest!AgreedOn
    BY <2>1, <2>2, <2>3 DEF Unanimous, SameStance
  <2>4. ASSUME NEW stance \in Honest!AgreedOn PROVE Unanimous(current)
    <3>1. \A k \in DOMAIN current :
            Norm[current[k].stance] = Norm[stance] /\ Norm[stance] # EmptyNorm
      BY <2>2, <2>4
    <3> QED BY <2>1, <3>1 DEF Unanimous, SameStance
  <2> QED BY <2>3, <2>4
<1> QED BY <1>1, <1>2

LEMMA AgreeIsHonest ==
  ASSUME DebateInv, Agree
  PROVE  Honest!Agree \/ Honest!Abort
<1>1. pc = "agree" /\ UNCHANGED transcript /\ round = Honest!Completed
  BY RoundsCompleted DEF Agree, Judging
<1>2. CASE expired
  BY <1>1, <1>2, AbortIsHonest DEF Agree
<1>3. CASE ~expired
  <2>1. Outcome' = [status |-> "unanimous", decision |-> current[1].stance,
                    dissent |-> <<>>, majority |-> NoStance, completed |-> round]
    BY <1>3, FinishOutcome DEF Agree
  <2>2. Outcome = Honest!Open
    BY <1>1, OpenOutcome
  <2>3. current[1].stance \in Honest!AgreedOn
    BY <1>1, UnanimityIsAgreement DEF DebateInv, ClosedRound, Judging
  <2> QED BY <1>1, <2>1, <2>2, <2>3 DEF Honest!Agree, Honest!Conclude
<1> QED BY <1>2, <1>3

\* A nonempty set of at most eight agents has a first one.
LEMMA FirstAgent ==
  ASSUME NEW agents \in SUBSET (1..AgentsCount), agents # {}
  PROVE  \E k \in agents : \A j \in agents : k <= j
<1>1. agents \subseteq {1, 2, 3, 4, 5, 6, 7, 8}
  BY EngineConstants
<1>2. CASE 1 \in agents
  BY <1>1, <1>2
<1>3. CASE 1 \notin agents /\ 2 \in agents
  BY <1>1, <1>3
<1>4. CASE {1, 2} \cap agents = {} /\ 3 \in agents
  BY <1>1, <1>4
<1>5. CASE {1, 2, 3} \cap agents = {} /\ 4 \in agents
  BY <1>1, <1>5
<1>6. CASE {1, 2, 3, 4} \cap agents = {} /\ 5 \in agents
  BY <1>1, <1>6
<1>7. CASE {1, 2, 3, 4, 5} \cap agents = {} /\ 6 \in agents
  BY <1>1, <1>7
<1>8. CASE {1, 2, 3, 4, 5, 6} \cap agents = {} /\ 7 \in agents
  BY <1>1, <1>8
<1>9. CASE {1, 2, 3, 4, 5, 6, 7} \cap agents = {}
  <2>1. \A k \in agents : k = 8
    BY <1>1, <1>9
  <2>2. 8 \in agents
    BY <2>1, Zenon
  <2>3. \A j \in agents : 8 <= j
    BY <2>1
  <2> QED BY <2>2, <2>3
<1> QED BY <1>2, <1>3, <1>4, <1>5, <1>6, <1>7, <1>8, <1>9

\* The instance counts as this module does.
LEMMA SameCardinality == \A S : Cardinality(S) = Honest!Cardinality(S)
BY DEF Cardinality, Honest!Cardinality

\* The stance the engine reports as held by the majority is one.
LEMMA MajorityIsHonest ==
  ASSUME DebateInv, transcript # <<>>
  PROVE  MajorityStance(current) \in Honest!Majorities
<1> DEFINE ofMajority == {k \in DOMAIN current :
                            2 * Cardinality(Holders(current, k)) > Len(current)}
<1>1. DOMAIN current = 1..AgentsCount
  BY SeatsOfCurrent
<1>2. \A k \in DOMAIN current : k \in ofMajority <=> Honest!HasMajority(current[k].stance)
  <2> TAKE k \in DOMAIN current
  <2>1. Holders(current, k) =
          {j \in DOMAIN current : Norm[current[j].stance] = Norm[current[k].stance]}
    BY DEF Holders, SameStance
  <2>2. Honest!HasMajority(current[k].stance) <=>
          2 * Cardinality(Holders(current, k)) > Len(current)
    BY <2>1, LastRoundIsCurrent, SameCardinality DEF Honest!HasMajority
  <2> QED BY <2>2
<1>3. Honest!Majorities =
        IF \E k \in DOMAIN current : Honest!HasMajority(current[k].stance)
        THEN {stance \in {current[k].stance : k \in DOMAIN current} :
                Honest!HasMajority(stance)}
        ELSE {NoStance}
  <2>1. Honest!LastRound = current
    BY LastRoundIsCurrent
  <2>2. (\E stance \in {current[k].stance : k \in DOMAIN current} : Honest!HasMajority(stance))
          <=> \E k \in DOMAIN current : Honest!HasMajority(current[k].stance)
    OBVIOUS
  <2> QED BY <2>1, <2>2 DEF Honest!Majorities
<1>4. CASE ofMajority = {}
  <2>1. MajorityStance(current) = NoStance
    BY <1>4 DEF MajorityStance
  <2> QED BY <1>2, <1>3, <1>4, <2>1
<1>5. CASE ofMajority # {}
  <2> DEFINE first == CHOOSE k \in ofMajority : \A j \in ofMajority : k <= j
  <2>1. first \in ofMajority
    BY <1>1, <1>5, FirstAgent
  <2>2. MajorityStance(current) = current[first].stance
    BY <1>5 DEF MajorityStance
  <2>3. first \in DOMAIN current /\ Honest!HasMajority(current[first].stance)
    BY <1>2, <2>1
  <2> QED BY <1>3, <2>2, <2>3
<1> QED BY <1>4, <1>5

LEMMA DisagreeIsHonest ==
  ASSUME DebateInv, Disagree
  PROVE  Honest!Disagree \/ Honest!Abort
<1>1. pc = "finish" /\ UNCHANGED transcript /\ round = Honest!Completed
  BY RoundsCompleted DEF Disagree, Judging
<1>2. CASE expired
  BY <1>1, <1>2, AbortIsHonest DEF Disagree
<1>3. CASE ~expired
  <2>1. Outcome' = [status |-> "no_consensus", decision |-> NoStance, dissent |-> current,
                    majority |-> MajorityStance(current), completed |-> round]
    BY <1>3, FinishOutcome DEF Disagree
  <2>2. Outcome = Honest!Open
    BY <1>1, OpenOutcome
  <2>3. /\ Len(transcript) = MaxRounds + 1 /\ ~Unanimous(current)
        /\ transcript # <<>> /\ Honest!AgreedOn = {}
    <3>1. Len(transcript) = MaxRounds + 1 /\ ~Unanimous(current)
      BY <1>1 DEF DebateInv, ClosedRound, Judging
    <3>2. transcript # <<>>
      BY <3>1, CountsAreNaturals, EmptySeq
    <3> QED BY <3>1, <3>2, UnanimityIsAgreement
  <2>4. MajorityStance(current) \in Honest!Majorities
    BY <2>3, MajorityIsHonest
  <2> QED BY <1>1, <2>1, <2>2, <2>3, <2>4, LastRoundIsCurrent
          DEF Honest!Disagree, Honest!Conclude
<1> QED BY <1>2, <1>3

\* A round the engine closes is one the honest debate admits.
LEMMA CloseIsHonest ==
  ASSUME DebateInv, CloseRound
  PROVE  Honest!CloseRound
<1>1. /\ pc = "close" /\ results \in Seq(Positional) /\ Len(results) = AgentsCount
      /\ InSeats(results) /\ Len(transcript) = round /\ round \in 0..MaxRounds
      /\ transcript \in Seq(Seq(Positional))
  BY DEF CloseRound, DebateInv, Typed, OpenRound, Gathering
<1>2. transcript' = Append(transcript, results) /\ result' = result
  BY DEF CloseRound
<1>3. /\ Len(transcript') = Len(transcript) + 1 /\ Len(transcript) \in Nat
      /\ transcript'[Len(transcript')] = results /\ transcript' \in Seq(Seq(Positional))
      /\ \A k \in 1..Len(transcript) : transcript'[k] = transcript[k]
  BY <1>1, <1>2, AppendProperties, LenProperties
<1>4. SubSeq(transcript', 1, Len(transcript)) = transcript
  <2> DEFINE front == SubSeq(transcript', 1, Len(transcript))
  <2>1. \A k \in 1..Len(transcript) : transcript'[k] \in Seq(Positional)
    BY <1>1, <1>3, ElementOfSeq
  <2>2. /\ front \in Seq(Seq(Positional)) /\ Len(front) = Len(transcript)
        /\ \A k \in 1..Len(transcript) : front[k] = transcript'[k]
    BY <1>3, <2>1, SubSeqProperties
  <2> QED BY <1>1, <1>3, <2>2, SeqEqual
<1>5. Outcome = Honest!Open /\ UNCHANGED Outcome
  BY <1>1, <1>2, OpenOutcome DEF Outcome, Returned
<1>6. Honest!AgreedOn = {}
  BY <1>1, UnanimityIsAgreement DEF DebateInv, CurrentIsLast, Gathering, Honest!AgreedOn
<1>7. DOMAIN results = 1..AgentsCount /\ \A k \in 1..AgentsCount : results[k].agent = k
  BY <1>1, LenProperties DEF InSeats
<1>8. Honest!Admissible(results)
  <2>1. CASE transcript = <<>>
    BY <1>1, <1>7, <2>1, CountsAreNaturals DEF Honest!Admissible, Honest!AgentsOf
  <2>2. CASE transcript # <<>>
    <3>1. \A k \in 1..AgentsCount : ~SameStance(current[k], results[k]) => results[k].conceded
      BY <1>1, <1>7, <2>2 DEF DebateInv, OpenRound, Gathering
    <3>2. /\ current = transcript[Len(transcript)] /\ DOMAIN current = 1..AgentsCount
          /\ \A k \in 1..AgentsCount : current[k].agent = k
      BY <2>2, SeatsOfCurrent
    <3>3. \A j, k \in DOMAIN results : j < k => results[j].agent < results[k].agent
      BY <1>7
    <3>4. ASSUME NEW k \in DOMAIN results
          PROVE  \E j \in DOMAIN current :
                   /\ current[j].agent = results[k].agent
                   /\ ~Honest!SameStance(current[j], results[k]) => results[k].conceded
      <4>1. k \in DOMAIN current /\ current[k].agent = results[k].agent
        BY <1>7, <3>2
      <4>2. ~Honest!SameStance(current[k], results[k]) => results[k].conceded
        BY <1>7, <3>1 DEF SameStance, Honest!SameStance
      <4> QED BY <4>1, <4>2
    <3> QED BY <1>1, <2>2, <3>2, <3>3, <3>4, CountsAreNaturals DEF Honest!Admissible
  <2> QED BY <2>1, <2>2
<1>9. Len(transcript) <= MaxRounds
  BY <1>1, CountsAreNaturals
<1> QED BY <1>3, <1>4, <1>5, <1>6, <1>8, <1>9 DEF Honest!CloseRound

\* Every step of the engine is a step of the honest debate, or none.
LEMMA EngineIsHonest ==
  ASSUME DebateInv, Engine
  PROVE  Honest!Next \/ UNCHANGED <<transcript, Outcome>>
<1> USE DEF Honest!Next
<1>1. CASE CheckBefore
  <2>1. CASE expired
    BY <1>1, <2>1, AbortIsHonest, RoundsCompleted DEF CheckBefore, Gathering
  <2>2. CASE ~expired
    BY <1>1, <2>2 DEF CheckBefore, Outcome, Returned
  <2> QED BY <2>1, <2>2
<1>2. CASE TakeLateAnswer
  BY <1>2, AbortIsHonest, RoundsCompleted DEF TakeLateAnswer, Gathering
<1>3. CASE TakeAnswer
  <2>1. CASE Acceptable(Len(results) + 1, raw)
    BY <1>3, <2>1 DEF TakeAnswer, Outcome, Returned
  <2>2. CASE ~Acceptable(Len(results) + 1, raw)
    BY <1>3, <2>2, RaiseIsHonest DEF TakeAnswer
  <2> QED BY <2>1, <2>2
<1>4. CASE CheckAfter
  <2>1. CASE expired
    BY <1>4, <2>1, AbortIsHonest, RoundsCompleted DEF CheckAfter, Gathering
  <2>2. CASE ~expired
    BY <1>4, <2>2 DEF CheckAfter, Outcome, Returned
  <2> QED BY <2>1, <2>2
<1>5. CASE CloseRound
  BY <1>5, CloseIsHonest
<1>6. CASE JudgeRound
  <2>1. CASE OverBudget
    BY <1>6, <2>1, AbortIsHonest, RoundsCompleted DEF JudgeRound, Judging
  <2>2. CASE ~OverBudget
    BY <1>6, <2>2 DEF JudgeRound, Outcome, Returned
  <2> QED BY <2>1, <2>2
<1>7. CASE NextRound
  <2>1. CASE expired
    BY <1>7, <2>1, AbortIsHonest, RoundsCompleted DEF NextRound, Judging
  <2>2. CASE ~expired
    BY <1>7, <2>2 DEF NextRound, Outcome, Returned
  <2> QED BY <2>1, <2>2
<1>8. CASE Agree \/ Disagree
  BY <1>8, AgreeIsHonest, DisagreeIsHonest
<1> QED BY <1>1, <1>2, <1>3, <1>4, <1>5, <1>6, <1>7, <1>8 DEF Engine

\* The engine implements the honest debate: no agreement is fabricated, no stance
\* changes without a concession, and an abort reports the closed rounds.
THEOREM HonestDebateIsImplemented == Spec => ImplementsHonestDebate
<1>1. Init => Honest!Init
  BY DEF Init, Honest!Init, Honest!Open, Outcome, Returned, Pending
<1>2. DebateInv /\ [Next]_vars => [Honest!Next]_<<transcript, Outcome>>
  <2> SUFFICES ASSUME DebateInv, [Next]_vars
               PROVE  Honest!Next \/ UNCHANGED <<transcript, Outcome>>
    OBVIOUS
  <2>1. CASE Engine
    BY <2>1, EngineIsHonest
  <2>2. CASE AdapterRaises
    BY <2>2, RaiseIsHonest DEF AdapterRaises, debate, Honest!Next
  <2>3. ASSUME NEW response \in Responses, AdapterReturns(response)
        PROVE  UNCHANGED <<transcript, Outcome>>
    BY <2>3 DEF AdapterReturns, debate, Outcome, Returned
  <2>4. CASE Tick \/ UNCHANGED vars
    BY <2>4 DEF Tick, vars, debate, Outcome, Returned
  <2> QED BY <2>1, <2>2, <2>3, <2>4 DEF Next, Adapter, Finished
<1> QED BY <1>1, <1>2, InitInv, NextInv, PTL DEF Spec, ImplementsHonestDebate, Honest!HonestSpec
================================================================================
