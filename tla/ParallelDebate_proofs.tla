-------------------------- MODULE ParallelDebate_proofs ------------------------
(***************************************************************************)
(* Proofs about ParallelDebate, for any stances, answers, agents, rounds,  *)
(* workers, quorum and token budget: whatever hangs, fails or is late, the *)
(* engine implements the honest debate with a quorum, and an abort counts  *)
(* the calls that had completed when the late answer was seen.             *)
(***************************************************************************)
EXTENDS ParallelDebate, Debate_proofs

-----------------------------------------------------------------------------
(* The tokens of the closed rounds.                                        *)

\* How the tokens of one more round are added.
RoundStep == [x \in Nat \X Seq(Positional) |-> x[1] + TokensOf(x[2])]

LEMMA RoundStepType ==
  /\ RoundStep \in [Nat \X Seq(Positional) -> Nat]
  /\ \A sum \in Nat, positions \in Seq(Positional) :
       RoundStep[<<sum, positions>>] = sum + TokensOf(positions)
BY PositionsArePriced, TokensOfType DEF RoundStep

LEMMA RoundsFold ==
  ASSUME NEW t \in Seq(Seq(Positional))
  PROVE  \E f : Folds(f, Nat, RoundStep, 0, t) /\ TokensOfRounds(t) = f[1..Len(t)]
<1> DEFINE Y == Seq(Positional)
           step == RoundStep
           it == CHOOSE f : f = [S \in SUBSET (DOMAIN t) |->
                     IF S = {} THEN 0 ELSE f[S \ {Max(S)}] + TokensOf(t[Max(S)])]
<1>1. TokensOfRounds(t) = it[DOMAIN t]
  BY DEF TokensOfRounds, FoldLeft, MapThenFoldSet
<1>2. /\ step \in [Nat \X Y -> Nat] /\ 0 \in Nat /\ t \in Seq(Y)
      /\ \A sum \in Nat, positions \in Y : step[<<sum, positions>>] = sum + TokensOf(positions)
  BY RoundStepType
<1>3. it = [S \in SUBSET (DOMAIN t) |->
             IF S = {} THEN 0 ELSE it[S \ {Max(S)}] + TokensOf(t[Max(S)])]
  <2>1. PICK g : Folds(g, Nat, step, 0, t)
    <3> HIDE DEF it, step, Y
    <3> QED
      BY <1>2, FoldExists
  <2>2. g = [S \in SUBSET (DOMAIN t) |->
               IF S = {} THEN 0 ELSE g[S \ {Max(S)}] + TokensOf(t[Max(S)])]
    <3> HIDE DEF it, step, Y
    <3>1. /\ g = [S \in SUBSET (DOMAIN t) |-> g[S]]
          /\ g[{}] = 0
          /\ \A S \in SUBSET (DOMAIN t) : S # {} =>
               /\ g[S \ {Max(S)}] \in Nat /\ t[Max(S)] \in Y
               /\ g[S] = step[<<g[S \ {Max(S)}], t[Max(S)]>>]
      <4>1. MadeOf(g, Nat, Y, step, 0, t)
        BY <1>2, <2>1, FoldSteps
      <4> QED
        BY <4>1 DEF MadeOf
    <3>2. ASSUME NEW S \in SUBSET (DOMAIN t), S # {}
          PROVE  g[S] = g[S \ {Max(S)}] + TokensOf(t[Max(S)])
      BY <1>2, <3>1, <3>2
    <3> QED
      BY <3>1, <3>2
  <2> QED
    BY <2>2, Zenon
<1> HIDE DEF it, step, Y
<1>4. it = [S \in SUBSET (DOMAIN t) |-> it[S]] /\ it[{}] = 0
  BY <1>3
<1>5. ASSUME NEW S \in SUBSET (DOMAIN t), S # {}, it[S \ {Max(S)}] \in Nat, t[Max(S)] \in Y
      PROVE  it[S] = step[<<it[S \ {Max(S)}], t[Max(S)]>>]
  <2>1. it[S] = it[S \ {Max(S)}] + TokensOf(t[Max(S)])
    BY <1>3, <1>5
  <2> QED
    BY <1>2, <1>5, <2>1
<1>6. Folds(it, Nat, step, 0, t)
  BY <1>2, <1>4, <1>5, FoldFromSteps
<1>7. DOMAIN t = 1..Len(t)
  OBVIOUS
<1> QED
  BY <1>1, <1>6, <1>7 DEF step

LEMMA NoRoundIsFree == TokensOfRounds(<<>>) = 0
<1>1. PICK f : Folds(f, Nat, RoundStep, 0, <<>>) /\ TokensOfRounds(<<>>) = f[1..Len(<<>>)]
  <2>1. <<>> \in Seq(Seq(Positional))
    OBVIOUS
  <2> QED
    BY <2>1, RoundsFold
<1>2. 1..Len(<<>>) = {}
  OBVIOUS
<1> QED
  BY <1>1, <1>2 DEF Folds, FoldsUpto

LEMMA TokensOfRoundsType ==
  ASSUME NEW t \in Seq(Seq(Positional))
  PROVE  TokensOfRounds(t) \in Nat
<1>1. PICK f : Folds(f, Nat, RoundStep, 0, t) /\ TokensOfRounds(t) = f[1..Len(t)]
  BY RoundsFold
<1>2. 1..Len(t) \in SUBSET (1..Len(t))
  OBVIOUS
<1> QED
  BY <1>1, <1>2 DEF Folds, FoldsUpto

LEMMA OneMoreRound ==
  ASSUME NEW t \in Seq(Seq(Positional)), NEW positions \in Seq(Positional)
  PROVE  TokensOfRounds(Append(t, positions)) = TokensOfRounds(t) + TokensOf(positions)
<1> DEFINE Y == Seq(Positional)
           step == RoundStep
           u == Append(t, positions)
<1>1. step \in [Nat \X Y -> Nat] /\ 0 \in Nat /\ t \in Seq(Y) /\ u \in Seq(Y)
  <2>1. u \in Seq(Y)
    OBVIOUS
  <2> HIDE DEF u
  <2> QED
    BY <2>1, RoundStepType
<1>2. \A sum \in Nat : step[<<sum, positions>>] = sum + TokensOf(positions)
  BY RoundStepType
<1>3. PICK f : Folds(f, Nat, step, 0, t) /\ TokensOfRounds(t) = f[1..Len(t)]
  BY RoundsFold
<1>4. PICK g : Folds(g, Nat, step, 0, u) /\ TokensOfRounds(u) = g[1..Len(u)]
  <2> HIDE DEF u
  <2> QED
    BY <1>1, RoundsFold
<1>5. TokensOfRounds(t) \in Nat
  BY TokensOfRoundsType
<1>6. u[Len(u)] = positions /\ OneMore(t, u)
  BY DEF OneMore
<1>7. OneStep(f, g, step, t, u)
  <2> HIDE DEF step, u, Y
  <2> QED
    BY <1>1, <1>3, <1>4, <1>6, FoldOfAppend
<1>8. TokensOfRounds(u) = step[<<TokensOfRounds(t), positions>>]
  BY <1>3, <1>4, <1>6, <1>7 DEF OneStep
<1> HIDE DEF step
<1> QED
  BY <1>2, <1>5, <1>8

-----------------------------------------------------------------------------
(* The positions a round has gathered, in the order of its tasks.          *)

InOrderOf(found) ==
  FoldLeft(LAMBDA kept, p : IF p # Missing THEN Append(kept, p) ELSE kept, <<>>, found)

MaybePositions == Positional \cup {Missing}

KeepStep ==
  [x \in Seq(Positional) \X MaybePositions |->
     IF x[2] # Missing THEN Append(x[1], x[2]) ELSE x[1]]

LEMMA MissingIsNoPosition == Missing \notin Positional
BY DEF Missing, Positional

LEMMA KeepStepType ==
  /\ KeepStep \in [Seq(Positional) \X MaybePositions -> Seq(Positional)]
  /\ \A kept \in Seq(Positional), p \in MaybePositions :
       KeepStep[<<kept, p>>] = IF p # Missing THEN Append(kept, p) ELSE kept
<1>1. ASSUME NEW kept \in Seq(Positional), NEW p \in MaybePositions
      PROVE  (IF p # Missing THEN Append(kept, p) ELSE kept) \in Seq(Positional)
  BY DEF MaybePositions
<1> QED
  BY <1>1 DEF KeepStep

LEMMA InOrderFold ==
  ASSUME NEW t \in Seq(MaybePositions)
  PROVE  \E f : /\ Folds(f, Seq(Positional), KeepStep, <<>>, t)
               /\ InOrderOf(t) = f[1..Len(t)]
<1> DEFINE X == Seq(Positional)
           Y == MaybePositions
           step == KeepStep
           it == CHOOSE f : f = [S \in SUBSET (DOMAIN t) |->
                     IF S = {} THEN <<>>
                     ELSE IF t[Max(S)] # Missing
                          THEN Append(f[S \ {Max(S)}], t[Max(S)]) ELSE f[S \ {Max(S)}]]
<1>1. InOrderOf(t) = it[DOMAIN t]
  BY DEF InOrderOf, FoldLeft, MapThenFoldSet
<1>2. /\ step \in [X \X Y -> X] /\ <<>> \in X /\ t \in Seq(Y)
      /\ \A kept \in X, p \in Y :
           step[<<kept, p>>] = IF p # Missing THEN Append(kept, p) ELSE kept
  BY KeepStepType
<1>3. it = [S \in SUBSET (DOMAIN t) |->
             IF S = {} THEN <<>>
             ELSE IF t[Max(S)] # Missing
                  THEN Append(it[S \ {Max(S)}], t[Max(S)]) ELSE it[S \ {Max(S)}]]
  <2>1. PICK g : Folds(g, X, step, <<>>, t)
    <3> HIDE DEF it, X, Y, step
    <3> QED
      BY <1>2, FoldExists
  <2>2. g = [S \in SUBSET (DOMAIN t) |->
               IF S = {} THEN <<>>
               ELSE IF t[Max(S)] # Missing
                    THEN Append(g[S \ {Max(S)}], t[Max(S)]) ELSE g[S \ {Max(S)}]]
    <3> HIDE DEF it, X, Y, step
    <3>1. /\ g = [S \in SUBSET (DOMAIN t) |-> g[S]]
          /\ g[{}] = <<>>
          /\ \A S \in SUBSET (DOMAIN t) : S # {} =>
               /\ g[S \ {Max(S)}] \in X /\ t[Max(S)] \in Y
               /\ g[S] = step[<<g[S \ {Max(S)}], t[Max(S)]>>]
      <4>1. MadeOf(g, X, Y, step, <<>>, t)
        BY <1>2, <2>1, FoldSteps
      <4> QED
        BY <4>1 DEF MadeOf
    <3>2. ASSUME NEW S \in SUBSET (DOMAIN t), S # {}
          PROVE  g[S] = IF t[Max(S)] # Missing
                        THEN Append(g[S \ {Max(S)}], t[Max(S)]) ELSE g[S \ {Max(S)}]
      BY <1>2, <3>1, <3>2
    <3> QED
      BY <3>1, <3>2
  <2> QED
    BY <2>2, Zenon
<1> HIDE DEF it, X, Y, step
<1>4. it = [S \in SUBSET (DOMAIN t) |-> it[S]] /\ it[{}] = <<>>
  BY <1>3
<1>5. ASSUME NEW S \in SUBSET (DOMAIN t), S # {}, it[S \ {Max(S)}] \in X, t[Max(S)] \in Y
      PROVE  it[S] = step[<<it[S \ {Max(S)}], t[Max(S)]>>]
  <2>1. it[S] = IF t[Max(S)] # Missing
                THEN Append(it[S \ {Max(S)}], t[Max(S)]) ELSE it[S \ {Max(S)}]
    BY <1>3, <1>5
  <2>2. step[<<it[S \ {Max(S)}], t[Max(S)]>>] =
          IF t[Max(S)] # Missing
          THEN Append(it[S \ {Max(S)}], t[Max(S)]) ELSE it[S \ {Max(S)}]
    BY <1>2, <1>5
  <2> QED
    BY <2>1, <2>2
<1>6. Folds(it, X, step, <<>>, t)
  BY <1>2, <1>4, <1>5, FoldFromSteps
<1>7. DOMAIN t = 1..Len(t)
  OBVIOUS
<1> QED
  BY <1>1, <1>6, <1>7 DEF X, step

Ascending(positions) ==
  \A j, k \in DOMAIN positions : j < k => positions[j].agent < positions[k].agent

Present(t, n) == {k \in 1..n : t[k] # Missing}

\* What is kept of the first n tasks: their positions, one for each task that has
\* one, in the order of the agents.
Keeps(kept, t, n, w) ==
  /\ kept \in Seq(Positional) /\ Len(kept) = Cardinality(Present(t, n))
  /\ \A i \in 1..Len(kept) : \E k \in Present(t, n) : kept[i] = t[k]
  /\ \A i, j \in 1..Len(kept) : i < j => kept[i].agent < kept[j].agent
  /\ TokensOf(kept) = SumOf(w, Present(t, n))

Climbs(t) ==
  \A j, k \in 1..Len(t) : j < k /\ t[j] # Missing /\ t[k] # Missing => t[j].agent < t[k].agent

WeighsTasks(w, t) == \A k \in 1..Len(t) : t[k] # Missing => w[k] = t[k].tokens

LEMMA PresentGrows ==
  ASSUME NEW t, NEW n \in Nat
  PROVE  /\ t[n + 1] # Missing => Present(t, n + 1) = Present(t, n) \cup {n + 1}
         /\ t[n + 1] = Missing => Present(t, n + 1) = Present(t, n)
         /\ n + 1 \notin Present(t, n)
         /\ IsFiniteSet(Present(t, n))
<1>1. IsFiniteSet(Present(t, n))
  <2>1. IsFiniteSet(1..n) /\ Present(t, n) \in SUBSET (1..n)
    BY FS_Interval DEF Present
  <2> QED
    BY <2>1, FS_Subset
<1>2. 1..(n + 1) = 1..n \cup {n + 1} /\ n + 1 \notin 1..n
  OBVIOUS
<1> QED
  BY <1>1, <1>2 DEF Present

LEMMA KeepsOneMore ==
  ASSUME NEW t \in Seq(MaybePositions), Climbs(t), NEW w, WeighsTasks(w, t),
         NEW n \in Nat, n + 1 <= Len(t), NEW kept, Keeps(kept, t, n, w)
  PROVE  Keeps(KeepStep[<<kept, t[n + 1]>>], t, n + 1, w)
<1> DEFINE p == t[n + 1]
<1>1. /\ p \in MaybePositions /\ kept \in Seq(Positional) /\ Len(kept) \in Nat
      /\ n + 1 \in 1..Len(t) /\ Len(t) \in Nat
  BY DEF Keeps
<1>2. CASE p = Missing
  <2>1. KeepStep[<<kept, p>>] = kept
    BY <1>1, <1>2, KeepStepType
  <2>2. Present(t, n + 1) = Present(t, n)
    BY <1>2, PresentGrows
  <2> QED
    BY <2>1, <2>2 DEF Keeps
<1>3. CASE p # Missing
  <2> DEFINE more == Append(kept, p)
  <2>1. KeepStep[<<kept, p>>] = more /\ p \in Positional
    BY <1>1, <1>3, KeepStepType DEF MaybePositions
  <2>2. /\ Present(t, n + 1) = Present(t, n) \cup {n + 1} /\ n + 1 \notin Present(t, n)
        /\ IsFiniteSet(Present(t, n))
    BY <1>3, PresentGrows
  <2>3. /\ more \in Seq(Positional) /\ Len(more) = Len(kept) + 1
        /\ more[Len(kept) + 1] = p /\ \A i \in 1..Len(kept) : more[i] = kept[i]
        /\ 1..(Len(kept) + 1) = 1..Len(kept) \cup {Len(kept) + 1}
    BY <1>1, <2>1
  <2>4. Len(more) = Cardinality(Present(t, n + 1))
    BY <2>2, <2>3, FS_AddElement DEF Keeps
  <2>5. \A i \in 1..Len(more) : \E k \in Present(t, n + 1) : more[i] = t[k]
    <3> HIDE DEF more
    <3> QED
      BY <2>2, <2>3 DEF Keeps
  <2>6. ASSUME NEW i \in 1..Len(more), NEW j \in 1..Len(more), i < j
        PROVE  more[i].agent < more[j].agent
    <3>1. i \in 1..Len(kept)
      BY <1>1, <2>3, <2>6
    <3>2. CASE j \in 1..Len(kept)
      BY <2>3, <2>6, <3>1, <3>2 DEF Keeps
    <3>3. CASE j = Len(kept) + 1
      <4>1. PICK k \in Present(t, n) : kept[i] = t[k]
        BY <3>1 DEF Keeps
      <4>2. k \in 1..Len(t) /\ k < n + 1 /\ t[k] # Missing
        BY <1>1 DEF Present
      <4>3. t[k].agent < p.agent
        BY <1>1, <1>3, <4>2 DEF Climbs
      <4> QED
        BY <2>3, <3>1, <3>3, <4>1, <4>3
    <3> QED
      BY <2>3, <3>2, <3>3
  <2>7. TokensOf(more) = SumOf(w, Present(t, n + 1))
    <3>1. TokensOf(more) = TokensOf(kept) + p.tokens
      BY <1>1, <2>1, PositionsArePriced, TokensOfAppend
    <3>2. \A k \in Present(t, n) : k \in 1..Len(t) /\ t[k] \in Positional
      <4> SUFFICES ASSUME NEW k \in Present(t, n) PROVE k \in 1..Len(t) /\ t[k] \in Positional
        OBVIOUS
      <4>1. k \in 1..Len(t) /\ t[k] # Missing
        BY <1>1 DEF Present
      <4> QED
        BY <4>1 DEF MaybePositions
    <3>3. Weights(w, Present(t, n) \cup {n + 1})
      <4>1. \A q \in Positional : q.tokens \in Nat
        BY DEF Positional
      <4>2. \A k \in Present(t, n) : w[k] \in Nat
        BY <3>2, <4>1 DEF Present, WeighsTasks
      <4>3. w[n + 1] \in Nat
        BY <1>1, <1>3, <2>1, <4>1 DEF WeighsTasks
      <4> QED
        BY <4>2, <4>3 DEF Weights
    <3>4. w[n + 1] = p.tokens
      BY <1>1, <1>3 DEF WeighsTasks
    <3>5. SumOf(w, Present(t, n) \cup {n + 1}) = w[n + 1] + SumOf(w, Present(t, n))
      BY <2>2, <3>3, SumWith
    <3>6. TokensOf(kept) \in Nat /\ p.tokens \in Nat
      BY <1>1, <2>1, PositionsArePriced, TokensOfType DEF Priced
    <3>7. SumOf(w, Present(t, n)) = TokensOf(kept)
      BY DEF Keeps
    <3>8. SumOf(w, Present(t, n + 1)) = SumOf(w, Present(t, n) \cup {n + 1})
      BY <2>2
    <3> HIDE DEF more, p
    <3>9. SumOf(w, Present(t, n + 1)) = p.tokens + TokensOf(kept)
      BY <3>4, <3>5, <3>7, <3>8
    <3> QED
      BY <3>1, <3>6, <3>9
  <2> HIDE DEF more
  <2>8. Keeps(more, t, n + 1, w)
    BY <2>3, <2>4, <2>5, <2>6, <2>7 DEF Keeps
  <2> QED
    BY <2>1, <2>8
<1> QED
  BY <1>2, <1>3

LEMMA InOrderKeeps ==
  ASSUME NEW t \in Seq(MaybePositions), Climbs(t), NEW w, WeighsTasks(w, t)
  PROVE  Keeps(InOrderOf(t), t, Len(t), w)
<1>1. PICK f : Folds(f, Seq(Positional), KeepStep, <<>>, t) /\ InOrderOf(t) = f[1..Len(t)]
  BY InOrderFold
<1>2. /\ f[1..0] = <<>>
      /\ \A n \in Nat : n + 1 <= Len(t) => f[1..(n + 1)] = KeepStep[<<f[1..n], t[n + 1]>>]
  <2>1. Len(t) \in Nat
    OBVIOUS
  <2> QED
    BY <1>1, <2>1, FoldPrefix
<1> DEFINE T == {n \in Nat : n <= Len(t) => Keeps(f[1..n], t, n, w)}
<1>3. 0 \in T
  <2>1. Present(t, 0) = {}
    BY DEF Present
  <2>2. <<>> \in Seq(Positional) /\ Len(<<>>) = 0 /\ 1..0 = {}
    OBVIOUS
  <2>3. Keeps(<<>>, t, 0, w)
    BY <2>1, <2>2, TokensOfNone, SumOfNone, FS_EmptySet DEF Keeps
  <2> QED
    BY <1>2, <2>3
<1>4. ASSUME NEW n \in Nat, n \in T PROVE n + 1 \in T
  <2> SUFFICES ASSUME n + 1 <= Len(t) PROVE Keeps(f[1..(n + 1)], t, n + 1, w)
    OBVIOUS
  <2>1. Keeps(f[1..n], t, n, w)
    BY <1>4
  <2>2. Keeps(KeepStep[<<f[1..n], t[n + 1]>>], t, n + 1, w)
    BY <2>1, KeepsOneMore
  <2> QED
    BY <1>2, <2>2
<1>5. Len(t) \in T
  <2>1. Nat \subseteq T
    <3> HIDE DEF T
    <3> QED
      BY <1>3, <1>4, InductionOverSet
  <2> QED
    BY <2>1
<1> QED
  BY <1>1, <1>5

-----------------------------------------------------------------------------
(* The inductive invariant.                                                *)

\* The tasks of the round: one for each agent that is left.
Count == IF round = 0 THEN AgentsCount ELSE Len(current)

Futures ==
  {Queued, Running}
    \cup [state : {"position"}, position : Positional]
    \cup [state : {"late"}, tokens : Nat]
    \cup [state : {"error"}, error : {"protocol_error", "adapter_error"}]
    \cup [state : {"timeout", "cancelled"}]

PoolTyped ==
  /\ pc \in {"before", "close", "done"} \cup Judging /\ round \in 0..MaxRounds
  /\ current \in Seq(Positional) /\ results \in Seq(Positional)
  /\ transcript \in Seq(Seq(Positional))
  /\ pc # "done" => result = Pending
  /\ phase \in {"idle", "waiting", "draining", "drained", "quorum lost"}

\* What the engine holds as current is the last closed round, a quorum in the
\* order of the agents, and no round is gathered after an agreement.
CurrentIsQuorum ==
  /\ transcript = <<>> => current = <<>>
  /\ transcript # <<>> =>
       /\ current = transcript[Len(transcript)]
       /\ Len(current) >= MinQuorum /\ Ascending(current)
  /\ pc \in {"before", "close"} /\ transcript # <<>> => ~Unanimous(current)

\* Each position comes from an agent that was left, and that kept its stance or
\* conceded.
Follows(positions) ==
  round > 0 =>
    \A k \in DOMAIN positions : \E j \in DOMAIN current :
      /\ current[j].agent = positions[k].agent
      /\ SameStance(current[j], positions[k]) \/ positions[k].conceded

OpenQuorum ==
  /\ pc \in {"before", "close"} => Len(transcript) = round
  /\ pc = "before" => results = <<>>
  /\ pc = "close" => Len(results) >= MinQuorum /\ Ascending(results) /\ Follows(results)

\* A future holds a position of its own agent.
Placed(k, position) ==
  /\ position.agent = AgentOf(k)
  /\ round > 0 => SameStance(current[k], position) \/ position.conceded

PoolInUse == phase # "idle"

Pooled ==
  /\ phase \in {"waiting", "draining"} => pc = "before"
  /\ phase \in {"drained", "quorum lost"} => pc = "done"
  /\ phase = "idle" => slot = <<>>
  /\ PoolInUse =>
       /\ slot \in [1..Count -> Futures] /\ gathered \in [1..Count -> MaybePositions]
       /\ \A k \in 1..Count : slot[k].state = "position" => Placed(k, slot[k].position)
       /\ \A k \in 1..Count : gathered[k] # Missing =>
            slot[k].state = "position" /\ gathered[k] = slot[k].position

PoolInv == PoolTyped /\ CurrentIsQuorum /\ OpenQuorum /\ ClosedRound /\ Pooled

\* The tokens of the call of a task, once its answer is in.
Weight ==
  [k \in Tasks |-> IF slot[k].state = "late" THEN slot[k].tokens
                   ELSE IF slot[k].state = "position" THEN slot[k].position.tokens ELSE 0]

\* The engine books what closed rounds cost, and during the drain what it has
\* counted of the snapshot; all of it was billed.
Booked ==
  /\ spent \in Nat /\ billed \in Nat
  /\ pc = "done" => spent <= billed
  /\ pc # "done" /\ phase # "draining" => spent = ClosedTokens
  /\ pc # "done" /\ phase = "idle" => spent + TokensOf(results) <= billed
  /\ phase \in {"waiting", "draining"} => ClosedTokens + SumOf(Weight, Tasks) <= billed

Snapshot ==
  /\ phase \in {"draining", "drained"} => \A k \in proven : k \in Tasks /\ Proven(k)
  /\ phase = "draining" =>
       /\ \A k \in drain : k \in Tasks /\ Done(k) /\ (Proven(k) <=> k \in proven)
       /\ spent = ClosedTokens + SumOf(Weight, proven \ drain)
       /\ completed = Cardinality(proven \ drain)
  /\ phase = "drained" =>
       /\ spent = ClosedTokens + SumOf(Weight, proven)
       /\ completed = Cardinality(proven)

SnapshotInv == PoolInv /\ Booked /\ Snapshot

-----------------------------------------------------------------------------
(* Futures and their weights.                                              *)

LEMMA QuorumIsNatural == MinQuorum \in Nat /\ MinQuorum >= 2 /\ MinQuorum <= AgentsCount
BY PoolConstants, CountsAreNaturals

\* In which state a future is tells what it holds.
LEMMA FutureKinds ==
  ASSUME NEW future \in Futures
  PROVE  /\ future.state \in {"queued", "running", "position", "late", "error", "timeout",
                              "cancelled"}
         /\ future.state = "position" => future.position \in Positional
                                          /\ future.position.tokens \in Nat
         /\ future.state = "late" => future.tokens \in Nat
         /\ future.state = "error" => future.error \in {"protocol_error", "adapter_error"}
         /\ future.state = "queued" => future = Queued
         /\ future.state = "running" => future = Running
BY DEF Futures, Queued, Running, Positional

LEMMA CountIsNatural ==
  ASSUME PoolInv
  PROVE  Count \in Nat /\ IsFiniteSet(1..Count)
<1>1. current \in Seq(Positional)
  BY DEF PoolInv, PoolTyped
<1>2. Count \in Nat
  BY <1>1, CountsAreNaturals, LenProperties DEF Count
<1> QED
  BY <1>2, FS_Interval

LEMMA TasksAre ==
  ASSUME PoolInv
  PROVE  /\ IsFiniteSet(Tasks)
         /\ PoolInUse => Tasks = 1..Count /\ slot \in [Tasks -> Futures]
         /\ ~PoolInUse => Tasks = {}
<1>1. CASE PoolInUse
  <2>1. slot \in [1..Count -> Futures]
    BY <1>1 DEF PoolInv, Pooled
  <2> QED
    BY <1>1, <2>1, CountIsNatural DEF Tasks
<1>2. CASE ~PoolInUse
  <2>1. slot = <<>>
    BY <1>2 DEF PoolInv, Pooled, PoolInUse
  <2>2. DOMAIN <<>> = {}
    OBVIOUS
  <2> QED
    BY <1>2, <2>1, <2>2, FS_EmptySet DEF Tasks
<1> QED
  BY <1>1, <1>2

LEMMA WeightType ==
  ASSUME PoolInv
  PROVE  /\ Weights(Weight, Tasks) /\ SumOf(Weight, Tasks) \in Nat
         /\ \A S \in SUBSET Tasks : /\ IsFiniteSet(S) /\ Weights(Weight, S)
                                   /\ SumOf(Weight, S) \in Nat
                                   /\ SumOf(Weight, S) <= SumOf(Weight, Tasks)
<1>1. Weights(Weight, Tasks)
  <2> SUFFICES ASSUME NEW k \in Tasks PROVE Weight[k] \in Nat
    BY DEF Weights
  <2>1. PoolInUse /\ slot[k] \in Futures
    BY TasksAre
  <2> QED
    BY <2>1, FutureKinds DEF Weight
<1>2. IsFiniteSet(Tasks)
  BY TasksAre
<1>3. SumOf(Weight, Tasks) \in Nat
  BY <1>1, <1>2, SumType
<1>4. ASSUME NEW S \in SUBSET Tasks
      PROVE  /\ IsFiniteSet(S) /\ Weights(Weight, S) /\ SumOf(Weight, S) \in Nat
             /\ SumOf(Weight, S) <= SumOf(Weight, Tasks)
  <2>1. IsFiniteSet(S) /\ Weights(Weight, S)
    BY <1>1, <1>2, FS_Subset DEF Weights
  <2> QED
    BY <1>1, <1>2, <2>1, SumType, SumOfPart
<1> QED
  BY <1>1, <1>3, <1>4

\* What the property sums up is the weight of the tasks.
LEMMA SlotTokensSum ==
  ASSUME PoolInv, NEW S \in SUBSET Tasks, \A k \in S : Proven(k)
  PROVE  MapThenSumSet(SlotTokens, S) = SumOf(Weight, S)
<1> DEFINE it == CHOOSE f : f = [R \in SUBSET S |->
                     IF R = {} THEN 0
                     ELSE SlotTokens(CHOOSE x \in R : TRUE) + f[R \ {CHOOSE x \in R : TRUE}]]
<1>1. MapThenSumSet(SlotTokens, S) = it[S]
  BY DEF MapThenSumSet, MapThenFoldSet
<1>2. \A k \in S : SlotTokens(k) = Weight[k]
  BY DEF Weight, SlotTokens, Proven
<1>3. IsFiniteSet(S) /\ Weights(Weight, S)
  BY WeightType
<1>4. PICK g : Sums(g, Weight, S)
  BY <1>3, SumExists
<1>5. g = [R \in SUBSET S |->
            IF R = {} THEN 0
            ELSE SlotTokens(CHOOSE x \in R : TRUE) + g[R \ {CHOOSE x \in R : TRUE}]]
  <2>1. ASSUME NEW R \in SUBSET S
        PROVE  g[R] = IF R = {} THEN 0
                      ELSE SlotTokens(CHOOSE x \in R : TRUE) + g[R \ {CHOOSE x \in R : TRUE}]
    <3>1. g[R] = IF R = {} THEN 0 ELSE Weight[Some(R)] + g[R \ {Some(R)}]
      BY <1>4 DEF Sums
    <3>2. R # {} => Weight[Some(R)] = SlotTokens(Some(R))
      BY <1>2, SomeIsMember
    <3>3. g[R] = IF R = {} THEN 0 ELSE SlotTokens(Some(R)) + g[R \ {Some(R)}]
      BY <3>1, <3>2
    <3> QED
      BY <3>3 DEF Some
  <2>2. g = [R \in SUBSET S |-> g[R]]
    BY <1>4 DEF Sums
  <2> QED
    BY <2>1, <2>2
<1>6. it = [R \in SUBSET S |->
             IF R = {} THEN 0
             ELSE SlotTokens(CHOOSE x \in R : TRUE) + it[R \ {CHOOSE x \in R : TRUE}]]
  BY <1>5, Zenon
<1> HIDE DEF it
<1>7. Sums(it, Weight, S)
  <2>1. ASSUME NEW R \in SUBSET S
        PROVE  it[R] = IF R = {} THEN 0 ELSE Weight[Some(R)] + it[R \ {Some(R)}]
    <3>1. it[R] = IF R = {} THEN 0 ELSE SlotTokens(Some(R)) + it[R \ {Some(R)}]
      BY <1>6 DEF Some
    <3>2. R # {} => Weight[Some(R)] = SlotTokens(Some(R))
      BY <1>2, SomeIsMember
    <3> QED
      BY <3>1, <3>2
  <2> DEFINE T == {R \in SUBSET S : it[R] \in Nat}
  <2>2. ASSUME NEW R \in SUBSET S, \A x \in R : R \ {x} \in T PROVE R \in T
    <3>1. R # {} => it[R \ {Some(R)}] \in Nat /\ Weight[Some(R)] \in Nat
      BY <1>3, <2>2, SomeIsMember DEF Weights
    <3> QED
      BY <2>1, <3>1
  <2>3. SUBSET S \subseteq T
    <3>1. Inductive(S, T)
      <4> HIDE DEF T
      <4> QED
        BY <2>2 DEF Inductive
    <3> HIDE DEF T
    <3> QED
      BY <1>3, <3>1, InductionOverSubsets
  <2>4. it \in [SUBSET S -> Nat]
    <3>1. it = [R \in SUBSET S |-> it[R]]
      BY <1>6
    <3> QED
      BY <2>3, <3>1
  <2> QED
    BY <2>1, <2>4 DEF Sums
<1> QED
  BY <1>1, <1>3, <1>7, SumOfAny

-----------------------------------------------------------------------------
(* The positions gathered so far.                                          *)

LEMMA AgentsClimb ==
  ASSUME PoolInv, phase \in {"waiting", "draining"}
  PROVE  /\ \A k \in 1..Count : AgentOf(k) \in 1..AgentsCount
         /\ \A j, k \in 1..Count : j < k => AgentOf(j) < AgentOf(k)
<1>1. /\ pc = "before" /\ Len(transcript) = round /\ round \in Nat
      /\ current \in Seq(Positional) /\ transcript \in Seq(Seq(Positional))
  <2>1. pc = "before"
    BY DEF PoolInv, Pooled
  <2>2. Len(transcript) = round
    BY <2>1 DEF PoolInv, OpenQuorum
  <2>3. /\ round \in 0..MaxRounds
        /\ current \in Seq(Positional) /\ transcript \in Seq(Seq(Positional))
    BY DEF PoolInv, PoolTyped
  <2> QED
    BY <2>1, <2>2, <2>3, CountsAreNaturals
<1>2. CASE round = 0
  BY <1>2, CountsAreNaturals DEF Count, AgentOf
<1>3. CASE round # 0
  <2>1. transcript # <<>>
    BY <1>1, <1>3
  <2>2. Ascending(current)
    BY <2>1 DEF PoolInv, CurrentIsQuorum
  <2>3. Count = Len(current) /\ \A k \in 1..Count : AgentOf(k) = current[k].agent
    BY <1>3 DEF Count, AgentOf
  <2>4. ASSUME NEW k \in 1..Count PROVE AgentOf(k) \in 1..AgentsCount
    <3>1. current[k] \in Positional
      BY <1>1, <2>3
    <3> QED
      BY <2>3, <3>1 DEF Positional
  <2>5. DOMAIN current = 1..Count
    BY <1>1, <2>3
  <2> QED
    BY <2>2, <2>3, <2>4, <2>5 DEF Ascending
<1> QED
  BY <1>2, <1>3

LEMMA GatheredInOrder ==
  ASSUME PoolInv, phase = "waiting"
  PROVE  /\ GatheredSet \in SUBSET Tasks /\ \A k \in GatheredSet : Proven(k)
         /\ InOrder \in Seq(Positional) /\ Len(InOrder) = Cardinality(GatheredSet)
         /\ Ascending(InOrder) /\ Follows(InOrder)
         /\ TokensOf(InOrder) = SumOf(Weight, GatheredSet)
<1>1. /\ Tasks = 1..Count /\ Count \in Nat /\ slot \in [Tasks -> Futures]
      /\ gathered \in [1..Count -> MaybePositions]
      /\ \A k \in 1..Count : slot[k].state = "position" => Placed(k, slot[k].position)
      /\ \A k \in 1..Count : gathered[k] # Missing =>
            slot[k].state = "position" /\ gathered[k] = slot[k].position
  BY TasksAre, CountIsNatural DEF PoolInv, Pooled, PoolInUse
<1>2. gathered \in Seq(MaybePositions) /\ Len(gathered) = Count
  BY <1>1
<1>3. GatheredSet = Present(gathered, Count)
  BY <1>1 DEF GatheredSet, Present
<1>4. Climbs(gathered)
  <2> SUFFICES ASSUME NEW j \in 1..Count, NEW k \in 1..Count, j < k,
                      gathered[j] # Missing, gathered[k] # Missing
               PROVE  gathered[j].agent < gathered[k].agent
    BY <1>2 DEF Climbs
  <2>1. gathered[j].agent = AgentOf(j) /\ gathered[k].agent = AgentOf(k)
    BY <1>1 DEF Placed
  <2> QED
    BY <2>1, AgentsClimb
<1>5. WeighsTasks(Weight, gathered)
  <2> SUFFICES ASSUME NEW k \in 1..Count, gathered[k] # Missing
               PROVE  Weight[k] = gathered[k].tokens
    BY <1>2 DEF WeighsTasks
  <2> QED
    BY <1>1 DEF Weight
<1>6. Keeps(InOrder, gathered, Count, Weight)
  <2>1. Keeps(InOrderOf(gathered), gathered, Len(gathered), Weight)
    BY <1>2, <1>4, <1>5, InOrderKeeps
  <2> QED
    BY <1>2, <2>1 DEF InOrder, InOrderOf
<1>7. DOMAIN InOrder = 1..Len(InOrder)
  BY <1>6 DEF Keeps
<1>8. Follows(InOrder)
  <2> SUFFICES ASSUME round > 0, NEW i \in 1..Len(InOrder)
               PROVE  \E j \in DOMAIN current :
                        /\ current[j].agent = InOrder[i].agent
                        /\ SameStance(current[j], InOrder[i]) \/ InOrder[i].conceded
    BY <1>7 DEF Follows
  <2>1. PICK k \in Present(gathered, Count) : InOrder[i] = gathered[k]
    BY <1>6 DEF Keeps
  <2>2. k \in 1..Count /\ Placed(k, InOrder[i])
    BY <1>1, <2>1 DEF Present
  <2>3. k \in DOMAIN current /\ AgentOf(k) = current[k].agent
    <3>1. current \in Seq(Positional) /\ Count = Len(current)
      BY DEF PoolInv, PoolTyped, Count
    <3>2. AgentOf(k) = current[k].agent
      BY DEF AgentOf
    <3> QED
      BY <2>2, <3>1, <3>2
  <2> QED
    BY <2>2, <2>3 DEF Placed
<1>9. Ascending(InOrder)
  BY <1>6, <1>7 DEF Keeps, Ascending
<1> QED
  BY <1>1, <1>3, <1>6, <1>8, <1>9 DEF Keeps, GatheredSet, Proven

-----------------------------------------------------------------------------
(* The rounds and the pool.                                                *)

LEMMA InitPool == ParallelInit => PoolInv
<1> SUFFICES ASSUME ParallelInit PROVE PoolInv
  OBVIOUS
<1>1. PoolTyped
  BY CountsAreNaturals DEF ParallelInit, Init, PoolTyped
<1>2. CurrentIsQuorum /\ OpenQuorum /\ ClosedRound
  BY CountsAreNaturals
     DEF ParallelInit, Init, CurrentIsQuorum, OpenQuorum, ClosedRound, Judging
<1>3. Pooled
  BY DEF ParallelInit, Pooled, PoolInUse
<1> QED
  BY <1>1, <1>2, <1>3 DEF PoolInv

Rounds == <<pc, round, current, results, transcript, result>>

\* A step of the pool in an open round.
LEMMA PoolMoves ==
  ASSUME PoolInv, UNCHANGED Rounds,
         phase \in {"waiting", "draining"}, phase' \in {"waiting", "draining"},
         slot' \in [1..Count -> Futures], gathered' \in [1..Count -> MaybePositions],
         \A k \in 1..Count : slot'[k].state = "position" => Placed(k, slot'[k].position),
         \A k \in 1..Count : gathered'[k] # Missing =>
           slot'[k].state = "position" /\ gathered'[k] = slot'[k].position
  PROVE  PoolInv'
<1>1. PoolTyped'
  BY DEF PoolInv, PoolTyped, Rounds
<1>2. CurrentIsQuorum' /\ OpenQuorum' /\ ClosedRound'
  BY DEF PoolInv, CurrentIsQuorum, OpenQuorum, ClosedRound, Rounds, Ascending, Follows, Judging
<1>3. Count' = Count /\ pc' = "before"
  BY DEF Count, Rounds, PoolInv, Pooled
<1>4. \A k, p : Placed(k, p)' <=> Placed(k, p)
  BY DEF Placed, AgentOf, Rounds
<1>5. Pooled'
  BY <1>3, <1>4 DEF Pooled, PoolInUse, Placed, AgentOf, Rounds
<1> QED
  BY <1>1, <1>2, <1>5 DEF PoolInv

\* What the pool of an open round holds.
LEMMA OpenPool ==
  ASSUME PoolInv, phase \in {"waiting", "draining"}
  PROVE  /\ Tasks = 1..Count /\ Count \in Nat
         /\ slot \in [1..Count -> Futures] /\ gathered \in [1..Count -> MaybePositions]
         /\ \A k \in 1..Count : slot[k].state = "position" => Placed(k, slot[k].position)
         /\ \A k \in 1..Count : gathered[k] # Missing =>
               slot[k].state = "position" /\ gathered[k] = slot[k].position
BY TasksAre, CountIsNatural DEF PoolInv, Pooled, PoolInUse

LEMMA SlotMoves ==
  ASSUME PoolInv, UNCHANGED <<Rounds, phase, gathered>>, phase \in {"waiting", "draining"},
         NEW k \in 1..Count, slot[k].state # "position", NEW future \in Futures,
         future.state = "position" => Placed(k, future.position),
         slot' = [slot EXCEPT ![k] = future]
  PROVE  PoolInv'
<1>1. /\ slot \in [1..Count -> Futures] /\ gathered \in [1..Count -> MaybePositions]
      /\ \A j \in 1..Count : slot[j].state = "position" => Placed(j, slot[j].position)
      /\ \A j \in 1..Count : gathered[j] # Missing =>
            slot[j].state = "position" /\ gathered[j] = slot[j].position
  BY OpenPool
<1>2. /\ slot' \in [1..Count -> Futures]
      /\ \A j \in 1..Count : slot'[j] = IF j = k THEN future ELSE slot[j]
  BY <1>1
<1>3. \A j \in 1..Count : slot'[j].state = "position" => Placed(j, slot'[j].position)
  BY <1>1, <1>2
<1>4. \A j \in 1..Count : gathered'[j] # Missing =>
        slot'[j].state = "position" /\ gathered'[j] = slot'[j].position
  BY <1>1, <1>2
<1> QED
  BY <1>1, <1>2, <1>3, <1>4, PoolMoves

\* The threads find a round in progress.
LEMMA ThreadsInRound ==
  ASSUME PoolInv, pc # "done", Tasks # {}
  PROVE  phase \in {"waiting", "draining"} /\ pc = "before" /\ Tasks = 1..Count
<1>1. PoolInUse
  BY TasksAre
<1>2. phase \in {"waiting", "draining"} /\ pc = "before"
  BY <1>1 DEF PoolInv, PoolTyped, Pooled, PoolInUse
<1> QED
  BY <1>1, <1>2, TasksAre

LEMMA ReturnedPosition ==
  ASSUME PoolInv, phase \in {"waiting", "draining"}, NEW k \in 1..Count,
         NEW response \in Responses, Acceptable(k, response)
  PROVE  /\ Position(AgentOf(k), response) \in Positional
         /\ Placed(k, Position(AgentOf(k), response))
<1> DEFINE new == Position(AgentOf(k), response)
<1>1. new \in Positional /\ new.agent = AgentOf(k)
  BY AgentsClimb, PositionType, PositionConstants
<1>2. ASSUME round > 0 PROVE SameStance(current[k], new) \/ new.conceded
  <2>1. AgentOf(k) = current[k].agent
    BY <1>2 DEF AgentOf
  <2>2. ValidUpdate(current[k], new)
    BY <1>2, <2>1 DEF Acceptable
  <2> QED
    BY <2>2 DEF ValidUpdate
<1> QED
  BY <1>1, <1>2 DEF Placed

LEMMA ThreadsKeepPool == PoolInv /\ Threads => PoolInv'
<1> SUFFICES ASSUME PoolInv, Threads PROVE PoolInv'
  OBVIOUS
<1>1. phase \in {"waiting", "draining"} /\ Tasks = 1..Count
  BY ThreadsInRound DEF Threads
<1>2. PICK k \in 1..Count : Start(k) \/ ReturnError(k)
                           \/ \E response \in Responses : Return(k, response)
  BY <1>1 DEF Threads
<1>3. CASE Start(k)
  <2>1. slot' = [slot EXCEPT ![k] = Running] /\ UNCHANGED <<Rounds, phase, gathered>>
    BY <1>3 DEF Start, SetSlot, Rounds, debate
  <2>2. slot[k].state # "position" /\ Running \in Futures /\ Running.state # "position"
    BY <1>3 DEF Start, Queued, Running, Futures
  <2> QED
    BY <1>1, <2>1, <2>2, SlotMoves
<1>4. CASE ReturnError(k)
  <2>1. PICK future \in {[state |-> "timeout"], [state |-> "error", error |-> "adapter_error"]} :
          slot' = [slot EXCEPT ![k] = future]
    BY <1>4 DEF ReturnError, SetSlot
  <2>2. future \in Futures /\ future.state # "position"
    BY DEF Futures
  <2>3. slot[k].state # "position" /\ UNCHANGED <<Rounds, phase, gathered>>
    BY <1>4 DEF ReturnError, Running, Rounds, vars, debate
  <2> QED
    BY <1>1, <2>1, <2>2, <2>3, SlotMoves
<1>5. ASSUME NEW response \in Responses, Return(k, response) PROVE PoolInv'
  <2>1. slot[k].state # "position" /\ UNCHANGED <<Rounds, phase, gathered>>
    BY <1>5 DEF Return, Running, Rounds, debate
  <2>2. CASE expired
    <3> DEFINE future == [state |-> "late", tokens |-> response.tokens]
    <3>1. future \in Futures /\ future.state # "position"
      BY PositionConstants, ResponseTokens DEF Futures
    <3>2. slot' = [slot EXCEPT ![k] = future]
      BY <1>5, <2>2 DEF Return, SetSlot
    <3> HIDE DEF future
    <3> QED
      BY <1>1, <2>1, <3>1, <3>2, SlotMoves
  <2>3. CASE ~expired /\ Acceptable(k, response)
    <3> DEFINE new == Position(AgentOf(k), response)
               future == [state |-> "position", position |-> new]
    <3>1. new \in Positional /\ Placed(k, new)
      BY <1>1, <2>3, ReturnedPosition
    <3>2. slot' = [slot EXCEPT ![k] = future]
      BY <1>5, <2>3 DEF Return, SetSlot
    <3> HIDE DEF new
    <3>3. future \in Futures /\ future.position = new
      BY <3>1 DEF Futures
    <3> HIDE DEF future
    <3> QED
      BY <1>1, <2>1, <3>1, <3>2, <3>3, SlotMoves
  <2>4. CASE ~expired /\ ~Acceptable(k, response)
    <3> DEFINE future == [state |-> "error", error |-> "protocol_error"]
    <3>1. future \in Futures /\ future.state # "position"
      BY DEF Futures
    <3>2. slot' = [slot EXCEPT ![k] = future]
      BY <1>5, <2>4 DEF Return, SetSlot
    <3> HIDE DEF future
    <3> QED
      BY <1>1, <2>1, <3>1, <3>2, SlotMoves
  <2> QED
    BY <2>2, <2>3, <2>4
<1> QED
  BY <1>2, <1>3, <1>4, <1>5

-----------------------------------------------------------------------------
(* The collector.                                                          *)

Phases == {"idle", "waiting", "draining", "drained", "quorum lost"}

\* What the invariant says of the rounds.
RoundsInv == PoolTyped /\ CurrentIsQuorum /\ OpenQuorum /\ ClosedRound

LEMMA PoolOfRounds == PoolInv <=> RoundsInv /\ Pooled
BY DEF PoolInv, RoundsInv

LEMMA SameRounds ==
  ASSUME RoundsInv, UNCHANGED Rounds, phase' \in Phases
  PROVE  RoundsInv'
<1>1. PoolTyped'
  BY DEF RoundsInv, PoolTyped, Rounds, Phases
<1>2. CurrentIsQuorum' /\ OpenQuorum' /\ ClosedRound'
  BY DEF RoundsInv, CurrentIsQuorum, OpenQuorum, ClosedRound, Rounds, Ascending, Follows, Judging
<1> QED
  BY <1>1, <1>2 DEF RoundsInv

\* A step that leaves the rounds alone and ends the debate.
LEMMA EndOfRounds ==
  ASSUME RoundsInv, pc' = "done", UNCHANGED <<round, current, results, transcript>>,
         phase' \in Phases
  PROVE  RoundsInv'
<1>1. PoolTyped'
  BY DEF RoundsInv, PoolTyped, Phases
<1>2. CurrentIsQuorum' /\ OpenQuorum' /\ ClosedRound'
  BY DEF RoundsInv, CurrentIsQuorum, OpenQuorum, ClosedRound, Ascending, Judging
<1> QED
  BY <1>1, <1>2 DEF RoundsInv

LEMMA IdlePool ==
  ASSUME phase' = "idle", slot' = <<>>
  PROVE  Pooled'
BY DEF Pooled, PoolInUse

LEMMA SubmitKeepsPool == PoolInv /\ Submit => PoolInv'
<1> SUFFICES ASSUME PoolInv, Submit PROVE PoolInv'
  OBVIOUS
<1>1. /\ pc = "before" /\ phase' = "waiting" /\ UNCHANGED Rounds
      /\ slot' = [k \in 1..Count |-> Queued] /\ gathered' = [k \in 1..Count |-> Missing]
  BY DEF Submit, Count, Rounds, vars, debate
<1>2. RoundsInv'
  BY <1>1, SameRounds, PoolOfRounds DEF Phases
<1>3. Count' = Count /\ pc' = "before"
  BY <1>1 DEF Count, Rounds
<1>4. Queued \in Futures /\ Queued.state # "position" /\ Missing \in MaybePositions
  BY DEF Futures, Queued, MaybePositions
<1>5. /\ slot' \in [1..Count -> Futures] /\ gathered' \in [1..Count -> MaybePositions]
      /\ \A k \in 1..Count : slot'[k].state # "position" /\ gathered'[k] = Missing
  BY <1>1, <1>4
<1>6. Pooled'
  BY <1>1, <1>3, <1>5 DEF Pooled, PoolInUse
<1> QED
  BY <1>2, <1>6, PoolOfRounds DEF PoolInv, RoundsInv

LEMMA CollectKeepsPool ==
  ASSUME PoolInv, NEW k \in Tasks, Collect(k)
  PROVE  PoolInv'
<1>1. /\ phase = "waiting" /\ phase' = "waiting" /\ UNCHANGED <<Rounds, slot>>
      /\ slot[k].state = "position"
      /\ gathered' = [gathered EXCEPT ![k] = slot[k].position]
  BY DEF Collect, Waiting, Rounds, vars, debate
<1>2. /\ Tasks = 1..Count
      /\ slot \in [1..Count -> Futures] /\ gathered \in [1..Count -> MaybePositions]
      /\ \A j \in 1..Count : slot[j].state = "position" => Placed(j, slot[j].position)
      /\ \A j \in 1..Count : gathered[j] # Missing =>
            slot[j].state = "position" /\ gathered[j] = slot[j].position
  BY <1>1, OpenPool
<1>3. slot[k].position \in MaybePositions
  BY <1>1, <1>2, FutureKinds DEF MaybePositions
<1>4. /\ gathered' \in [1..Count -> MaybePositions]
      /\ \A j \in 1..Count : gathered'[j] = IF j = k THEN slot[k].position ELSE gathered[j]
  BY <1>1, <1>2, <1>3
<1>5. \A j \in 1..Count : gathered'[j] # Missing =>
        slot'[j].state = "position" /\ gathered'[j] = slot'[j].position
  BY <1>1, <1>2, <1>4
<1>6. UNCHANGED Rounds /\ slot' = slot
  BY <1>1
<1> QED
  BY <1>1, <1>2, <1>4, <1>5, <1>6, PoolMoves

\* Nothing moves but counters and the turn.
LEMMA PoolStays ==
  ASSUME PoolInv, UNCHANGED <<Rounds, slot, gathered>>,
         phase \in {"waiting", "draining"}, phase' \in {"waiting", "draining"}
  PROVE  PoolInv'
<1>1. UNCHANGED Rounds /\ slot' = slot /\ gathered' = gathered
  OBVIOUS
<1> QED
  BY <1>1, OpenPool, PoolMoves

LEMMA DropKeepsPool ==
  ASSUME PoolInv, NEW k \in Tasks, Drop(k)
  PROVE  PoolInv'
<1>1. /\ phase = "waiting" /\ phase' = "waiting" /\ UNCHANGED <<Rounds, phase, gathered>>
      /\ slot' = [slot EXCEPT ![k] = IF @ = Queued THEN [state |-> "cancelled"] ELSE @]
  BY DEF Drop, Waiting, Rounds, vars, debate
<1>2. Tasks = 1..Count /\ slot \in [1..Count -> Futures]
  BY <1>1, OpenPool
<1>3. CASE slot[k] = Queued
  <2> DEFINE future == [state |-> "cancelled"]
  <2>1. future \in Futures /\ future.state # "position"
    BY DEF Futures
  <2>2. slot[k].state # "position" /\ slot' = [slot EXCEPT ![k] = future]
    BY <1>1, <1>2, <1>3 DEF Queued
  <2> HIDE DEF future
  <2> QED
    BY <1>1, <1>2, <2>1, <2>2, SlotMoves
<1>4. CASE slot[k] # Queued
  <2>1. slot' = slot
    BY <1>1, <1>2, <1>4
  <2> QED
    BY <1>1, <2>1, PoolStays
<1> QED
  BY <1>3, <1>4

LEMMA PropagateKeepsPool ==
  ASSUME PoolInv, NEW k \in Tasks, Propagate(k)
  PROVE  PoolInv'
<1>1. RoundsInv'
  BY EndOfRounds, PoolOfRounds DEF Propagate, Raise, Goto, Shutdown, debate, Phases
<1>2. Pooled'
  BY IdlePool DEF Propagate, Shutdown
<1> QED
  BY <1>1, <1>2 DEF PoolInv, RoundsInv

LEMMA AbortKeepsPool ==
  ASSUME PoolInv, Drained \/ LoseQuorum
  PROVE  PoolInv'
<1>1. /\ phase \in {"waiting", "draining"} /\ pc' = "done"
      /\ phase' \in {"drained", "quorum lost"}
      /\ UNCHANGED <<round, current, results, transcript, slot, gathered>>
  BY DEF Drained, LoseQuorum, Abort, Finish, Goto, Gathered
<1>2. RoundsInv'
  BY <1>1, EndOfRounds, PoolOfRounds DEF Phases
<1>3. Count' = Count /\ \A j, p : Placed(j, p)' <=> Placed(j, p)
  BY <1>1 DEF Count, Placed, AgentOf
<1>4. Pooled'
  BY <1>1, <1>3, OpenPool DEF Pooled, PoolInUse, Placed, AgentOf
<1> QED
  BY <1>2, <1>4 DEF PoolInv, RoundsInv

LEMMA KeepQuorumKeepsPool == PoolInv /\ KeepQuorum => PoolInv'
<1> SUFFICES ASSUME PoolInv, KeepQuorum PROVE PoolInv'
  OBVIOUS
<1>1. /\ phase = "waiting" /\ pc = "before" /\ pc' = "close" /\ results' = InOrder
      /\ UNCHANGED <<round, current, transcript, result>>
      /\ Cardinality(GatheredSet) >= MinQuorum
      /\ phase' = "idle" /\ slot' = <<>>
  BY DEF KeepQuorum, Gathered, Goto, Shutdown, PoolInv, Pooled
<1>2. /\ InOrder \in Seq(Positional) /\ Len(InOrder) = Cardinality(GatheredSet)
      /\ Ascending(InOrder) /\ Follows(InOrder)
  BY <1>1, GatheredInOrder
<1>3. PoolTyped'
  BY <1>1, <1>2 DEF PoolInv, PoolTyped
<1>4. CurrentIsQuorum' /\ ClosedRound'
  BY <1>1 DEF PoolInv, CurrentIsQuorum, ClosedRound, Judging
<1>5. OpenQuorum'
  <2>2. Len(transcript') = round'
    BY <1>1 DEF PoolInv, OpenQuorum
  <2>3. /\ Len(results') >= MinQuorum
        /\ Ascending(results')
        /\ Follows(results')
    BY <1>1, <1>2
  <2>4. Follows(results)'
    BY <1>1, <2>3 DEF Follows
  <2> QED
    BY <1>1, <2>2, <2>3, <2>4 DEF OpenQuorum, Ascending
<1>6. Pooled'
  BY <1>1, IdlePool
<1> QED
  BY <1>3, <1>4, <1>5, <1>6 DEF PoolInv

LEMMA CollectorKeepsPool == PoolInv /\ Collector => PoolInv'
<1> SUFFICES ASSUME PoolInv, Collector PROVE PoolInv'
  OBVIOUS
<1>1. CASE Submit
  BY <1>1, SubmitKeepsPool
<1>2. CASE Drained \/ LoseQuorum
  BY <1>2, AbortKeepsPool
<1>3. CASE KeepQuorum
  BY <1>3, KeepQuorumKeepsPool
<1>4. ASSUME NEW k \in Tasks, Collect(k) PROVE PoolInv'
  BY <1>4, CollectKeepsPool
<1>5. ASSUME NEW k \in Tasks, Drop(k) PROVE PoolInv'
  BY <1>5, DropKeepsPool
<1>6. ASSUME NEW k \in Tasks, Propagate(k) PROVE PoolInv'
  BY <1>6, PropagateKeepsPool
<1>7. ASSUME NEW k \in Tasks, SeeLateAnswer(k) \/ DrainSibling(k) PROVE PoolInv'
  <2>1. /\ UNCHANGED <<Rounds, slot, gathered>>
        /\ phase \in {"waiting", "draining"} /\ phase' \in {"waiting", "draining"}
    BY <1>7 DEF SeeLateAnswer, DrainSibling, Waiting, Rounds
  <2> QED
    BY <2>1, PoolStays
<1> QED
  BY <1>1, <1>2, <1>3, <1>4, <1>5, <1>6, <1>7 DEF Collector

-----------------------------------------------------------------------------
(* Closing and judging a round.                                            *)

\* No round is in the pool while one is closed or judged.
LEMMA PoolIsIdle ==
  ASSUME PoolInv, pc \in {"close"} \cup Judging
  PROVE  phase = "idle" /\ slot = <<>>
BY DEF PoolInv, PoolTyped, Pooled, Judging

LEMMA CloseKeepsPool == PoolInv /\ CloseRound => RoundsInv' \/ ~UNCHANGED pool
<1> SUFFICES ASSUME PoolInv, CloseRound, UNCHANGED pool PROVE RoundsInv'
  OBVIOUS
<1>1. /\ pc = "close" /\ results \in Seq(Positional) /\ Len(results) >= MinQuorum
      /\ Ascending(results) /\ Len(transcript) = round /\ transcript \in Seq(Seq(Positional))
      /\ phase = "idle"
  BY PoolIsIdle DEF CloseRound, PoolInv, PoolTyped, OpenQuorum
<1>2. /\ pc' = "judge" /\ current' = results /\ results' = <<>> /\ round' = round
      /\ transcript' = Append(transcript, results) /\ result' = result /\ phase' = phase
  BY DEF CloseRound, Goto, pool
<1>3. /\ transcript' \in Seq(Seq(Positional)) /\ Len(transcript') = Len(transcript) + 1
      /\ transcript'[Len(transcript')] = results /\ transcript' # <<>>
  BY <1>1, <1>2, AppendProperties, LenProperties, EmptySeq
<1>4. PoolTyped'
  BY <1>1, <1>2, <1>3, EmptySeq DEF PoolInv, PoolTyped, Judging
<1>5. CurrentIsQuorum'
  BY <1>1, <1>2, <1>3 DEF CurrentIsQuorum, Ascending
<1>6. OpenQuorum' /\ ClosedRound'
  BY <1>1, <1>2, <1>3 DEF OpenQuorum, ClosedRound
<1> QED
  BY <1>4, <1>5, <1>6 DEF RoundsInv

LEMMA JudgeKeepsPool == PoolInv /\ JudgeRound /\ UNCHANGED pool => RoundsInv'
<1> SUFFICES ASSUME PoolInv, JudgeRound, UNCHANGED pool PROVE RoundsInv'
  OBVIOUS
<1>0. phase' \in Phases /\ RoundsInv
  BY DEF pool, PoolInv, RoundsInv, PoolTyped, Phases
<1>1. CASE OverBudget
  <2>1. pc' = "done" \/ ~OverBudget
    BY DEF JudgeRound, Abort, Finish, Goto
  <2> QED BY <1>0, <1>1, <2>1, EndOfRounds DEF JudgeRound
<1>2. CASE ~OverBudget
  <2>1. /\ pc = "judge" /\ UNCHANGED <<round, current, results, transcript, result, raw>>
        /\ pc' = IF Unanimous(current) THEN "agree"
                 ELSE IF round < MaxRounds THEN "head" ELSE "finish"
    BY <1>2 DEF JudgeRound, Goto
  <2>2. round \in 0..MaxRounds
    BY DEF PoolInv, PoolTyped
  <2>3. /\ pc' = "agree" => Unanimous(current)
        /\ pc' = "head" => ~Unanimous(current) /\ round < MaxRounds
        /\ pc' = "finish" => ~Unanimous(current) /\ round = MaxRounds
        /\ pc' \in {"agree", "head", "finish"}
    BY <2>1, <2>2, CountsAreNaturals
  <2>4. PoolTyped' /\ CurrentIsQuorum'
    BY <1>0, <2>1, <2>3 DEF PoolInv, PoolTyped, Phases, Judging, CurrentIsQuorum, Ascending
  <2>5. Unanimous(current)' = Unanimous(current)
    BY <2>1
  <2>6. OpenQuorum' /\ ClosedRound'
    BY <2>1, <2>3, <2>5 DEF PoolInv, OpenQuorum, ClosedRound, Judging
  <2> QED BY <2>4, <2>6 DEF RoundsInv
<1> QED BY <1>1, <1>2

LEMMA HeadKeepsPool == PoolInv /\ NextRound /\ UNCHANGED pool => RoundsInv'
<1> SUFFICES ASSUME PoolInv, NextRound, UNCHANGED pool PROVE RoundsInv'
  OBVIOUS
<1>0. phase' \in Phases /\ RoundsInv
  BY DEF pool, PoolInv, RoundsInv, PoolTyped, Phases
<1>1. CASE expired
  BY <1>0, <1>1, EndOfRounds DEF NextRound, Abort, Finish, Goto
<1>2. CASE ~expired
  <2>1. /\ pc = "head" /\ pc' = "before" /\ round' = round + 1
        /\ UNCHANGED <<current, results, transcript, result>>
    BY <1>2 DEF NextRound, Goto
  <2>2. /\ Len(transcript) = round + 1 /\ results = <<>>
        /\ ~Unanimous(current) /\ round < MaxRounds /\ round \in Nat
    <3>1. round \in 0..MaxRounds
      BY DEF PoolInv, PoolTyped
    <3>2. round \in Nat
      BY <3>1, CountsAreNaturals
    <3> QED
      BY <2>1, <3>2 DEF PoolInv, ClosedRound, Judging
  <2>3. PoolTyped'
    <3>1. round' \in 0..MaxRounds
      BY <2>1, <2>2, CountsAreNaturals
    <3> QED
      BY <1>0, <2>1, <3>1 DEF PoolInv, PoolTyped, Phases
  <2>5. CurrentIsQuorum' /\ ClosedRound'
    BY <2>1, <2>2 DEF PoolInv, CurrentIsQuorum, ClosedRound, Judging, Ascending
  <2>4. OpenQuorum'
    BY <2>1, <2>2, CountsAreNaturals, EmptySeq DEF OpenQuorum
  <2> QED BY <2>3, <2>4, <2>5 DEF RoundsInv
<1> QED BY <1>1, <1>2

LEMMA DecideKeepsPool == PoolInv /\ Decide => PoolInv'
<1> SUFFICES ASSUME PoolInv, Decide PROVE PoolInv'
  OBVIOUS
<1>1. /\ UNCHANGED pool /\ phase' = "idle" /\ slot' = <<>>
      /\ pc \in {"close"} \cup Judging
  BY PoolIsIdle
     DEF Decide, pool, CloseRound, JudgeRound, NextRound, Agree, Disagree, Judging
<1>2. RoundsInv'
  <2>1. CASE Agree \/ Disagree
    BY <1>1, <2>1, EndOfRounds, PoolOfRounds DEF Agree, Disagree, Abort, Finish, Goto, Phases
  <2> QED
    BY <1>1, <2>1, CloseKeepsPool, JudgeKeepsPool, HeadKeepsPool DEF Decide
<1>3. Pooled'
  BY <1>1, IdlePool
<1> QED
  BY <1>2, <1>3 DEF PoolInv, RoundsInv

LEMMA NextPool == PoolInv /\ [ParallelNext]_parallelVars => PoolInv'
<1> SUFFICES ASSUME PoolInv, [ParallelNext]_parallelVars PROVE PoolInv'
  OBVIOUS
<1>1. CASE Collector
  BY <1>1, CollectorKeepsPool
<1>2. CASE Decide
  BY <1>2, DecideKeepsPool
<1>3. CASE Threads
  BY <1>3, ThreadsKeepPool
<1>4. CASE ((Tick \/ Finished) /\ UNCHANGED pool) \/ UNCHANGED parallelVars
  <2>1. UNCHANGED Rounds /\ UNCHANGED pool
    BY <1>4 DEF Tick, Finished, parallelVars, vars, debate, Rounds
  <2>2. RoundsInv'
    BY <2>1, SameRounds, PoolOfRounds DEF pool, PoolInv, PoolTyped, Phases
  <2>3. Count' = Count /\ pc' = pc /\ \A j, p : Placed(j, p)' <=> Placed(j, p)
    BY <2>1 DEF Count, Placed, AgentOf, Rounds
  <2>4. /\ phase' = phase /\ slot' = slot /\ gathered' = gathered
        /\ Pooled
    BY <2>1 DEF PoolInv, pool
  <2>5. /\ Count' = Count /\ pc' = pc /\ round' = round /\ current' = current
    BY <2>1, <2>3 DEF Rounds
  <2>6. PoolInUse' <=> PoolInUse
    BY <2>4 DEF PoolInUse
  <2>7. Pooled'
    BY <2>4, <2>5, <2>6, Zenon DEF Pooled, Placed, AgentOf
  <2> QED
    BY <2>2, <2>7 DEF PoolInv, RoundsInv
<1> QED
  BY <1>1, <1>2, <1>3, <1>4 DEF ParallelNext

-----------------------------------------------------------------------------
(* The honest debate with a quorum.                                        *)

LEMMA OpenQuorumDebate ==
  ASSUME PoolInv, pc # "done"
  PROVE  Outcome = ParallelHonest!Open
<1>1. result = Pending
  BY DEF PoolInv, PoolTyped
<1> QED
  BY <1>1 DEF Pending, Outcome, Returned, ParallelHonest!Open

LEMMA LastQuorumIsCurrent ==
  ASSUME PoolInv
  PROVE  ParallelHonest!LastRound = current
BY DEF PoolInv, CurrentIsQuorum, ParallelHonest!LastRound, ParallelHonest!Last

LEMMA QuorumsCompleted ==
  ASSUME PoolInv
  PROVE  /\ pc \in {"before", "close"} => RoundsBefore = ParallelHonest!Completed
         /\ pc \in Judging => round = ParallelHonest!Completed
<1>1. round \in 0..MaxRounds /\ transcript \in Seq(Seq(Positional))
  BY DEF PoolInv, PoolTyped
<1>2. transcript = <<>> <=> Len(transcript) = 0
  BY <1>1, EmptySeq, LenProperties
<1>3. round \in Nat
  BY <1>1, CountsAreNaturals
<1>4. /\ pc \in {"before", "close"} => Len(transcript) = round
      /\ pc \in Judging => Len(transcript) = round + 1
  BY DEF PoolInv, OpenQuorum, ClosedRound
<1> QED
  BY <1>2, <1>3, <1>4 DEF RoundsBefore, ParallelHonest!Completed

LEMMA QuorumAbortIsHonest ==
  ASSUME PoolInv, pc # "done", NEW tokens, Abort(tokens, ParallelHonest!Completed),
         UNCHANGED transcript
  PROVE  ParallelHonest!Abort
<1>1. Outcome = ParallelHonest!Open
  BY OpenQuorumDebate
<1>2. Outcome' = [status |-> "aborted", decision |-> NoStance, dissent |-> current,
                  majority |-> NoStance, completed |-> ParallelHonest!Completed]
  BY FinishOutcome DEF Abort
<1> QED
  BY <1>1, <1>2, LastQuorumIsCurrent DEF ParallelHonest!Abort, ParallelHonest!Conclude

LEMMA QuorumRaiseIsHonest ==
  ASSUME PoolInv, pc # "done", Raise("adapter_error") \/ Raise("protocol_error"),
         UNCHANGED transcript
  PROVE  ParallelHonest!Fail
<1>1. Outcome = ParallelHonest!Open
  BY OpenQuorumDebate
<1>2. Outcome' = [status |-> "failed", decision |-> NoStance, dissent |-> <<>>,
                  majority |-> NoStance, completed |-> 0]
  BY DEF Raise, Outcome, Returned
<1> QED
  BY <1>1, <1>2 DEF ParallelHonest!Fail, ParallelHonest!Open

\* The last closed round has its quorum.
LEMMA QuorumOfCurrent ==
  ASSUME PoolInv, transcript # <<>>
  PROVE  /\ current = transcript[Len(transcript)] /\ current # <<>>
         /\ current \in Seq(Positional) /\ Len(current) \in Nat
         /\ DOMAIN current = 1..Len(current) /\ 1 \in DOMAIN current
         /\ \A k \in DOMAIN current : current[k].stance \in Stances
<1>1. /\ current = transcript[Len(transcript)] /\ current \in Seq(Positional)
      /\ Len(current) >= MinQuorum
  BY DEF PoolInv, PoolTyped, CurrentIsQuorum
<1>2. DOMAIN current = 1..Len(current) /\ Len(current) \in Nat
  BY <1>1, LenProperties
<1>3. 1 \in 1..Len(current) /\ current # <<>>
  BY <1>1, <1>2, QuorumIsNatural, EmptySeq
<1>4. ASSUME NEW k \in 1..Len(current) PROVE current[k].stance \in Stances
  <2>1. current[k] \in Positional
    BY <1>1, ElementOfSeq
  <2> QED
    BY <2>1 DEF Positional
<1> QED
  BY <1>1, <1>2, <1>3, <1>4

LEMMA QuorumAgreement ==
  ASSUME PoolInv
  PROVE  /\ Unanimous(current) => current[1].stance \in ParallelHonest!AgreedOn
         /\ ~Unanimous(current) => ParallelHonest!AgreedOn = {}
<1>1. CASE transcript = <<>>
  BY <1>1 DEF PoolInv, CurrentIsQuorum, Unanimous, ParallelHonest!AgreedOn
<1>2. CASE transcript # <<>>
  <2>1. /\ current = transcript[Len(transcript)] /\ current # <<>>
        /\ 1 \in DOMAIN current
        /\ \A k \in DOMAIN current : current[k].stance \in Stances
    BY <1>2, QuorumOfCurrent
  <2>2. ParallelHonest!AgreedOn =
          {stance \in Stances :
             /\ Norm[stance] # EmptyNorm
             /\ \A k \in DOMAIN current : Norm[current[k].stance] = Norm[stance]
             /\ \E k \in DOMAIN current : current[k].stance = stance}
    BY <1>2, <2>1 DEF ParallelHonest!AgreedOn
  <2>3. ASSUME Unanimous(current) PROVE current[1].stance \in ParallelHonest!AgreedOn
    BY <2>1, <2>2, <2>3 DEF Unanimous, SameStance
  <2>4. ASSUME NEW stance \in ParallelHonest!AgreedOn PROVE Unanimous(current)
    <3>1. \A k \in DOMAIN current :
            Norm[current[k].stance] = Norm[stance] /\ Norm[stance] # EmptyNorm
      BY <2>2, <2>4
    <3> QED
      BY <2>1, <3>1 DEF Unanimous, SameStance
  <2> QED
    BY <2>3, <2>4
<1> QED
  BY <1>1, <1>2

LEMMA QuorumAgreeIsHonest ==
  ASSUME PoolInv, Agree
  PROVE  ParallelHonest!Agree \/ ParallelHonest!Abort
<1>1. pc = "agree" /\ UNCHANGED transcript /\ round = ParallelHonest!Completed
  BY QuorumsCompleted DEF Agree, Judging
<1>2. CASE expired
  BY <1>1, <1>2, QuorumAbortIsHonest DEF Agree
<1>3. CASE ~expired
  <2>1. Outcome' = [status |-> "unanimous", decision |-> current[1].stance,
                    dissent |-> <<>>, majority |-> NoStance, completed |-> round]
    BY <1>3, FinishOutcome DEF Agree
  <2>2. Outcome = ParallelHonest!Open
    BY <1>1, OpenQuorumDebate
  <2>3. current[1].stance \in ParallelHonest!AgreedOn
    BY <1>1, QuorumAgreement DEF PoolInv, ClosedRound, Judging
  <2> QED
    BY <1>1, <2>1, <2>2, <2>3 DEF ParallelHonest!Agree, ParallelHonest!Conclude
<1> QED
  BY <1>2, <1>3

LEMMA SameCount == \A S : Cardinality(S) = ParallelHonest!Cardinality(S)
BY DEF Cardinality, ParallelHonest!Cardinality

LEMMA QuorumMajorityIsHonest ==
  ASSUME PoolInv, transcript # <<>>
  PROVE  MajorityStance(current) \in ParallelHonest!Majorities
<1> DEFINE ofMajority == {k \in DOMAIN current :
                            2 * Cardinality(Holders(current, k)) > Len(current)}
<1>1. DOMAIN current = 1..Len(current) /\ Len(current) \in Nat
  BY QuorumOfCurrent
<1>2. \A k \in DOMAIN current :
        k \in ofMajority <=> ParallelHonest!HasMajority(current[k].stance)
  <2> TAKE k \in DOMAIN current
  <2>1. Holders(current, k) =
          {j \in DOMAIN current : Norm[current[j].stance] = Norm[current[k].stance]}
    BY DEF Holders, SameStance
  <2>2. ParallelHonest!HasMajority(current[k].stance) <=>
          2 * Cardinality(Holders(current, k)) > Len(current)
    BY <2>1, LastQuorumIsCurrent, SameCount DEF ParallelHonest!HasMajority
  <2> QED
    BY <2>2
<1>3. ParallelHonest!Majorities =
        IF \E k \in DOMAIN current : ParallelHonest!HasMajority(current[k].stance)
        THEN {stance \in {current[k].stance : k \in DOMAIN current} :
                ParallelHonest!HasMajority(stance)}
        ELSE {NoStance}
  <2>1. ParallelHonest!LastRound = current
    BY LastQuorumIsCurrent
  <2>2. (\E stance \in {current[k].stance : k \in DOMAIN current} :
           ParallelHonest!HasMajority(stance))
          <=> \E k \in DOMAIN current : ParallelHonest!HasMajority(current[k].stance)
    OBVIOUS
  <2> QED
    BY <2>1, <2>2 DEF ParallelHonest!Majorities
<1>4. CASE ofMajority = {}
  <2>1. MajorityStance(current) = NoStance
    BY <1>4 DEF MajorityStance
  <2> QED
    BY <1>2, <1>3, <1>4, <2>1
<1>5. CASE ofMajority # {}
  <2> DEFINE first == CHOOSE k \in ofMajority : \A j \in ofMajority : k <= j
  <2>1. first \in ofMajority
    <3>1. ofMajority \in SUBSET Nat
      BY <1>1
    <3>2. \E k \in ofMajority : \A j \in ofMajority : k <= j
      <4> HIDE DEF ofMajority
      <4> QED
        BY <1>5, <3>1, LeastNatural
    <3> QED
      BY <3>2
  <2>2. MajorityStance(current) = current[first].stance
    BY <1>5 DEF MajorityStance
  <2>3. first \in DOMAIN current /\ ParallelHonest!HasMajority(current[first].stance)
    BY <1>2, <2>1
  <2> QED
    BY <1>3, <2>2, <2>3
<1> QED
  BY <1>4, <1>5

LEMMA QuorumDisagreeIsHonest ==
  ASSUME PoolInv, Disagree
  PROVE  ParallelHonest!Disagree \/ ParallelHonest!Abort
<1>1. pc = "finish" /\ UNCHANGED transcript /\ round = ParallelHonest!Completed
  BY QuorumsCompleted DEF Disagree, Judging
<1>2. CASE expired
  BY <1>1, <1>2, QuorumAbortIsHonest DEF Disagree
<1>3. CASE ~expired
  <2>1. Outcome' = [status |-> "no_consensus", decision |-> NoStance, dissent |-> current,
                    majority |-> MajorityStance(current), completed |-> round]
    BY <1>3, FinishOutcome DEF Disagree
  <2>2. Outcome = ParallelHonest!Open
    BY <1>1, OpenQuorumDebate
  <2>3. /\ Len(transcript) = MaxRounds + 1 /\ ~Unanimous(current)
        /\ transcript # <<>> /\ ParallelHonest!AgreedOn = {}
    <3>1. Len(transcript) = MaxRounds + 1 /\ ~Unanimous(current)
      BY <1>1 DEF PoolInv, ClosedRound, Judging
    <3>2. transcript # <<>>
      BY <3>1, CountsAreNaturals, EmptySeq
    <3> QED
      BY <3>1, <3>2, QuorumAgreement
  <2>4. MajorityStance(current) \in ParallelHonest!Majorities
    BY <2>3, QuorumMajorityIsHonest
  <2> QED
    BY <1>1, <2>1, <2>2, <2>3, <2>4, LastQuorumIsCurrent
       DEF ParallelHonest!Disagree, ParallelHonest!Conclude
<1> QED
  BY <1>2, <1>3

LEMMA QuorumCloseIsHonest ==
  ASSUME PoolInv, CloseRound
  PROVE  ParallelHonest!CloseRound
<1>1. /\ pc = "close" /\ results \in Seq(Positional) /\ Len(results) >= MinQuorum
      /\ Ascending(results) /\ Follows(results)
      /\ Len(transcript) = round /\ round \in 0..MaxRounds
      /\ transcript \in Seq(Seq(Positional))
  BY DEF CloseRound, PoolInv, PoolTyped, OpenQuorum
<1>2. transcript' = Append(transcript, results) /\ result' = result
  BY DEF CloseRound
<1>3. /\ Len(transcript') = Len(transcript) + 1 /\ Len(transcript) \in Nat
      /\ transcript'[Len(transcript')] = results /\ transcript' \in Seq(Seq(Positional))
      /\ \A k \in 1..Len(transcript) : transcript'[k] = transcript[k]
  BY <1>1, <1>2, AppendProperties, LenProperties
<1>4. SubSeq(transcript', 1, Len(transcript)) = transcript
  <2> DEFINE front == SubSeq(transcript', 1, Len(transcript))
  <2>1. \A k \in 1..Len(transcript) : transcript'[k] \in Seq(Positional)
    BY <1>1, <1>3, ElementOfSeq
  <2>2. /\ front \in Seq(Seq(Positional)) /\ Len(front) = Len(transcript)
        /\ \A k \in 1..Len(transcript) : front[k] = transcript'[k]
    BY <1>3, <2>1, SubSeqProperties
  <2> QED
    BY <1>1, <1>3, <2>2, SeqEqual
<1>5. Outcome = ParallelHonest!Open /\ UNCHANGED Outcome
  BY <1>1, <1>2, OpenQuorumDebate DEF Outcome, Returned
<1>6. ParallelHonest!AgreedOn = {}
  BY <1>1, QuorumAgreement DEF PoolInv, CurrentIsQuorum, ParallelHonest!AgreedOn
<1>7. ParallelHonest!Admissible(results)
  <2>1. CASE transcript = <<>>
    <3>1. \A k \in DOMAIN results : results[k] \in Positional
      BY <1>1, ElementOfSeq, LenProperties
    <3>2. \A k \in DOMAIN results : results[k].agent \in 1..AgentsCount
      BY <3>1 DEF Positional
    <3> QED
      BY <1>1, <2>1, <3>2 DEF Ascending, ParallelHonest!Admissible, ParallelHonest!AgentsOf
  <2>2. CASE transcript # <<>>
    <3>1. current = transcript[Len(transcript)]
      BY <2>2, QuorumOfCurrent
    <3>2. round > 0
      BY <1>1, <1>3, <2>2, EmptySeq
    <3>3. ASSUME NEW k \in DOMAIN results
          PROVE  \E j \in DOMAIN current :
                   /\ current[j].agent = results[k].agent
                   /\ ~ParallelHonest!SameStance(current[j], results[k])
                        => results[k].conceded
      <4>1. PICK j \in DOMAIN current :
              /\ current[j].agent = results[k].agent
              /\ SameStance(current[j], results[k]) \/ results[k].conceded
        BY <1>1, <3>2 DEF Follows
      <4> QED
        BY <4>1 DEF SameStance, ParallelHonest!SameStance
    <3> QED
      BY <1>1, <2>2, <3>1, <3>3 DEF Ascending, ParallelHonest!Admissible
  <2> QED
    BY <2>1, <2>2
<1>8. Len(transcript) <= MaxRounds
  BY <1>1, CountsAreNaturals
<1> QED
  BY <1>3, <1>4, <1>5, <1>6, <1>7, <1>8 DEF ParallelHonest!CloseRound

\* Judging a round is honest, whoever takes part in it.
LEMMA DecideIsHonest ==
  ASSUME PoolInv, Decide
  PROVE  ParallelHonest!Next \/ UNCHANGED <<transcript, Outcome>>
<1> USE DEF ParallelHonest!Next
<1>1. CASE CloseRound
  BY <1>1, QuorumCloseIsHonest
<1>2. CASE JudgeRound
  <2>1. CASE OverBudget
    BY <1>2, <2>1, QuorumAbortIsHonest, QuorumsCompleted DEF JudgeRound, Judging
  <2>2. CASE ~OverBudget
    BY <1>2, <2>2 DEF JudgeRound, Outcome, Returned
  <2> QED
    BY <2>1, <2>2
<1>3. CASE NextRound
  <2>1. CASE expired
    BY <1>3, <2>1, QuorumAbortIsHonest, QuorumsCompleted DEF NextRound, Judging
  <2>2. CASE ~expired
    BY <1>3, <2>2 DEF NextRound, Outcome, Returned
  <2> QED
    BY <2>1, <2>2
<1>4. CASE Agree \/ Disagree
  BY <1>4, QuorumAgreeIsHonest, QuorumDisagreeIsHonest
<1> QED
  BY <1>1, <1>2, <1>3, <1>4 DEF Decide

\* The collector concludes a debate by aborting it or raising, and else nothing.
LEMMA CollectorIsHonest ==
  ASSUME PoolInv, Collector
  PROVE  ParallelHonest!Next \/ UNCHANGED <<transcript, Outcome>>
<1> USE DEF ParallelHonest!Next
<1>1. CASE Drained \/ LoseQuorum
  <2>1. /\ Abort(0, RoundsBefore) /\ UNCHANGED transcript
        /\ phase \in {"waiting", "draining"}
    BY <1>1 DEF Drained, LoseQuorum, Gathered
  <2>2. pc = "before"
    BY <2>1 DEF PoolInv, Pooled
  <2> QED
    BY <2>1, <2>2, QuorumAbortIsHonest, QuorumsCompleted
<1>2. ASSUME NEW k \in Tasks, Propagate(k) PROVE ParallelHonest!Next
  <2>1. phase = "waiting" /\ slot[k].state = "error" /\ Raise(slot[k].error)
        /\ UNCHANGED transcript
    BY <1>2 DEF Propagate, Waiting, debate
  <2>2. slot[k] \in Futures /\ pc = "before"
    BY <2>1, OpenPool DEF PoolInv, Pooled
  <2>3. slot[k].error \in {"protocol_error", "adapter_error"}
    BY <2>1, <2>2, FutureKinds
  <2> QED
    BY <2>1, <2>2, <2>3, QuorumRaiseIsHonest
<1>3. CASE Submit \/ KeepQuorum
  BY <1>3 DEF Submit, KeepQuorum, vars, debate, Outcome, Returned
<1>4. ASSUME NEW k \in Tasks,
             Collect(k) \/ Drop(k) \/ SeeLateAnswer(k) \/ DrainSibling(k)
      PROVE  UNCHANGED <<transcript, Outcome>>
  BY <1>4
     DEF Collect, Drop, SeeLateAnswer, DrainSibling, vars, debate, Outcome, Returned
<1> QED
  BY <1>1, <1>2, <1>3, <1>4 DEF Collector

\* With agents that hang, fail or answer late the engine still implements the
\* honest debate: a round is closed with a quorum of positions in the order of
\* the agents, nobody who dropped out comes back, and no verdict is fabricated.
THEOREM HonestDebateWithQuorumIsImplemented ==
  ParallelSpec => ImplementsHonestDebateWithQuorum
<1>1. ParallelInit => ParallelHonest!Init
  BY DEF ParallelInit, Init, ParallelHonest!Init, ParallelHonest!Open, Outcome, Returned,
         Pending
<1>2. PoolInv /\ [ParallelNext]_parallelVars =>
        [ParallelHonest!Next]_<<transcript, Outcome>>
  <2> SUFFICES ASSUME PoolInv, [ParallelNext]_parallelVars
               PROVE  ParallelHonest!Next \/ UNCHANGED <<transcript, Outcome>>
    OBVIOUS
  <2>1. CASE Collector
    BY <2>1, CollectorIsHonest
  <2>2. CASE Decide
    BY <2>2, DecideIsHonest
  <2>3. CASE Threads
    BY <2>3 DEF Threads, Start, Return, ReturnError, vars, debate, Outcome, Returned
  <2>4. CASE (Tick \/ Finished) \/ UNCHANGED parallelVars
    BY <2>4 DEF Tick, Finished, parallelVars, vars, debate, Outcome, Returned
  <2> QED
    BY <2>1, <2>2, <2>3, <2>4 DEF ParallelNext
<1> QED
  BY <1>1, <1>2, InitPool, NextPool, PTL
     DEF ParallelSpec, ImplementsHonestDebateWithQuorum, ParallelHonest!HonestSpec

-----------------------------------------------------------------------------
(* The tokens of the snapshot.                                             *)

LEMMA ClosedTokensType ==
  ASSUME PoolInv
  PROVE  ClosedTokens = TokensOfRounds(transcript) /\ ClosedTokens \in Nat
<1>1. transcript \in Seq(Seq(Positional))
  BY DEF PoolInv, PoolTyped
<1>2. ClosedTokens = TokensOfRounds(transcript)
  BY DEF ClosedTokens
<1> QED
  BY <1>1, <1>2, TokensOfRoundsType

\* They change with the closed rounds only.
LEMMA ClosedTokensKept ==
  ASSUME transcript' = transcript
  PROVE  ClosedTokens' = ClosedTokens
BY DEF ClosedTokens

LEMMA OpenTokensType ==
  ASSUME PoolInv
  PROVE  TokensOf(results) \in Nat
<1>1. results \in Seq(Positional)
  BY DEF PoolInv, PoolTyped
<1> QED
  BY <1>1, PositionsArePriced, TokensOfType

LEMMA InitSnapshot == ParallelInit => SnapshotInv
<1> SUFFICES ASSUME ParallelInit PROVE SnapshotInv
  OBVIOUS
<1>1. PoolInv
  BY InitPool
<1>2. ClosedTokens = 0 /\ TokensOf(results) = 0
  BY <1>1, ClosedTokensType, NoRoundIsFree, TokensOfNone DEF ParallelInit, Init
<1>3. Booked
  BY <1>2 DEF ParallelInit, Init, Booked
<1>4. Snapshot
  BY DEF ParallelInit, Snapshot
<1> QED
  BY <1>1, <1>3, <1>4 DEF SnapshotInv

\* All the engine has counted was billed.
LEMMA BookedWasBilled ==
  ASSUME SnapshotInv
  PROVE  spent <= billed
<1>1. PoolInv /\ Booked /\ Snapshot
  BY DEF SnapshotInv
<1>2. /\ ClosedTokens \in Nat /\ TokensOf(results) \in Nat /\ SumOf(Weight, Tasks) \in Nat
      /\ spent \in Nat /\ billed \in Nat
  BY <1>1, ClosedTokensType, OpenTokensType, WeightType DEF Booked
<1>3. CASE pc = "done"
  BY <1>1, <1>3 DEF Booked
<1>4. CASE pc # "done" /\ phase = "idle"
  BY <1>1, <1>2, <1>4 DEF Booked
<1>5. CASE phase = "waiting" /\ pc # "done"
  BY <1>1, <1>2, <1>5 DEF Booked
<1>6. CASE phase = "draining"
  <2>1. proven \ drain \in SUBSET Tasks
    BY <1>1, <1>6 DEF Snapshot
  <2>2. SumOf(Weight, proven \ drain) \in Nat
        /\ SumOf(Weight, proven \ drain) <= SumOf(Weight, Tasks)
    BY <1>1, <2>1, WeightType
  <2>3. /\ spent = ClosedTokens + SumOf(Weight, proven \ drain)
        /\ ClosedTokens + SumOf(Weight, Tasks) <= billed
    BY <1>1, <1>6 DEF Booked, Snapshot
  <2> QED
    BY <1>2, <2>2, <2>3
<1>7. phase \in {"idle", "waiting", "draining"} \/ pc = "done"
  BY <1>1 DEF PoolInv, PoolTyped, Pooled
<1> QED
  BY <1>3, <1>4, <1>5, <1>6, <1>7

Accounts == <<spent, billed, transcript>>

\* A future that is not done is replaced by one that weighs no more than what was
\* billed for it.
LEMMA ThreadMoves ==
  ASSUME SnapshotInv, phase \in {"waiting", "draining"}, pc = "before",
         UNCHANGED <<pc, phase, spent, transcript, results, drain, completed, proven>>,
         NEW k \in Tasks, ~Done(k), NEW future \in Futures,
         NEW paid \in Nat, billed' = billed + paid,
         future.state = "late" => future.tokens = paid,
         future.state = "position" => future.position.tokens = paid,
         slot' = [slot EXCEPT ![k] = future]
  PROVE  Booked' /\ Snapshot'
<1>1. PoolInv /\ Booked /\ Snapshot
  BY DEF SnapshotInv
<1>2. Tasks = 1..Count /\ slot \in [1..Count -> Futures] /\ IsFiniteSet(Tasks)
  BY <1>1, OpenPool, TasksAre
<1>3. /\ Tasks' = Tasks /\ slot'[k] = future
      /\ \A j \in Tasks : j # k => slot'[j] = slot[j]
  BY <1>2 DEF Tasks
<1>4. Weight[k] = 0
  BY DEF Weight, Done
<1>5. Weight'[k] \in Nat /\ Weight'[k] <= paid
  BY <1>3 DEF Weight
<1>6. \A j \in Tasks : j # k => Weight'[j] = Weight[j]
  BY <1>3 DEF Weight
<1>7. Weights(Weight, Tasks) /\ SumOf(Weight, Tasks) \in Nat
  BY <1>1, WeightType
<1>8. Weights(Weight', Tasks)
  <2>1. \A j \in Tasks : Weight[j] \in Nat
    BY <1>7 DEF Weights
  <2>2. \A j \in Tasks : Weight'[j] \in Nat
    BY <1>5, <1>6, <2>1
  <2> QED
    BY <2>2 DEF Weights
<1>9. /\ SumOf(Weight', Tasks) = Weight'[k] + SumOf(Weight', Tasks \ {k})
      /\ SumOf(Weight, Tasks) = Weight[k] + SumOf(Weight, Tasks \ {k})
  <2>1. SumOf(Weight, Tasks) = Weight[k] + SumOf(Weight, Tasks \ {k})
    BY <1>2, <1>7, SumWithout
  <2>2. IsFiniteSet(Tasks) /\ Weights(Weight', Tasks) /\ k \in Tasks
    BY <1>2, <1>8
  <2>3. SumOf(Weight', Tasks) = Weight'[k] + SumOf(Weight', Tasks \ {k})
    BY ONLY <2>2, SumWithout
  <2> QED
    BY <2>1, <2>3
<1>10. ASSUME NEW S \in SUBSET (Tasks \ {k})
       PROVE  SumOf(Weight', S) = SumOf(Weight, S)
  <2>1. IsFiniteSet(S) /\ Weights(Weight, S)
    BY <1>1, WeightType
  <2>2. \A j \in S : Weight[j] = Weight'[j]
    BY <1>6
  <2> QED
    BY <2>1, <2>2, SumOfEqualWeights
<1>11. SumOf(Weight', Tasks') \in Nat
       /\ SumOf(Weight', Tasks') <= SumOf(Weight, Tasks) + paid
  <2>1. SumOf(Weight', Tasks \ {k}) = SumOf(Weight, Tasks \ {k})
        /\ SumOf(Weight, Tasks \ {k}) \in Nat
    BY <1>1, <1>10, WeightType
  <2>2. SumOf(Weight', Tasks) \in Nat /\ SumOf(Weight', Tasks) <= SumOf(Weight, Tasks) + paid
    BY <1>4, <1>5, <1>7, <1>9, <2>1
  <2> QED
    BY <1>3, <2>2
<1>12. Booked'
  <2>1. ClosedTokens' = ClosedTokens /\ ClosedTokens \in Nat
    BY <1>1, ClosedTokensType, ClosedTokensKept
  <2>2. ClosedTokens + SumOf(Weight, Tasks) <= billed /\ billed \in Nat
    BY <1>1 DEF Booked
  <2>3. ClosedTokens' + SumOf(Weight', Tasks') <= billed'
    BY <1>7, <1>11, <2>1, <2>2
  <2>4. phase # "draining" => spent = ClosedTokens
    BY <1>1 DEF Booked
  <2>5. spent' \in Nat /\ billed' \in Nat /\ pc' = "before"
    BY <1>1 DEF Booked
  <2> QED
    BY <2>1, <2>3, <2>4, <2>5 DEF Booked
<1>13. Snapshot'
  <2>1. CASE phase = "waiting"
    BY <2>1 DEF Snapshot
  <2>2. CASE phase = "draining"
    <3>1. /\ \A j \in proven : j \in Tasks /\ Proven(j)
          /\ \A j \in drain : j \in Tasks /\ Done(j) /\ (Proven(j) <=> j \in proven)
          /\ spent = ClosedTokens + SumOf(Weight, proven \ drain)
          /\ completed = Cardinality(proven \ drain)
      BY <1>1, <2>2 DEF Snapshot
    <3>2. k \notin proven /\ k \notin drain
      BY <3>1 DEF Done, Proven
    <3>3. \A j \in Tasks : j # k => /\ Proven(j)' <=> Proven(j)
                                   /\ Done(j)' <=> Done(j)
      BY <1>3 DEF Proven, Done
    <3>4. SumOf(Weight', proven \ drain) = SumOf(Weight, proven \ drain)
      BY <1>10, <3>1, <3>2
    <3>5. /\ \A j \in proven : j \in Tasks' /\ Proven(j)'
          /\ \A j \in drain : j \in Tasks' /\ Done(j)' /\ (Proven(j)' <=> j \in proven)
      <4>1. \A j \in proven : j \in Tasks /\ j # k
        BY <3>1, <3>2
      <4>2. \A j \in drain : j \in Tasks /\ j # k
        BY <3>1, <3>2
      <4>3. Tasks' = Tasks
        BY <1>3
      <4>4. \A j \in proven : j \in Tasks' /\ Proven(j)'
        <5> SUFFICES ASSUME NEW j \in proven PROVE j \in Tasks' /\ Proven(j)'
          OBVIOUS
        <5>1. j \in Tasks /\ j # k /\ Proven(j)
          BY <3>1, <4>1
        <5>2. Proven(j)'
          BY <3>3, <5>1 DEF Proven
        <5> QED
          BY <4>3, <5>1, <5>2
      <4>5. \A j \in drain : j \in Tasks' /\ Done(j)'
        BY <3>1, <3>3, <4>2, <4>3
      <4>6. \A j \in drain : Proven(j)' <=> j \in proven
        BY <3>1, <3>3, <4>2, Zenon
      <4> QED
        BY <4>4, <4>5, <4>6
    <3>6. ClosedTokens' = ClosedTokens
      BY ClosedTokensKept
    <3>7. phase' = "draining" /\ drain' = drain /\ proven' = proven /\ spent' = spent
          /\ completed' = completed
      BY <2>2
    <3>8. SumOf(Weight, proven \ drain)' = SumOf(Weight, proven \ drain)
      BY <3>4, <3>7
    <3> QED
      BY <3>1, <3>5, <3>6, <3>7, <3>8 DEF Snapshot, Proven, Done
  <2> QED
    BY <2>1, <2>2
<1> QED
  BY <1>12, <1>13

LEMMA ThreadsKeepSnapshot ==
  ASSUME SnapshotInv, Threads
  PROVE  Booked' /\ Snapshot'
<1>1. PoolInv /\ Booked /\ Snapshot
  BY DEF SnapshotInv
<1>2. phase \in {"waiting", "draining"} /\ pc = "before" /\ billed \in Nat
  BY <1>1, ThreadsInRound DEF Threads, Booked
<1>3. PICK k \in Tasks : Start(k) \/ ReturnError(k)
                         \/ \E response \in Responses : Return(k, response)
  BY DEF Threads
<1>4. CASE Start(k)
  <2>1. /\ slot' = [slot EXCEPT ![k] = Running] /\ ~Done(k) /\ billed' = billed + 0
        /\ UNCHANGED <<pc, phase, spent, transcript, results, drain, completed, proven>>
    BY <1>2, <1>4 DEF Start, SetSlot, Queued, Done, debate
  <2>2. Running \in Futures /\ Running.state # "late" /\ Running.state # "position"
    BY DEF Futures, Running
  <2> QED
    BY <1>2, <2>1, <2>2, ThreadMoves
<1>5. CASE ReturnError(k)
  <2>1. PICK future \in {[state |-> "timeout"], [state |-> "error", error |-> "adapter_error"]} :
          slot' = [slot EXCEPT ![k] = future]
    BY <1>5 DEF ReturnError, SetSlot
  <2>2. future \in Futures /\ future.state # "position" /\ future.state # "late"
    BY DEF Futures
  <2>3. /\ ~Done(k) /\ billed' = billed + 0
        /\ UNCHANGED <<pc, phase, spent, transcript, results, drain, completed, proven>>
    BY <1>2, <1>5 DEF ReturnError, Running, Done, vars, debate, history
  <2> QED
    BY <1>2, <2>1, <2>2, <2>3, ThreadMoves
<1>6. ASSUME NEW response \in Responses, Return(k, response) PROVE Booked' /\ Snapshot'
  <2> DEFINE paid == response.tokens
  <2>1. /\ ~Done(k) /\ billed' = billed + paid
        /\ UNCHANGED <<pc, phase, spent, transcript, results, drain, completed, proven>>
    BY <1>6 DEF Return, Running, Done, debate
  <2>2. paid \in Nat
    BY PositionConstants, ResponseTokens
  <2>3. CASE expired
    <3> DEFINE future == [state |-> "late", tokens |-> paid]
    <3>1. future \in Futures /\ future.state = "late" /\ future.tokens = paid
      BY <2>2 DEF Futures
    <3>2. slot' = [slot EXCEPT ![k] = future]
      BY <1>6, <2>3 DEF Return, SetSlot
    <3> HIDE DEF future, paid
    <3> QED
      BY <1>2, <2>1, <2>2, <3>1, <3>2, ThreadMoves
  <2>4. CASE ~expired /\ Acceptable(k, response)
    <3> DEFINE new == Position(AgentOf(k), response)
               future == [state |-> "position", position |-> new]
    <3>1. new \in Positional
      BY <1>1, <1>2, <2>4, OpenPool, ReturnedPosition
    <3>2. slot' = [slot EXCEPT ![k] = future] /\ new.tokens = paid
      BY <1>6, <2>4 DEF Return, SetSlot, Position
    <3> HIDE DEF new
    <3>3. future \in Futures /\ future.position = new /\ future.state = "position"
      BY <3>1 DEF Futures
    <3> HIDE DEF future, paid
    <3> QED
      BY <1>2, <2>1, <2>2, <3>2, <3>3, ThreadMoves
  <2>5. CASE ~expired /\ ~Acceptable(k, response)
    <3> DEFINE future == [state |-> "error", error |-> "protocol_error"]
    <3>1. future \in Futures /\ future.state = "error"
      BY DEF Futures
    <3>2. slot' = [slot EXCEPT ![k] = future]
      BY <1>6, <2>5 DEF Return, SetSlot
    <3> HIDE DEF future, paid
    <3> QED
      BY <1>2, <2>1, <2>2, <3>1, <3>2, ThreadMoves
  <2> QED
    BY <2>3, <2>4, <2>5
<1> QED
  BY <1>3, <1>4, <1>5, <1>6

\* The weights stay with the futures.
LEMMA SameSlots ==
  ASSUME slot' = slot
  PROVE  /\ Tasks' = Tasks /\ Weight' = Weight
         /\ \A k : (Proven(k)' <=> Proven(k)) /\ (Done(k)' <=> Done(k))
<1>1. Tasks' = Tasks /\ Weight' = Weight
  BY DEF Tasks, Weight
<1>2. \A k : (Proven(k)' <=> Proven(k)) /\ (Done(k)' <=> Done(k))
  BY DEF Proven, Done
<1> QED
  BY <1>1, <1>2

\* What the books say of a waiting or draining round.
LEMMA BooksOfRound ==
  ASSUME SnapshotInv, phase \in {"waiting", "draining"}
  PROVE  /\ PoolInv /\ pc = "before"
         /\ spent \in Nat /\ billed \in Nat /\ ClosedTokens \in Nat
         /\ SumOf(Weight, Tasks) \in Nat
         /\ ClosedTokens + SumOf(Weight, Tasks) <= billed
         /\ phase = "waiting" => spent = ClosedTokens
<1>1. PoolInv /\ Booked
  BY DEF SnapshotInv
<1>2. pc = "before"
  BY <1>1 DEF PoolInv, Pooled
<1>3. ClosedTokens \in Nat /\ SumOf(Weight, Tasks) \in Nat
  BY <1>1, ClosedTokensType, WeightType
<1> QED
  BY <1>1, <1>2, <1>3 DEF Booked

\* The collector takes a result or gives up on one.
LEMMA WaitKeepsSnapshot ==
  ASSUME SnapshotInv, NEW k \in Tasks, Collect(k) \/ Drop(k)
  PROVE  Booked' /\ Snapshot'
<1>1. /\ phase = "waiting" /\ phase' = phase
      /\ UNCHANGED <<pc, spent, billed, transcript, results, drain, completed, proven>>
  BY DEF Collect, Drop, Waiting, vars, debate, history
<1>2. /\ PoolInv /\ pc = "before" /\ billed \in Nat
  BY <1>1, BooksOfRound
<1>3. slot \in [1..Count -> Futures] /\ Tasks = 1..Count
  BY <1>1, <1>2, OpenPool
<1>4. CASE slot' = slot
  <2>1. Tasks' = Tasks /\ Weight' = Weight
    BY <1>4, SameSlots
  <2>2. ClosedTokens' = ClosedTokens
    BY <1>1, ClosedTokensKept
  <2>3. Booked'
    BY <1>1, <1>2, <2>1, <2>2, BooksOfRound DEF Booked
  <2>4. Snapshot'
    BY <1>1 DEF Snapshot
  <2> QED
    BY <2>3, <2>4
<1>5. CASE slot' # slot
  <2> DEFINE future == [state |-> "cancelled"]
  <2>1. Drop(k) /\ slot[k] = Queued
    BY <1>3, <1>5 DEF Collect, Drop
  <2>2. slot' = [slot EXCEPT ![k] = future] /\ ~Done(k)
    BY <1>3, <2>1 DEF Drop, Done, Queued
  <2>3. future \in Futures /\ future.state = "cancelled"
    BY DEF Futures
  <2>4. billed' = billed + 0
    BY <1>1, <1>2
  <2> HIDE DEF future
  <2> QED
    BY <1>1, <1>2, <2>2, <2>3, <2>4, ThreadMoves
<1> QED
  BY <1>4, <1>5

LEMMA SubmitKeepsSnapshot ==
  ASSUME SnapshotInv, Submit
  PROVE  Booked' /\ Snapshot'
<1>1. PoolInv /\ Booked
  BY DEF SnapshotInv
<1>2. /\ pc = "before" /\ phase = "idle" /\ pc' = pc /\ phase' = "waiting"
      /\ UNCHANGED <<spent, billed, transcript, results>>
      /\ slot' = [j \in 1..Count |-> Queued]
  BY DEF Submit, Count, vars, debate, history
<1>3. SumOf(Weight', Tasks') = 0
  <2>1. Tasks' = 1..Count /\ IsFiniteSet(1..Count)
    BY <1>1, <1>2, CountIsNatural DEF Tasks
  <2>2. \A j \in Tasks' : Weight'[j] = 0
    BY <1>2, <2>1 DEF Weight, Queued
  <2>3. IsFiniteSet(Tasks')
    BY <2>1
  <2> QED
    BY ONLY <2>2, <2>3, SumOfZeros
<1>4. ClosedTokens' = ClosedTokens /\ ClosedTokens \in Nat /\ TokensOf(results) \in Nat
  BY <1>1, <1>2, ClosedTokensKept, ClosedTokensType, OpenTokensType
<1>5. /\ spent = ClosedTokens /\ spent + TokensOf(results) <= billed
      /\ spent \in Nat /\ billed \in Nat
  BY <1>1, <1>2 DEF Booked
<1>6. ClosedTokens' + SumOf(Weight', Tasks') <= billed'
  BY <1>2, <1>3, <1>4, <1>5
<1>7. Booked'
  BY <1>2, <1>4, <1>5, <1>6 DEF Booked
<1>8. Snapshot'
  BY <1>2 DEF Snapshot
<1> QED
  BY <1>7, <1>8

\* The snapshot is what was gathered, the late answer, and the siblings to drain.
LEMMA LateAnswerKeepsSnapshot ==
  ASSUME SnapshotInv, NEW k \in Tasks, SeeLateAnswer(k)
  PROVE  Booked' /\ Snapshot'
<1>1. /\ phase = "waiting" /\ phase' = "draining" /\ slot[k].state = "late"
      /\ UNCHANGED <<pc, billed, transcript, results, slot>>
      /\ drain' = {j \in Tasks : j # k /\ j \notin GatheredSet /\ Done(j)}
      /\ proven' = {j \in Tasks : Proven(j)}
      /\ spent' = spent + TokensOf(InOrder) + slot[k].tokens
      /\ completed' = Cardinality(GatheredSet) + 1
  BY DEF SeeLateAnswer, Waiting, history
<1>2. /\ PoolInv /\ pc = "before" /\ spent \in Nat /\ billed \in Nat
      /\ spent = ClosedTokens /\ ClosedTokens \in Nat
      /\ ClosedTokens + SumOf(Weight, Tasks) <= billed
  BY <1>1, BooksOfRound
<1>3. /\ Tasks' = Tasks /\ Weight' = Weight /\ ClosedTokens' = ClosedTokens
      /\ \A j : (Proven(j)' <=> Proven(j)) /\ (Done(j)' <=> Done(j))
  BY <1>1, SameSlots, ClosedTokensKept
<1>4. /\ GatheredSet \in SUBSET Tasks /\ \A j \in GatheredSet : Proven(j)
      /\ TokensOf(InOrder) = SumOf(Weight, GatheredSet)
  BY <1>1, <1>2, GatheredInOrder
<1>5. k \notin GatheredSet /\ Proven(k) /\ Weight[k] = slot[k].tokens
  <2>1. Tasks = 1..Count
    BY <1>1, <1>2, OpenPool
  <2>2. gathered[k] # Missing => slot[k].state = "position"
    BY <1>1, <1>2, <2>1, OpenPool
  <2> QED
    BY <1>1, <2>2 DEF GatheredSet, Proven, Weight
<1>6. proven' \ drain' = GatheredSet \cup {k}
  BY <1>1, <1>4, <1>5 DEF Proven, Done
<1>7. /\ IsFiniteSet(GatheredSet) /\ IsFiniteSet(GatheredSet \cup {k})
      /\ Weights(Weight, GatheredSet \cup {k})
      /\ SumOf(Weight, GatheredSet) \in Nat /\ slot[k].tokens \in Nat
  <2>1. GatheredSet \cup {k} \in SUBSET Tasks
    BY <1>4
  <2>2. Weights(Weight, GatheredSet \cup {k})
    BY <1>2, <2>1, WeightType
  <2>3. slot[k].tokens \in Nat
    BY <1>5, <2>2 DEF Weights
  <2> QED
    BY <1>2, <1>4, <2>1, <2>2, <2>3, WeightType
<1>8. SumOf(Weight, GatheredSet \cup {k}) = Weight[k] + SumOf(Weight, GatheredSet)
  BY <1>5, <1>7, SumWith
<1>9. Cardinality(GatheredSet \cup {k}) = Cardinality(GatheredSet) + 1
  BY <1>5, <1>7, FS_AddElement
<1>10. Booked'
  <2>1. spent' \in Nat
    BY <1>1, <1>2, <1>4, <1>7
  <2>2. ClosedTokens' + SumOf(Weight, Tasks)' <= billed'
    BY <1>1, <1>2, <1>3
  <2> QED
    BY <1>1, <1>2, <2>1, <2>2 DEF Booked
<1>11. Snapshot'
  <2>1. \A j \in proven' : j \in Tasks' /\ Proven(j)'
    BY <1>1, <1>3
  <2>2. \A j \in drain' : j \in Tasks' /\ Done(j)' /\ (Proven(j)' <=> j \in proven')
    BY <1>1, <1>3
  <2>3. spent' = ClosedTokens' + SumOf(Weight, proven \ drain)'
    <3>1. SumOf(Weight, proven \ drain)' = slot[k].tokens + SumOf(Weight, GatheredSet)
      BY <1>3, <1>5, <1>6, <1>8
    <3> QED
      BY <1>1, <1>2, <1>3, <1>4, <1>7, <3>1
  <2>4. completed' = Cardinality(proven' \ drain')
    BY <1>1, <1>6, <1>9
  <2> QED
    BY <1>1, <2>1, <2>2, <2>3, <2>4 DEF Snapshot
<1> QED
  BY <1>10, <1>11

LEMMA DrainKeepsSnapshot ==
  ASSUME SnapshotInv, NEW k \in Tasks, DrainSibling(k)
  PROVE  Booked' /\ Snapshot'
<1>1. /\ phase = "draining" /\ phase' = "draining" /\ k \in drain
      /\ UNCHANGED <<pc, billed, transcript, results, slot, proven>>
      /\ drain' = drain \ {k}
      /\ spent' = spent + (CASE slot[k].state = "late"     -> slot[k].tokens
                             [] slot[k].state = "position" -> slot[k].position.tokens
                             [] OTHER                      -> 0)
      /\ completed' = IF Proven(k) THEN completed + 1 ELSE completed
  BY DEF DrainSibling, history
<1>2. /\ PoolInv /\ pc = "before" /\ spent \in Nat /\ billed \in Nat
      /\ ClosedTokens \in Nat /\ ClosedTokens + SumOf(Weight, Tasks) <= billed
  BY <1>1, BooksOfRound
<1>3. /\ Tasks' = Tasks /\ Weight' = Weight /\ ClosedTokens' = ClosedTokens
      /\ \A j : (Proven(j)' <=> Proven(j)) /\ (Done(j)' <=> Done(j))
  BY <1>1, SameSlots, ClosedTokensKept
<1>4. /\ \A j \in proven : j \in Tasks /\ Proven(j)
      /\ \A j \in drain : j \in Tasks /\ Done(j) /\ (Proven(j) <=> j \in proven)
      /\ spent = ClosedTokens + SumOf(Weight, proven \ drain)
      /\ completed = Cardinality(proven \ drain)
  BY <1>1 DEF SnapshotInv, Snapshot
<1>5. Weight[k] \in Nat /\ spent' = spent + Weight[k] /\ (~Proven(k) => Weight[k] = 0)
  <2>1. spent' = spent + Weight[k]
    BY <1>1 DEF Weight
  <2>2. Weight[k] \in Nat
    BY <1>2, WeightType DEF Weights
  <2>3. ~Proven(k) => Weight[k] = 0
    BY DEF Proven, Weight
  <2> QED
    BY <2>1, <2>2, <2>3
<1> DEFINE counted == proven \ drain
<1>6. /\ counted \in SUBSET Tasks /\ counted \cup {k} \in SUBSET Tasks
      /\ IsFiniteSet(counted) /\ Weights(Weight, counted \cup {k})
      /\ SumOf(Weight, counted) \in Nat /\ k \notin counted
  <2>1. counted \in SUBSET Tasks /\ counted \cup {k} \in SUBSET Tasks /\ k \notin counted
    BY <1>1, <1>4
  <2> HIDE DEF counted
  <2> QED
    BY <1>2, <2>1, WeightType
<1>7. /\ spent' = ClosedTokens + SumOf(Weight, proven' \ drain')
      /\ completed' = Cardinality(proven' \ drain')
  <2>1. CASE Proven(k)
    <3>1. proven' \ drain' = counted \cup {k}
      BY <1>1, <1>4, <2>1
    <3> HIDE DEF counted
    <3>2. SumOf(Weight, counted \cup {k}) = Weight[k] + SumOf(Weight, counted)
      BY <1>6, SumWith
    <3>3. Cardinality(counted \cup {k}) = Cardinality(counted) + 1
      BY <1>6, FS_AddElement
    <3>4. spent = ClosedTokens + SumOf(Weight, counted) /\ completed = Cardinality(counted)
      BY <1>4 DEF counted
    <3>5. spent' = ClosedTokens + SumOf(Weight, counted \cup {k})
      <4>1. spent' = spent + Weight[k] /\ Weight[k] \in Nat
        BY <1>5
      <4>2. ClosedTokens \in Nat /\ SumOf(Weight, counted) \in Nat
        BY <1>2, <1>6
      <4> QED
        BY ONLY <3>2, <3>4, <4>1, <4>2
    <3> QED
      BY <1>1, <2>1, <3>1, <3>3, <3>4, <3>5
  <2>2. CASE ~Proven(k)
    <3>1. proven' \ drain' = counted
      BY <1>1, <1>4, <2>2
    <3>2. spent' = spent /\ completed' = completed
      BY <1>1, <1>2, <1>5, <2>2
    <3>3. spent = ClosedTokens + SumOf(Weight, counted) /\ completed = Cardinality(counted)
      BY <1>4
    <3> HIDE DEF counted
    <3> QED
      BY <3>1, <3>2, <3>3
  <2> QED
    BY <2>1, <2>2
<1>8. Booked'
  <2>1. spent' \in Nat
    BY <1>2, <1>5
  <2>2. ClosedTokens' + SumOf(Weight, Tasks)' <= billed'
    BY <1>1, <1>2, <1>3
  <2> QED
    BY <1>1, <1>2, <2>1, <2>2 DEF Booked
<1>9. Snapshot'
  <2>1. \A j \in proven' : j \in Tasks' /\ Proven(j)'
    BY <1>1, <1>3, <1>4
  <2>2. \A j \in drain' : j \in Tasks' /\ Done(j)' /\ (Proven(j)' <=> j \in proven')
    BY <1>1, <1>3, <1>4
  <2>3. spent' = ClosedTokens' + SumOf(Weight, proven \ drain)'
    BY <1>3, <1>7
  <2> QED
    BY <1>1, <1>7, <2>1, <2>2, <2>3 DEF Snapshot
<1> QED
  BY <1>8, <1>9

LEMMA DrainedKeepsSnapshot ==
  ASSUME SnapshotInv, Drained
  PROVE  Booked' /\ Snapshot'
<1>1. /\ phase = "draining" /\ phase' = "drained" /\ drain = {} /\ pc' = "done"
      /\ UNCHANGED <<billed, transcript, results, slot, proven, completed>>
      /\ spent' = spent + 0
  BY DEF Drained, Abort, Finish, Goto, history
<1>2. spent \in Nat /\ billed \in Nat /\ spent <= billed
  BY <1>1, BooksOfRound, BookedWasBilled
<1>3. /\ Tasks' = Tasks /\ Weight' = Weight /\ ClosedTokens' = ClosedTokens
      /\ \A j : (Proven(j)' <=> Proven(j)) /\ (Done(j)' <=> Done(j))
  BY <1>1, SameSlots, ClosedTokensKept
<1>4. /\ \A j \in proven : j \in Tasks /\ Proven(j)
      /\ spent = ClosedTokens + SumOf(Weight, proven)
      /\ completed = Cardinality(proven)
  <2>1. proven \ drain = proven
    BY <1>1
  <2> QED
    BY <1>1, <2>1 DEF SnapshotInv, Snapshot
<1>5. spent' = spent
  BY <1>1, <1>2
<1>6. Booked'
  BY <1>1, <1>2, <1>5 DEF Booked
<1>7. \A j \in proven' : j \in Tasks' /\ Proven(j)'
  BY <1>1, <1>3, <1>4
<1>8. spent' = ClosedTokens' + SumOf(Weight, proven)' /\ completed' = Cardinality(proven')
  BY <1>1, <1>3, <1>4, <1>5
<1>9. Snapshot'
  BY <1>1, <1>7, <1>8 DEF Snapshot
<1> QED
  BY <1>6, <1>9

\* Losing the quorum or propagating an error books nothing more.
LEMMA EndKeepsSnapshot ==
  ASSUME SnapshotInv, LoseQuorum \/ \E k \in Tasks : Propagate(k)
  PROVE  Booked' /\ Snapshot'
<1>1. CASE LoseQuorum
  <2>1. /\ phase = "waiting" /\ phase' = "quorum lost" /\ pc' = "done"
        /\ billed' = billed /\ spent' = spent + 0
    BY <1>1 DEF LoseQuorum, Gathered, Abort, Finish, Goto, history
  <2>2. spent \in Nat /\ billed \in Nat /\ spent <= billed
    BY <2>1, BooksOfRound, BookedWasBilled
  <2>3. spent' = spent
    <3>1. spent' = spent + 0 /\ spent \in Nat
      BY <2>1, <2>2, Zenon
    <3> QED
      BY ONLY <3>1
  <2> QED
    BY <2>1, <2>2, <2>3 DEF Booked, Snapshot
<1>2. CASE \E k \in Tasks : Propagate(k)
  <2>1. /\ phase = "waiting" /\ phase' = "idle" /\ pc' = "done"
        /\ billed' = billed /\ spent' = spent
    BY <1>2 DEF Propagate, Waiting, Raise, Goto, Shutdown, debate, history
  <2>2. spent \in Nat /\ billed \in Nat /\ spent <= billed
    BY <2>1, BooksOfRound, BookedWasBilled
  <2> QED
    BY <2>1, <2>2 DEF Booked, Snapshot
<1> QED
  BY <1>1, <1>2

LEMMA KeepQuorumKeepsSnapshot ==
  ASSUME SnapshotInv, KeepQuorum
  PROVE  Booked' /\ Snapshot'
<1>1. /\ phase = "waiting" /\ phase' = "idle" /\ pc' = "close" /\ results' = InOrder
      /\ UNCHANGED <<spent, billed, transcript>>
  BY DEF KeepQuorum, Gathered, Goto, Shutdown, history
<1>2. /\ PoolInv /\ spent \in Nat /\ billed \in Nat
      /\ spent = ClosedTokens /\ ClosedTokens \in Nat /\ SumOf(Weight, Tasks) \in Nat
      /\ ClosedTokens + SumOf(Weight, Tasks) <= billed
  BY <1>1, BooksOfRound
<1>3. /\ GatheredSet \in SUBSET Tasks
      /\ TokensOf(InOrder) = SumOf(Weight, GatheredSet)
  BY <1>1, <1>2, GatheredInOrder
<1>4. SumOf(Weight, GatheredSet) \in Nat
      /\ SumOf(Weight, GatheredSet) <= SumOf(Weight, Tasks)
  BY <1>2, <1>3, WeightType
<1>5. spent + TokensOf(results') <= billed
  BY <1>1, <1>2, <1>3, <1>4
<1>6. ClosedTokens' = ClosedTokens
  BY <1>1, ClosedTokensKept
<1> QED
  BY <1>1, <1>2, <1>5, <1>6 DEF Booked, Snapshot

LEMMA CollectorKeepsSnapshot ==
  ASSUME SnapshotInv, Collector
  PROVE  Booked' /\ Snapshot'
<1>1. CASE Submit
  BY <1>1, SubmitKeepsSnapshot
<1>2. CASE Drained
  BY <1>2, DrainedKeepsSnapshot
<1>3. CASE LoseQuorum \/ \E k \in Tasks : Propagate(k)
  BY <1>3, EndKeepsSnapshot
<1>4. CASE KeepQuorum
  BY <1>4, KeepQuorumKeepsSnapshot
<1>5. ASSUME NEW k \in Tasks, Collect(k) \/ Drop(k) PROVE Booked' /\ Snapshot'
  BY <1>5, WaitKeepsSnapshot
<1>6. ASSUME NEW k \in Tasks, SeeLateAnswer(k) PROVE Booked' /\ Snapshot'
  BY <1>6, LateAnswerKeepsSnapshot
<1>7. ASSUME NEW k \in Tasks, DrainSibling(k) PROVE Booked' /\ Snapshot'
  BY <1>7, DrainKeepsSnapshot
<1> QED
  BY <1>1, <1>2, <1>3, <1>4, <1>5, <1>6, <1>7 DEF Collector

LEMMA DecideKeepsSnapshot ==
  ASSUME SnapshotInv, Decide
  PROVE  Booked' /\ Snapshot'
<1>1. PoolInv /\ Booked
  BY DEF SnapshotInv
<1>2. phase = "idle" /\ phase' = "idle" /\ billed' = billed /\ pc # "done"
  BY <1>1, PoolIsIdle
     DEF Decide, pool, CloseRound, JudgeRound, NextRound, Agree, Disagree, Judging, history
<1>3. /\ spent \in Nat /\ billed \in Nat /\ spent = ClosedTokens
      /\ spent + TokensOf(results) <= billed
      /\ TokensOf(results) \in Nat /\ ClosedTokens \in Nat
  BY <1>1, <1>2, OpenTokensType, ClosedTokensType DEF Booked
<1>4. Snapshot'
  BY <1>2 DEF Snapshot
<1>5. CASE CloseRound
  <2>1. /\ pc' = "judge" /\ transcript' = Append(transcript, results)
        /\ spent' = spent + TokensOf(results) /\ results' = <<>>
    BY <1>5 DEF CloseRound, Goto
  <2>2. ClosedTokens' = ClosedTokens + TokensOf(results)
    <3>1. transcript \in Seq(Seq(Positional)) /\ results \in Seq(Positional)
      BY <1>1 DEF PoolInv, PoolTyped
    <3>2. TokensOfRounds(Append(transcript, results))
            = TokensOfRounds(transcript) + TokensOf(results)
      BY <3>1, OneMoreRound
    <3> QED
      BY <2>1, <3>2 DEF ClosedTokens
  <2>3. TokensOf(results') = 0
    BY <2>1, TokensOfNone
  <2>4. spent' + TokensOf(results') <= billed' /\ spent' \in Nat /\ spent' = ClosedTokens'
    BY <1>2, <1>3, <2>1, <2>2, <2>3
  <2> QED
    BY <1>2, <1>3, <1>4, <2>1, <2>4 DEF Booked
<1>6. CASE JudgeRound \/ NextRound \/ Agree \/ Disagree
  <2>1. /\ spent' = spent \/ spent' = spent + 0
        /\ UNCHANGED <<transcript, results>>
    BY <1>6 DEF JudgeRound, NextRound, Agree, Disagree, Abort
  <2>2. spent' = spent /\ ClosedTokens' = ClosedTokens
    BY <1>3, <2>1, ClosedTokensKept
  <2>3. spent <= billed
    BY <1>3
  <2> QED
    BY <1>2, <1>3, <1>4, <2>1, <2>2, <2>3 DEF Booked
<1> QED
  BY <1>5, <1>6 DEF Decide

LEMMA NextSnapshot == SnapshotInv /\ [ParallelNext]_parallelVars => SnapshotInv'
<1> SUFFICES ASSUME SnapshotInv, [ParallelNext]_parallelVars PROVE SnapshotInv'
  OBVIOUS
<1>1. PoolInv /\ Booked /\ Snapshot /\ PoolInv'
  BY NextPool DEF SnapshotInv
<1>2. CASE Collector
  BY <1>1, <1>2, CollectorKeepsSnapshot DEF SnapshotInv
<1>3. CASE Decide
  BY <1>1, <1>3, DecideKeepsSnapshot DEF SnapshotInv
<1>4. CASE Threads
  BY <1>1, <1>4, ThreadsKeepSnapshot DEF SnapshotInv
<1>5. CASE ((Tick \/ Finished) /\ UNCHANGED pool) \/ UNCHANGED parallelVars
  <2>1. /\ slot' = slot /\ transcript' = transcript /\ spent' = spent /\ billed' = billed
        /\ pc' = pc /\ phase' = phase /\ results' = results /\ drain' = drain
        /\ proven' = proven /\ completed' = completed
    BY <1>5 DEF Tick, Finished, parallelVars, vars, pool, debate, history
  <2>2. /\ Tasks' = Tasks /\ Weight' = Weight /\ ClosedTokens' = ClosedTokens
        /\ \A j : (Proven(j)' <=> Proven(j)) /\ (Done(j)' <=> Done(j))
    BY <2>1, SameSlots, ClosedTokensKept
  <2>3. Booked'
    BY <1>1, <2>1, <2>2 DEF Booked
  <2>4. Snapshot'
    BY <1>1, <2>1, <2>2 DEF Snapshot
  <2> QED
    BY <1>1, <2>3, <2>4 DEF SnapshotInv
<1> QED
  BY <1>2, <1>3, <1>4, <1>5 DEF ParallelNext

\* An abort at the deadline counts, besides the closed rounds, exactly the calls
\* that had completed when the late answer was seen, and the engine never counts
\* what was not billed.
THEOREM AbortsCountTheSnapshot == ParallelSpec => []AbortCountsTheSnapshot
<1>1. SnapshotInv => AbortCountsTheSnapshot
  <2> SUFFICES ASSUME SnapshotInv PROVE AbortCountsTheSnapshot
    OBVIOUS
  <2>1. spent <= billed
    BY BookedWasBilled
  <2>2. ASSUME phase = "drained"
        PROVE  /\ completed = Cardinality(proven)
               /\ spent = ClosedTokens + MapThenSumSet(SlotTokens, proven)
    <3>1. /\ PoolInv /\ \A k \in proven : k \in Tasks /\ Proven(k)
          /\ spent = ClosedTokens + SumOf(Weight, proven)
          /\ completed = Cardinality(proven)
      BY <2>2 DEF SnapshotInv, Snapshot
    <3>2. proven \in SUBSET Tasks
      BY <3>1
    <3>3. MapThenSumSet(SlotTokens, proven) = SumOf(Weight, proven)
      BY <3>1, <3>2, SlotTokensSum
    <3> QED
      BY <3>1, <3>3
  <2> QED
    BY <2>1, <2>2 DEF AbortCountsTheSnapshot
<1> QED
  BY <1>1, InitSnapshot, NextSnapshot, PTL DEF ParallelSpec
================================================================================
