----------------------------- MODULE HonestDebate ------------------------------
(***************************************************************************)
(* What a consensus debate promises, however the agents are called:        *)
(* agreement is never fabricated.  A debate is a growing list of closed    *)
(* rounds and an outcome that is given once.                               *)
(***************************************************************************)
EXTENDS Positions

CONSTANTS
  AgentsCount,
  MaxRounds,
  MinQuorum    \* the fewest positions a round may be closed with

VARIABLES
  rounds,   \* the closed rounds, round 0 first
  outcome   \* what the debate came to

Open == [status |-> "open", decision |-> NoStance, dissent |-> <<>>,
         majority |-> NoStance, completed |-> 0]

Init == rounds = <<>> /\ outcome = Open

AgentsOf(positions) == {positions[k].agent : k \in DOMAIN positions}

\* A round holds one position for each agent that is left, in the order of the
\* agents; whoever dropped out stays out; a new stance was conceded to.
Admissible(positions) ==
  /\ Len(positions) >= MinQuorum
  /\ \A j, k \in DOMAIN positions : j < k => positions[j].agent < positions[k].agent
  /\ IF rounds = <<>>
     THEN AgentsOf(positions) \subseteq 1..AgentsCount
     ELSE LET previous == rounds[Len(rounds)] IN
          \A k \in DOMAIN positions : \E j \in DOMAIN previous :
            /\ previous[j].agent = positions[k].agent
            /\ ~SameStance(previous[j], positions[k]) => positions[k].conceded

\* The stances the last round agrees on: all its agents mean it, and it is not void.
AgreedOn ==
  IF rounds = <<>> THEN {}
  ELSE LET last == rounds[Len(rounds)] IN
       {stance \in Stances :
          /\ Norm[stance] # EmptyNorm
          /\ \A k \in DOMAIN last : Norm[last[k].stance] = Norm[stance]
          /\ \E k \in DOMAIN last : last[k].stance = stance}

\* One more round, unless the agents agree or the rounds are used up.
CloseRound ==
  /\ outcome = Open /\ Len(rounds) <= MaxRounds /\ AgreedOn = {}
  /\ Len(rounds') = Len(rounds) + 1
  /\ SubSeq(rounds', 1, Len(rounds)) = rounds
  /\ Admissible(rounds'[Len(rounds')])
  /\ UNCHANGED outcome

LastRound == IF rounds = <<>> THEN <<>> ELSE Last(rounds)

\* Debate rounds that were closed; round 0 is not one.
Completed == IF rounds = <<>> THEN 0 ELSE Len(rounds) - 1

Conclude(status, decision, dissent, majority) ==
  /\ outcome = Open
  /\ outcome' = [status |-> status, decision |-> decision, dissent |-> dissent,
                 majority |-> majority, completed |-> Completed]
  /\ UNCHANGED rounds

Agree == \E stance \in AgreedOn : Conclude("unanimous", stance, <<>>, NoStance)

\* More than half of the last round mean the stance.
HasMajority(stance) ==
  LET holders == {k \in DOMAIN LastRound : Norm[LastRound[k].stance] = Norm[stance]}
  IN  2 * Cardinality(holders) > Len(LastRound)

Majorities ==
  LET stances == {LastRound[k].stance : k \in DOMAIN LastRound}
  IN  IF \E stance \in stances : HasMajority(stance)
      THEN {stance \in stances : HasMajority(stance)} ELSE {NoStance}

Disagree ==
  /\ Len(rounds) = MaxRounds + 1 /\ AgreedOn = {}
  /\ \E stance \in Majorities : Conclude("no_consensus", NoStance, LastRound, stance)

\* A deadline, a token budget or a lost quorum: no decision is given, and the
\* rounds that were closed, and no others, are reported.
Abort == Conclude("aborted", NoStance, LastRound, NoStance)

Fail ==
  /\ outcome = Open /\ outcome' = [Open EXCEPT !.status = "failed"]
  /\ UNCHANGED rounds

Next == CloseRound \/ Agree \/ Disagree \/ Abort \/ Fail

HonestSpec == Init /\ [][Next]_<<rounds, outcome>>
================================================================================
