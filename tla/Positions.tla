------------------------------- MODULE Positions -------------------------------
(***************************************************************************)
(* Answers of the agents and what the engine computes from them            *)
(* (core/consensus.py: _parse_position, _validate_debate_update,           *)
(* _is_unanimous, _no_consensus_result, normalize_stance).                 *)
(*                                                                         *)
(* A stance is a model value; Norm says which stances normalize_stance     *)
(* identifies, EmptyNorm is the normal form of a stance of punctuation     *)
(* only.  Rationale, evidence and confidence are part of wellFormed.       *)
(***************************************************************************)
EXTENDS Naturals, Sequences, FiniteSets, SequencesExt

CONSTANTS
  Stances,
  Norm,       \* [Stances -> normal forms]
  EmptyNorm,
  Responses,  \* what the adapter may return
  NoStance    \* decision or majority_stance = None

\* A list of debate points in an answer: absent or empty, every point with a
\* reason, or some point without its text or reason.
PointLists == {"none", "reasoned", "unreasoned"}

ResponseType ==
  [stance : Stances, wellFormed : BOOLEAN, conceded : PointLists,
   maintained : PointLists, tokens : Nat]

ASSUME PositionConstants ==
  /\ DOMAIN Norm = Stances
  /\ Responses \subseteq ResponseType
  /\ NoStance \notin Stances

\* _parse_position: round 0 must not carry concessions, and a point without a
\* reason is a protocol violation in every round.
Parses(response, debate) ==
  /\ response.wellFormed
  /\ response.conceded # "unreasoned" /\ response.maintained # "unreasoned"
  /\ ~debate => response.conceded = "none" /\ response.maintained = "none"

Position(agent, response) ==
  [agent |-> agent, stance |-> response.stance,
   conceded |-> response.conceded = "reasoned",
   maintained |-> response.maintained = "reasoned",
   tokens |-> response.tokens]

SameStance(p, q) == Norm[p.stance] = Norm[q.stance]

\* Mutant: any update that is not silent may change the stance.
ValidUpdate_FreeChange(prior, position) == position.conceded \/ position.maintained

\* _validate_debate_update: no silence, and no change of stance for free.
ValidUpdate(prior, position) ==
  /\ position.conceded \/ position.maintained
  /\ ~SameStance(prior, position) => position.conceded

TokensOf(positions) == FoldLeft(LAMBDA sum, p : sum + p.tokens, 0, positions)

Unanimous(positions) ==
  /\ positions # <<>>
  /\ \A k \in DOMAIN positions :
       /\ SameStance(positions[k], positions[1])
       /\ Norm[positions[k].stance] # EmptyNorm

Holders(positions, k) == {j \in DOMAIN positions : SameStance(positions[j], positions[k])}

\* The stance more than half of the positions share, in the words of the first
\* agent that holds it (normalized_to_display.setdefault).
MajorityStance(positions) ==
  LET ofMajority == {k \in DOMAIN positions :
                       2 * Cardinality(Holders(positions, k)) > Len(positions)}
  IN  IF ofMajority = {} THEN NoStance
      ELSE positions[CHOOSE k \in ofMajority : \A j \in ofMajority : k <= j].stance
================================================================================
