-------------------------------- MODULE MCDebate -------------------------------
(* Instances of Debate for TLC.                                            *)
EXTENDS Debate, TLC

CONSTANTS yes, yesToo, no, noise, Yes, No, Empty

\* yes and yesToo differ only in what normalize_stance removes.
MCStances == {yes, yesToo, no, noise}
MCNorm == (yes :> Yes) @@ (yesToo :> Yes) @@ (no :> No) @@ (noise :> Empty)

Answer(stance, conceded, maintained, tokens) ==
  [stance |-> stance, wellFormed |-> TRUE, conceded |-> conceded,
   maintained |-> maintained, tokens |-> tokens]

Opening  == {Answer(s, "none", "none", 1) : s \in MCStances \ {yesToo}}
Updates  == {Answer(yes, "reasoned", "none", 1), Answer(no, "reasoned", "reasoned", 3),
             Answer(no, "none", "reasoned", 1), Answer(yesToo, "none", "reasoned", 2),
             Answer(noise, "reasoned", "none", 1)}
Breaches == {Answer(yes, "unreasoned", "none", 1),
             [Answer(no, "none", "none", 2) EXCEPT !.wellFormed = FALSE]}

MCResponses == Opening \cup Updates \cup Breaches
================================================================================
