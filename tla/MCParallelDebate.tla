---------------------------- MODULE MCParallelDebate ---------------------------
(* Instances of ParallelDebate for TLC.                                    *)
EXTENDS MCDebate, ParallelDebate

\* Two stances, a concession, and a breach of the protocol.
PoolResponses ==
  {Answer(yes, "none", "none", 1), Answer(no, "none", "none", 2),
   Answer(yes, "reasoned", "none", 1), Answer(no, "none", "reasoned", 1)}
  \cup {[Answer(no, "none", "none", 1) EXCEPT !.wellFormed = FALSE]}
================================================================================
