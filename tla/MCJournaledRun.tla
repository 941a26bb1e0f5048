----------------------------- MODULE MCJournaledRun ----------------------------
(* Instances of JournaledRun for TLC.                                      *)
EXTENDS MCDebate, JournaledRun

CONSTANTS ask, padded, stripped   \* texts; `padded` has blanks around it

\* Two agents, one debate round: agreement at once, by concession, or never.  An
\* answer for the other kind of round breaks the protocol.
RunResponses ==
  {Answer(yes, "none", "none", 1), Answer(no, "none", "none", 2),
   Answer(yes, "reasoned", "none", 1), Answer(no, "none", "reasoned", 2)}

MCStrip == [t \in {ask, padded, stripped, EmptyText} |-> IF t = padded THEN stripped ELSE t]

MCDefaults == [question |-> EmptyText, context |-> EmptyText, limits |-> 3,
               models |-> NoModels, adapter |-> "hermes", budget_tokens |-> 0]

\* A run that either surface begins, with a token budget; one from the command line
\* with a mock adapter and a padded context, which the plugin cannot go on with; and
\* one the plugin begins with null for context and models.
Ask == [Bare EXCEPT !.question = ask, !.budget_tokens = 8]
MCFreshArgs == {[Ask EXCEPT !.context = stripped],
                [Ask EXCEPT !.context = padded, !.adapter = "mock-unanimous"],
                [Ask EXCEPT !.context = Null, !.models = Null]}

\* The debate is the same whatever the settings: the second and third kind of run
\* are followed for two invocations and the opening round (a constraint).
AwkwardRunsAreShort ==
  \/ origin.context = stripped
  \/ invocations <= 2 /\ transcript = <<>>

\* Nothing; the context with blanks around it, which the command line takes for
\* another one; null for what is saved.
MCResumeArgs ==
  {Bare, [Bare EXCEPT !.context = padded], [Bare EXCEPT !.budget_tokens = Null]}
================================================================================
