------------------------------ MODULE RunSettings ------------------------------
(***************************************************************************)
(* The settings of an invocation, from its arguments and, after --resume,  *)
(* from the header of the journal: _prepare_consensus of the command line  *)
(* and _handle_consensus of the plugin differ in what they make of an      *)
(* argument that is absent, null or padded with blanks.                    *)
(*                                                                         *)
(* `limits` stands for agents_count, max_rounds, agent_timeout_s and       *)
(* debate_budget_s, which are treated alike.  Values are valid: a value    *)
(* that validation rejects ends the invocation as a mismatch does.         *)
(***************************************************************************)
CONSTANTS Strip,      \* a function: str.strip on the texts that occur
          EmptyText,
          NoModels,
          Absent,     \* an argument that is not given
          Null        \* an argument of the plugin that is null

ASSUME SettingsConstants ==
  /\ EmptyText \in DOMAIN Strip
  /\ \A t \in DOMAIN Strip : Strip[t] \in DOMAIN Strip /\ Strip[Strip[t]] = Strip[t]
  /\ Absent \notin DOMAIN Strip /\ Null \notin DOMAIN Strip
  /\ Absent # Null /\ NoModels # Null

Surfaces == {"cli", "plugin"}
RealAdapters == {"hermes", "codex"}

Or(given, saved) == IF given = Absent THEN saved ELSE given
Text(given) == IF given = Null THEN EmptyText ELSE Strip[given]

\* The command line has no null.
Givable(surface, given) ==
  surface = "cli" => \A option \in DOMAIN given : given[option] # Null

CliSettings(given, saved) ==
  [question |-> Strip[Or(given.question, saved.question)],
   context |-> Or(given.context, saved.context),
   limits |-> Or(given.limits, saved.limits),
   models |-> Or(given.models, saved.models),
   adapter |-> Or(given.adapter, saved.adapter),
   budget_tokens |-> Or(given.budget_tokens, saved.budget_tokens)]

\* Mutant: an omitted budget_tokens is no budget, also after --resume.
PluginSettings_Unlimited(given, saved) ==
  [question |-> Text(Or(given.question, saved.question)),
   context |-> Text(Or(given.context, saved.context)),
   limits |-> Or(given.limits, saved.limits),
   models |-> IF given.models = Null THEN NoModels ELSE Or(given.models, saved.models),
   adapter |-> Or(given.adapter, saved.adapter),
   budget_tokens |-> given.budget_tokens]

\* A null budget_tokens means the saved one, null models no models.
PluginSettings(given, saved) ==
  [question |-> Text(Or(given.question, saved.question)),
   context |-> Text(Or(given.context, saved.context)),
   limits |-> Or(given.limits, saved.limits),
   models |-> IF given.models = Null THEN NoModels ELSE Or(given.models, saved.models),
   adapter |-> Or(given.adapter, saved.adapter),
   budget_tokens |-> IF given.budget_tokens = Null THEN saved.budget_tokens
                     ELSE Or(given.budget_tokens, saved.budget_tokens)]

SettingsOf(surface, given, saved) ==
  IF surface = "cli" THEN CliSettings(given, saved) ELSE PluginSettings(given, saved)

\* The plugin takes no null limit and no adapter but the two real ones, not even
\* from a header.
Accepted(surface, settings) ==
  /\ settings.question # EmptyText
  /\ surface = "plugin" => settings.limits # Null /\ settings.adapter \in RealAdapters

\* --resume with nothing beside the run identifier.
Bare == [question |-> Absent, context |-> Absent, limits |-> Absent,
         models |-> Absent, adapter |-> Absent, budget_tokens |-> Absent]
================================================================================
