------------------------------ MODULE JournaledRun -----------------------------
(***************************************************************************)
(* One run identifier over several invocations: the serial engine (Debate) *)
(* calls its adapter through JournaledLlm (core/journal.py), which records *)
(* every live answer in the run's journal and, after --resume, answers     *)
(* from it.  An invocation may end, crash anywhere, or lose the journal to *)
(* a failed write.  JournalStore says why no other process interferes.     *)
(***************************************************************************)
EXTENDS Debate, JournalFile, RunSettings

CONSTANTS MaxInvocations,  \* bound
          Defaults,        \* settings of an invocation that is given nothing
          FreshArgs,       \* arguments of the first invocation: sets of records like
          ResumeArgs       \* Bare, and of the resumes

ASSUME ArgsConstants ==
  /\ \A given \in FreshArgs \cup ResumeArgs :
       /\ DOMAIN given = DOMAIN Bare
       /\ {given.question, given.context} \subseteq DOMAIN Strip \cup {Absent, Null}
  /\ DOMAIN Defaults = DOMAIN Bare
  /\ Defaults.question \in DOMAIN Strip /\ Defaults.context \in DOMAIN Strip
  /\ \A option \in DOMAIN Defaults : Defaults[option] # Null

VARIABLES
  origin,    \* the settings of the first invocation
  stage,     \* what the invocation does
  text,      \* the lines of the journal file
  journal,   \* DebateJournal: unopened, writing, or writes disabled (mute)
  due,       \* records whose failed write is still buffered, at most one
  loaded,    \* journal.replay_calls
  replaying, \* JournaledLlm._replaying
  seq,       \* JournaledLlm.seq
  replayed,  \* JournaledLlm.tokens_replayed
  invocations, \* history: invocations begun
  live,      \* history: live calls the adapter completed
  sealed     \* history: verdicts whose result record is in the journal

llm     == <<loaded, replaying, seq, replayed>>
file    == <<text, journal, due>>
tally   == <<invocations, live, sealed>>
runVars == <<vars, origin, stage, file, llm, tally>>

Header == [type |-> "header", settings |-> origin]

\* What the prompt of a call depends on besides the question, the context and the
\* agents, which the header check pins down: the round, the agent, and in a
\* debate round the positions it shows (_build_debate_prompt).
Prompt ==
  [round |-> round, agent |-> Len(results) + 1,
   positions |-> [k \in DOMAIN current |-> current[k].stance]]

CallRecord(answer) ==
  [type |-> "call", seq |-> seq, prompt |-> Prompt, answer |-> answer]

ResultRecord(r) == [type |-> "result", status |-> r.status]

RunInit ==
  /\ Init
  /\ \E surface \in Surfaces, given \in FreshArgs :
       /\ Givable(surface, given)
       /\ origin = SettingsOf(surface, given, Defaults)
       /\ Accepted(surface, origin)
  /\ stage = "debate" /\ text = <<>> /\ journal = "unopened" /\ due = {}
  /\ loaded = <<>> /\ replaying = FALSE /\ seq = 0 /\ replayed = 0
  /\ invocations = 1 /\ live = 0 /\ sealed = {}

-----------------------------------------------------------------------------
(* DebateJournal.append: the header precedes the first record.             *)

Opened == IF journal = "unopened" THEN Append(text, Whole(Header)) ELSE text

AppendWorks(record) ==
  /\ journal # "mute"
  /\ text' = Put(Opened, Whole(record))
  /\ journal' = "writing" /\ due' = due

\* Mutant: a failed write does not disable the next ones.
AppendFails_GoesOn(record) ==
  /\ journal # "mute" /\ journal' = "writing"
  /\ text' = Opened /\ UNCHANGED due

AppendFails(record) ==
  /\ journal # "mute" /\ journal' = "mute"
  /\ \/ text' \in Interrupted(Opened, record) /\ due' = {record}
     \/ /\ journal = "unopened"
        /\ text' \in Interrupted(text, Header) /\ due' = {Header}
     \/ journal = "unopened" /\ UNCHANGED <<text, due>>

AppendIgnored == journal = "mute" /\ UNCHANGED file

JournalAppend(record) ==
  AppendWorks(record) \/ AppendFails(record) \/ AppendIgnored

-----------------------------------------------------------------------------
(* JournaledLlm.complete.                                                  *)

\* Mutant: the sequence numbers are taken to start at 1.
ReplayMatch_FromOne ==
  /\ replaying /\ seq < Len(loaded)
  /\ loaded[seq + 1].seq = seq + 1 /\ loaded[seq + 1].prompt = Prompt

\* _replay_match
ReplayMatch ==
  /\ replaying /\ seq < Len(loaded)
  /\ loaded[seq + 1].seq = seq /\ loaded[seq + 1].prompt = Prompt

\* Mutant: a replayed call reports the tokens of the original.
ReplayCall_Billed ==
  /\ stage = "debate" /\ ReplayMatch
  /\ AdapterReturns(loaded[seq + 1].answer)
  /\ seq' = seq + 1
  /\ replayed' = replayed + loaded[seq + 1].answer.tokens
  /\ UNCHANGED <<stage, file, loaded, replaying, tally>>

\* A replayed call costs nothing in this invocation.
ReplayCall ==
  /\ stage = "debate" /\ ReplayMatch
  /\ AdapterReturns([loaded[seq + 1].answer EXCEPT !.tokens = 0])
  /\ seq' = seq + 1
  /\ replayed' = replayed + loaded[seq + 1].answer.tokens
  /\ UNCHANGED <<stage, file, loaded, replaying, tally>>

\* The answer is recorded as the adapter gave it, before the engine parses it.
LiveCall(response) ==
  /\ stage = "debate" /\ ~ReplayMatch
  /\ AdapterReturns(response)
  /\ JournalAppend(CallRecord(response))
  /\ replaying' = FALSE
  /\ seq' = seq + 1 /\ live' = live + 1
  /\ UNCHANGED <<stage, loaded, replayed, invocations, sealed>>

LiveCallRaises ==
  /\ stage = "debate" /\ ~ReplayMatch
  /\ AdapterRaises
  /\ replaying' = FALSE
  /\ UNCHANGED <<stage, file, loaded, seq, replayed, tally>>

\* Mutant: the answer that cannot be recorded is passed over.
LiveCallUnencodable_GoesOn ==
  /\ stage = "debate" /\ ~ReplayMatch /\ journal # "mute"
  /\ \E response \in Responses : AdapterReturns(response)
  /\ text' = Opened /\ journal' = "writing" /\ UNCHANGED due
  /\ replaying' = FALSE /\ live' = live + 1 /\ seq' = seq + 1
  /\ UNCHANGED <<stage, loaded, replayed, invocations, sealed>>

\* An answer with a lone surrogate ("\\ud800" in the model's JSON) is no UTF-8 text:
\* _write raises a ValueError, not an OSError, before anything is written, and ends
\* the debate after the call was paid for.
LiveCallUnencodable ==
  /\ stage = "debate" /\ ~ReplayMatch /\ journal # "mute"
  /\ AdapterRaises
  /\ text' = Opened /\ journal' = "writing" /\ UNCHANGED due
  /\ replaying' = FALSE /\ live' = live + 1
  /\ UNCHANGED <<stage, loaded, seq, replayed, invocations, sealed>>

DebateStep ==
  /\ stage = "debate"
  /\ Engine \/ Tick
  /\ UNCHANGED <<stage, file, llm, tally>>

-----------------------------------------------------------------------------
(* The rest of an invocation (cli._run_consensus).                         *)

Conclusive == result.status \in {"unanimous", "no_consensus"}
Verdict    == [status |-> result.status, decision |-> result.decision]

\* A result is appended; an error is not.
RecordResult ==
  /\ stage = "debate" /\ pc = "done"
  /\ IF Returned THEN JournalAppend(ResultRecord(result)) ELSE UNCHANGED file
  /\ sealed' = IF Conclusive /\ journal' = "writing" THEN sealed \cup {Verdict} ELSE sealed
  /\ stage' = "close"
  /\ UNCHANGED <<vars, llm, invocations, live>>

\* close() may still get the buffered record out.
CloseJournal ==
  /\ stage = "close" /\ stage' = "down"
  /\ \/ text' = text
     \/ \E record \in due : text' = Completed(text, record)
  /\ due' = {}
  /\ UNCHANGED <<vars, journal, llm, tally>>

\* The process dies, perhaps within a write.
Crash ==
  /\ stage # "down" /\ stage' = "down"
  /\ \/ text' = text
     \/ /\ stage = "debate" /\ journal = "unopened"
        /\ pc = "call" \/ Returned
        /\ text' \in Interrupted(text, Header)
     \/ /\ stage = "debate" /\ pc = "call" /\ ~ReplayMatch /\ journal # "mute"
        /\ \E response \in Responses : text' \in Interrupted(Opened, CallRecord(response))
     \/ /\ stage = "debate" /\ Returned /\ journal # "mute"
        /\ text' \in Interrupted(Opened, ResultRecord(result))
  /\ due' = {}
  /\ UNCHANGED <<vars, journal, llm, tally>>

\* Mutants: replaying is not switched on, or the last record is lost.
LoadCalls_NoReplay ==
  loaded' = CallsOf(text) /\ replaying' = FALSE /\ seq' = 0 /\ replayed' = 0

LoadCalls_OneShort ==
  /\ loaded' = IF CallsOf(text) = <<>> THEN <<>> ELSE Front(CallsOf(text))
  /\ replaying' = (loaded' # <<>>)
  /\ seq' = 0 /\ replayed' = 0

\* A fresh JournaledLlm over the recorded calls.
LoadCalls ==
  /\ loaded' = CallsOf(text) /\ replaying' = (loaded' # <<>>)
  /\ seq' = 0 /\ replayed' = 0

\* There is a header, and the arguments of a resume, completed from it, are what it
\* says: ensure_matches compares every setting.
Matches(surface, given) ==
  /\ RecordsOf(text) # <<>>
  /\ LET saved == RecordsOf(text)[1].settings
         settings == SettingsOf(surface, given, saved)
     IN  Accepted(surface, settings) /\ settings = saved

\* --resume: repair, load, and start the debate over with a fresh deadline and
\* no tokens spent.
Resume(surface, given) ==
  /\ stage = "down" /\ invocations < MaxInvocations
  /\ Matches(surface, given)
  /\ text' = Repair(text)
  /\ invocations' = invocations + 1
  /\ stage' = "debate" /\ journal' = "writing"
  /\ LoadCalls
  /\ pc' = "before" /\ expired' = FALSE
  /\ round' = 0 /\ current' = <<>> /\ results' = <<>> /\ transcript' = <<>>
  /\ spent' = 0 /\ raw' = NoAnswer /\ result' = Pending
  /\ billed' = 0 /\ calls' = 0 /\ late' = 0
  /\ UNCHANGED <<due, live, sealed>>

\* A journal without a record, or settings other than the header's, which are found
\* out after the repair: the invocation ends.
ResumeRefused(surface, given) ==
  /\ stage = "down" /\ invocations < MaxInvocations
  /\ ~Matches(surface, given)
  /\ text' = Repair(text)
  /\ invocations' = invocations + 1
  /\ UNCHANGED <<vars, stage, journal, due, llm, live, sealed>>

Over == stage = "down" /\ invocations = MaxInvocations /\ UNCHANGED runVars

Invocation ==
  \/ DebateStep \/ ReplayCall \/ LiveCallRaises \/ LiveCallUnencodable
  \/ \E response \in Responses : LiveCall(response)
  \/ RecordResult \/ CloseJournal \/ Crash

RunNext ==
  \/ /\ UNCHANGED origin
     /\ \/ Invocation
        \/ \E surface \in Surfaces, given \in ResumeArgs :
             /\ Givable(surface, given)
             /\ Resume(surface, given) \/ ResumeRefused(surface, given)
  \/ Over

RunSpec == RunInit /\ [][RunNext]_runVars

-----------------------------------------------------------------------------
(* Properties.                                                             *)

\* A call whose record survives in the journal is never made, and so never paid
\* for, again ("replays the recorded ... prefix without re-billing", README.md:241).
NoRebilling ==
  [][live' > live => \A k \in DOMAIN CallsOf(text) : CallsOf(text)[k].prompt # Prompt]_runVars

\* A resumed debate asks for exactly the recorded prompts, in their order, before
\* it asks anything else: no record is passed over by a prompt that differs.
ReplayIsExact ==
  stage = "debate" /\ ~replaying => seq >= Len(loaded)

\* While the journal works, it explains the debate: the k-th accepted position,
\* replayed or live, is the answer of the k-th recorded call.
JournalExplainsTranscript ==
  stage = "debate" /\ journal = "writing" =>
    LET accepted == FlattenSeq(transcript) \o results
        recorded == CallsOf(text)
    IN  /\ Len(accepted) <= Len(recorded)
        /\ \A k \in DOMAIN accepted :
             /\ accepted[k].stance = recorded[k].answer.stance
             /\ accepted[k].agent = recorded[k].prompt.agent

\* tokens_spent and tokens_replayed of a result together count each call of the
\* debate once, whichever invocation paid for it.
ReplayedPlusSpent ==
  stage = "debate" /\ Returned /\ journal = "writing" =>
    LET answers == [k \in 1..seq |-> CallsOf(text)[k].answer]
    IN  result.tokens + replayed = TokensOf(answers)

\* Once a verdict is in the journal every later invocation that reaches a verdict
\* reaches the same one ("deterministic debugging", SKILL.md:39) ...
VerdictIsStable ==
  /\ Cardinality(sealed) <= 1
  /\ stage = "debate" /\ Conclusive /\ sealed # {} => Verdict \in sealed

\* ... and makes no call.
SealedRunIsFree == [][live' > live => sealed = {}]_runVars

\* Whatever a run went through and by whichever surface it began, it can be gone
\* on with by its identifier alone: from the command line, and from the plugin
\* unless the context has blanks around it, which the plugin strips from the
\* header's as well, or the adapter is one the plugin has not ("derive defaults
\* from the locked header", cli.py:275, plugin.py:230).
BareResumeIsAccepted ==
  stage = "down" /\ RecordsOf(text) # <<>> =>
    LET settings == RecordsOf(text)[1].settings IN
    /\ Matches("cli", Bare)
    /\ Matches("plugin", Bare) \/ settings.context # Strip[settings.context]
                              \/ settings.adapter \notin RealAdapters

\* README.md:241-242: resume "replays the recorded successful prefix ..., then
\* retries from the first unrecorded (failed) call": the call at which a debate
\* fails is not in the journal.
FailedCallIsUnrecorded ==
  stage = "debate" /\ result.status \in {"adapter_error", "protocol_error"} =>
    \A k \in DOMAIN CallsOf(text) : CallsOf(text)[k].prompt # Prompt
================================================================================
