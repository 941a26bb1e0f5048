# Verification of cluxion-effort-ultracode

TLA+ specifications of the *ultracode* debate engine, its run journals, its
adapters and their child processes, TLC configurations that model-check them on
small instances, and TLAPS proofs. Paths below are relative to `src/src/cluxion_effort_ultracode/`
unless they begin with `src/`; `PROJECT.json` maps each definition to the lines
it stands for.

## 1. The system

*ultracode* asks several LLM "agents" the same question, shows them each
other's positions over a few rounds, and reports a consensus only if all of them
agree. A run is recorded in an append-only JSONL journal, from which it can be
resumed without paying for the recorded calls again.

| Component | State | Operations | What makes it correct |
|---|---|---|---|
| Consensus engine (`core/consensus.py`) | round, positions, transcript, tokens spent, deadline | `decide`: gather the opening positions, gather debate rounds, judge unanimity, abort on deadline, budget or lost quorum | No agreement is fabricated; a stance changes only with a stated concession; tokens are counted once; overrun is one call; it always ends |
| Parallel gathering (same file) | a thread pool, one future per agent, results, a post-deadline drain | submit, wait per agent, drop a hung agent, count the siblings of a late answer, require a quorum | One hung thread stops neither its siblings nor the debate; a call is never counted twice |
| Run journal (`core/journal.py`, `core/journal_records.py`) | one file per run identifier, an advisory lock, an append handle | claim with `O_EXCL`, lock, verify inode, append, `resume` with repair of a torn tail, close | Crashes and failed writes leave a journal readable and numbered without gaps; one appender |
| Replay (`JournaledLlm`) | recorded calls, `seq`, `_replaying`, tokens replayed | answer from the record while prompts match, then call and record | Replay is exact and free; a recorded verdict is reached again |
| Journal life cycle (`core/journal_lifecycle.py`) | a batch of retained, locked descriptors | `gc` dry run, `gc --apply` (preflight, check, unlink, release), list | Only old journals nobody uses are deleted; all or nothing in the preflight; no lock leaks |
| Command line, plugin (`cli.py`, `plugin.py`) | one invocation, its settings | settings from arguments or the locked header, debate, append the result, close | A result is recorded once and an error never; a run can be resumed by its identifier alone |
| Subprocess runtime (`adapters/subprocess_common.py`) | registered children, signal hooks, a cleanup flag | `run_process`, terminate, register, `_reap_live_processes`, `_handler` | No group that is known outlives the program; every call has a limit |
| Codex adapter (`adapters/codex_llm.py`) | usage of the last call | structured call with one repair, transient retry of each form | At most four processes per call; usage is whole or unknown |
| Hermes adapters (`adapters/hermes_llm.py`) | usage of the last call, a deadline; the bridge's request and envelope | ask the host under one deadline, repair once; launch the bridge and read its envelope | Usage is whole or unknown; a host that keeps to its time leaves time for the answer; a hung bridge is ended |
| Callable adapter, factory, doctor, types | none, or constants | construction, probes | – |

How they meet: the command line and the plugin build a `ConsensusEngine` over a
`JournaledLlm` over an adapter. `JournaledLlm` declares itself serial, so the
engine asks one agent after the other; an adapter used without a journal is
called from a pool of threads. Processes of one user meet only in the journals
directory: through `O_EXCL`, `flock`, and paths that `gc` may unlink. Adapters
meet the operating system: children, signals, `atexit`. The Hermes client and the
bridge process meet in one request and one envelope. What the engine knows of an
adapter is an answer or an exception, and the attribute `last_usage`.

What is hard here, and what a test hardly reaches:

* **interleaving of processes** on a path: create / lock / verify / unlink are
  separate system calls, and the file behind a path may change between them;
* **crashes and failed writes** inside a record, with a buffer that `close()` may
  flush later, followed by a resume that appends to what is left;
* **the deadline** passing between any two reads of the clock, and answers that
  arrive late, malformed, or while the engine counts;
* **threads** that finish while the collector accounts for them, or never;
* **replay**, where one missing or repeated record makes all later calls cost;
* **signals** that arrive anywhere in the main thread, also inside their handler;
* **timeouts and retries** below one call: what a lost run had cost is unknown, and
  one deadline is divided between two processes and two requests;
* **two surfaces** that put the settings of a resume together by different rules.

`PROJECT.json` lists these hazards one by one with their lines and properties.

## 2. Modules

```
JournalFile   framing of a journal file: whole lines, torn tail, repair, corrupt
  JournalStore            the journals directory under concurrent processes
    MCJournalStore        its instances
    JournalStore_proofs   TypeCorrect, OwnershipHolds, JournalsStayWellFormed, and more
  JournalFile_proofs      records and calls of a file, what writes and repairs do to them
Positions     positions and stances: parsing, concession rule, majority, unanimity
  HonestDebate            abstract: what a debate promises
  Debate                  decide over a serial adapter       => HonestDebate
    MCDebate
    Debate_proofs         HonestDebateIsImplemented and four invariants
    JournaledRun          Debate + JournalFile + RunSettings: one run, several invocations
      MCJournaledRun
      JournaledRun_proofs    RecordedCallsAreFree, VerdictsAreStable, RunsCanBeResumed, and more
    ParallelDebate        decide over a thread pool          => HonestDebate
      MCParallelDebate
      ParallelDebate_proofs  HonestDebateWithQuorumIsImplemented, AbortsCountTheSnapshot
RunSettings   the settings of an invocation, by either surface
LlmPort       abstract: what complete() and last_usage promise
AdapterCalls  calls of one thread, time, usage accounting
  CodexCalls              CodexSubprocessLlm
  HermesCalls             HermesHostLlm, HermesSubprocessLlm, the bridge
    Adapters              the adapters behind the port       => LlmPort
      MCAdapters
      Adapters_proofs     PortIsImplemented and four invariants
ChildProcesses            run_process, the registry and the signal cleanup
  MCChildProcesses
  ChildProcesses_proofs   TypeCorrect and four invariants
SequenceFolds lemmas on induction, folds over sequences and sums over finite sets
```

**JournalFile.** A file is a sequence of lines; a line is a body and a flag for
its line feed. A body is a record, `Torn` (not JSON), `Scalar` (JSON that is no
object) or `Blank`. `OpenTail`, `Corrupt`, `RecordsOf` and `Repair` are
`_parse_jsonl_bytes` and `_read_records_from_fd`; `Interrupted` gives the files a
write cut off anywhere can leave, and `Completed` those a later flush of the
same buffer leaves.

**JournalStore.** Writers (fresh runs), Resumers, Collectors (`gc --apply`) and
Inspectors (`gc` dry run) over a directory that maps run identifiers to inodes.
A step is one system call another process can see, or one record written.
`Claim`, `LockGranted`/`LockBusy`/`LockUnsupported`, `VerifyInode`/`VerifyFails`
are `_open_append`; `ResumeOpen`, `ResumeRead`, `ResumeCorrupt` are `resume`;
`Write`, `WriteFails`, `UnrecordedCall`, `Close*` the rest of a run; the `Gc*`
actions are the two phases of `gc_journals` with each of their errors. A crash
closes the descriptors of a process and so drops its locks. An inode number is
used again once no path and no descriptor refers to it.

**Positions, Debate.** `Debate` has one action for each stretch of `decide`
between two places where the clock is read or the adapter is called. The clock
is one bit, `expired`, that may turn at any step, and the adapter returns any of
`Responses` or raises at any call. `TakeLateAnswer` precedes `TakeAnswer` as the
deadline check precedes parsing in `_complete`. Stances are model values, and
`normalize_stance` is the constant function `Norm`; in the instances two stances
differ in wording only and one normalises to nothing.

**HonestDebate.** The abstract promise: rounds are closed one by one while there
is no agreement and rounds are left; positions of a round belong to agents of
the round before, and a changed stance was conceded; the outcome is given once:
unanimous only on a non-empty stance that all agents of the last round mean, no
consensus only after the last round and with a majority only where more than half
mean it, an abort with the rounds that were closed. Agreement and majority are
defined anew here and not by the operators the engine uses.

**ParallelDebate.** Replaces the gathering of `Debate` with futures (`slot`), a
first-in-first-out pool of `Workers` threads, and a collector that waits for the
futures in order (`turn`). A wait may time out whenever its future is not done:
the lengths of the time limits are not modelled. `SeeLateAnswer` freezes the set
of completed siblings and `DrainSibling` counts them while threads go on.

**JournaledRun.** Composes `Debate` with a journal file: `ReplayCall` answers
from the loaded records, `LiveCall` asks the adapter and appends the answer
before the engine has parsed it, as the code does. An invocation can crash in any
state, also within a write; an append can fail and silence the journal; an answer
that is no UTF-8 text ends the debate before anything of it is recorded
(`LiveCallUnencodable`); the next `Resume` repairs the file, loads it and debates
anew with a fresh deadline, or is refused (`ResumeRefused`) when the settings are
not those of the header. It leaves out other processes: JournalStore shows that a
run that owns its journal is alone with it.

**RunSettings.** `CliSettings` and `PluginSettings` are the two ways to settings:
an absent argument takes the header's value, a null one means something else in
each field of the plugin, and texts are stripped or not. `Strip` is a constant
function on the texts that occur. JournaledRun begins a run by either surface and
resumes it by either; in the instance one run has settings the
plugin cannot go on with, one only the plugin can begin, and one can be begun and
resumed by both.

**ChildProcesses.** The threads of `run_process` and the activations of
`_reap_live_processes` on the main thread's stack. A process group is one actor
that may end by itself, ignore SIGTERM or never end. What a handler chains to
(the default action, an exception such as KeyboardInterrupt, or a handler that
lets the program go on) is chosen at the start. `Popen` and `_register_child` are
two steps, and so are registration and hooking, which only the main thread can
do. The cleanup collects exit statuses with `waitpid`, and `communicate` then
reports 0 for the child.

**LlmPort.** The abstract promise of one call, from the engine's side of the port:
a bounded number of requests, and a reported usage that is the sum of what all of
them were told to have cost, or absent. The history variables `told` and `untold`
say what the model's side knows.

**AdapterCalls.** What the adapters share: calls one after the other, `elapsed`
time of the call, `usage` (`last_usage` with `usage_unknown`), `Account`, which
makes the whole unknown once a part is, and the two readers of a report,
`EngineReads` (`_real_token_usage`) and `RecordReads` (`_real_usage`). Times are
whole numbers; every step takes one of `Delays`.

**CodexCalls.** A run of `codex exec` is one step, since ChildProcesses shows that
it ends: it answers (`CodexAnswers`, with a report, a JSON object or not), breaks
with an error that is not retried, does not find its program, or is lost to a
timeout or an OSError and tried once more after `Pause`. Each prompt form has two
runs of its own. A lost run may have been answered: the directory is removed last.

**HermesCalls.** `HostAsk`, `HostReturns` and `HostRaises` are `_complete_text`,
in the process of the caller or in the bridge; `Prepare`, `Launch`, `BridgeEnds`
are the client; `BridgeStarts` the bridge with the deadline it makes of the
timeout in the request; `KillBridge` the client's timeout, at any position of the
bridge, also after it has printed. `HostTimeout` keeps a reserve of half the
remaining time, up to a cap; times being whole, the half is rounded down, which
only lowers the reserve.

**Adapters.** The choice of an adapter and calls in a row; `LastUsage` is the
attribute of the adapter the engine holds, which for the bridge is the client's.

## 3. Runs

| Run | Instance | Shows |
|---|---|---|
| `store_recover` | a fresh run, two resumes, 2 inodes, 2 calls, 5 initial files | after crashes, failed writes and late flushes: `JournalsWellFormed` (readable, numbered without gaps, the result last and after all its calls), `RecordsOnlyGrow`, `TypeOK` |
| `store_gc` | a fresh run, a resume, `gc --apply`, a dry run on one path | `OwnerIsLinked` and the inductive invariant `Ownership` |
| `store_batch` | a resume and a `gc --apply` over two paths, damaged files too | `FailedPreflightKeepsAll`, `LocksAreHeldOpen`, `OnlyStaleUnlinked`, `CorruptIsUntouched`, `EveryoneFinishes` |
| `store_nolocks` | two fresh runs, a resume, both gcs, no `fcntl` | `SingleAppender` from `O_EXCL` alone |
| `debate` | 3 agents, 2 debate rounds, stances that differ in wording or normalise to nothing, budget 9 | `ImplementsHonestDebate`, `TokensCountedOnce`, `LateAnswersEndIt`, `BudgetOvershootsOneRound`, `EndsUnlessACallHangs`, `TypeOK` |
| `run_resume` | 2 agents, 1 debate round, 3 invocations from both surfaces, 3 ways to begin | `ReplayIsExact`, `JournalExplainsTranscript`, `ReplayedPlusSpent`, `VerdictIsStable`, `NoRebilling`, `SealedRunIsFree`, `BareResumeIsAccepted` |
| `run_retry` | 2 agents, 1 debate round, 2 invocations; **violated** | `FailedCallIsUnrecorded`, finding 1 |
| `parallel_quorum` | 3 agents, 2 workers, quorum 2, 1 debate round | `ImplementsHonestDebateWithQuorum`, `AbortCountsTheSnapshot`, `EndsDespiteHangs` |
| `parallel_tokens` | 2 agents, no debate round; **violated** | `QuorumAbortCountsCalls`, finding 2 |
| `children` | the main thread, a worker, 2 signals | `NoStubbornSurvivor`, `WaitedForIsRegistered`, `KilledIsNoSuccess`, `SurvivorsWereNotKnown`, `CallsEnd`, `HandlersEnd`, `TypeOK` |
| `adapters` | two calls through each adapter, timeout 8, steps of 0, 1, 3 or 8 | `ImplementsPort`, `JournalReadsAlike`, `KilledMeansSlow`, `CodexTimeIsBounded`, `TimedCallsEnd`, `TypeOK` |
| `adapters_timeout` | one call; **violated** | `AgentTimeoutCapsCall`, finding 3 |

Every property of a passing run has a mutant beside the definition it changes (a
dropped check, a missing reset, a swapped order), under which TLC finds the
property violated.

**Bounds, and why they suffice.** In JournalStore the errors are races of two or
three parties on one path, so each role appears once, or twice where two of a
kind can meet; two inodes let a path get a new file while an old one is still
open; the initial files cover what a crash can leave, so a short run meets long
histories; two calls are the fewest with a gap between them. A directory with two
runs is needed only for batches. In Debate, three agents are the fewest with a
majority that is not unanimity, two debate rounds are the fewest in which a round
follows one that was no opening, and the budget of 9 may be kept or exceeded in
either, since answers cost from one to three. Three
invocations let a resume find the remains of a resume; for the
runs of which only the settings matter (`AwkwardRunsAreShort`, a constraint on the
states TLC explores) two are enough, up to the opening round's end. With three agents on two
workers one task queues behind hung ones and a quorum of two can be lost or kept.
Two signals are the fewest that nest; with two callers one runs in the main thread
and one does not. In Adapters, two calls let the usage of the first be mistaken for
the second's; a step may take no time, some, or the whole timeout, so every
deadline is met, missed and hit exactly; the reports have a total alone, both
parts, one part, zeros, or are missing. `MaxCalls`, `MaxInvocations`, `MaxSignals`,
`AgentsCount` and `MaxRounds` are the only bounds on behaviour. Symmetry is used
only where no liveness is checked. `MaxRounds` up to 8 and `AgentsCount` from 2 to
8 are the code's own.

**Deadlock** is checked wherever a final state stutters by an explicit action
(`Finished`, `Over`); `children` switches it off because a program that has ended
takes no step.

**Fairness.** `EveryoneFinishes`: each process goes on with its own next system call
(weak fairness per process); beginning, crashing and ageing are not fair.
`EndsUnlessACallHangs`: the engine runs, and nothing is asked of its adapter. The
serial engine sets no timer around a call, and `HermesHostLlm`, the plugin's
default, calls its host in the engine's thread (`adapters/hermes_llm.py:140`); so
the property says that the debate ends or stays in one call for ever.
`TimedCallsEnd` rules the latter out for Codex and the bridge; for a host it depends
on whether the host heeds the timeout it is given, which lies outside this
repository. `EndsDespiteHangs`: only the engine's own thread is fair; the pool's
threads may hang for ever, because each wait has a timeout. `CallsEnd` and
`HandlersEnd`: threads run and timers fire, children need never end.
`TimedCallsEnd`: the caller's own thread runs and its timers fire, for Codex and the
bridge's client; the host, the bridge and their answers may be for ever in coming,
and a call of the host adapter, which has no timer of its own, ends only if the host
returns.

## 4. Proofs

The theorems hold for every value of the constants. What they assume is what the
modules assume by name: the bounds are naturals, the roles are disjoint, a value
such as `None` is none of those it is used beside, counts have the ranges
`__init__` enforces, stripping a text twice strips it once (`SettingsConstants`),
arguments and defaults have the fields the surfaces read and no default is null
(`ArgsConstants`), and in a journal an earlier run left only the last line lacks
its line feed (`SeedsTidy`), which is how a file splits into lines. TLC evaluates
these assumptions in each run. Two theorems have a hypothesis of their own, named
below (`SoundSeeds`, `SomeAnswerIsCostliest`).

### The journals directory

Any number of runs, files, fresh runs, resumes and collectors, any initial files,
with and without locks. All in `JournalStore_proofs`:

* `TypeCorrect`: `Spec => []TypeOK`.
* `OwnershipHolds`: `Spec => []Ownership`.
* `ActiveJournalsStayLinked`: `Spec => []OwnerIsLinked`.
* `OneAppender`: `Spec => []SingleAppender`.
* `OnlyStaleFilesGo`: `Spec => OnlyStaleUnlinked`.
* `NoLockIsLeftBehind`: `Spec => []LocksAreHeldOpen`.
* `FailedPreflightIsHarmless`: `Spec => []FailedPreflightKeepsAll`.
* `RecordsAreNeverLost`: `Spec => RecordsOnlyGrow`.
* `CorruptJournalsStay`: `Spec => CorruptIsUntouched`.
* `JournalsStayWellFormed`: `SoundSeeds => (Spec => []JournalsWellFormed)`.

*Who owns a file.* `OwnerIsLinked` is not inductive: it says nothing of a process
between its lock and its check, nor of a collector with several retained locks.
`Ownership` adds, as named parts, that a file is linked at one path (`OnePath`);
that each position has the file and run it needs (`HasFile`) and belongs to the
right role (`Roles`); that all but dry runs hold the lock from the grant on
(`HoldsLock`); that a verified path keeps its file (`StaysLinked`); that gc looks at
each path once (`MovesOn`); and that what a collector retains is locked, linked,
distinct from what it inspects, and past the cutoff (`KeptIsLocked`, `KeptIsOld`,
`VerifiedIsKept`). The argument in a sentence: a path loses its file only by
`GcUnlink`, whose file is retained and hence locked by the collector; an owner
holds the lock of the file at its path; so the two are not the same file. Where
there are no locks, `ApartWithoutLocks` carries `SingleAppender` instead, from
`O_EXCL` and from the refusal of resume and `gc --apply` to run. The proof has
one lemma per group of actions, and `OnlyStaleFilesGo` uses the invariant in each
step that changes the directory. `NoLockIsLeftBehind` adds that a retained file is
the one its collector has open or has set aside, and `FailedPreflightIsHarmless`
that a collector has removed nothing at the positions of a preflight.

*What is in a file.* `Contents` holds whatever the journals held before: a file is
empty when its header is due, another line can be added to it while calls are
recorded, and after a failed write it still is one that the rest of the buffer
completes (`Content`); a corrupt file stays where it was found
(`CorruptIsLinked`) and no collector keeps one (`KeptIsClean`). Because
`OneAppender` and `Ownership` leave a file to one process, each step rewrites at
most the file its own process has open, by a whole line, a part of one, a late
flush or a repair (`Rewrites`), and none of these takes a record away; that is
`RecordsAreNeverLost`. The effect of the four kinds of rewriting is stated in
`JournalFile_proofs` (`WholeWrite`, `InterruptedWrite`, `LateFlush`,
`RepairedFile`): the records stay the same, or there is one more.

`Sound` adds that journals are `Numbered` and that a process counts its calls as its
journal does (`Counted`). It needs `SoundSeeds`: the files earlier runs left are
not corrupt and numbered, as those of `CleanSeeds` in `MCJournalStore` are, a torn
header or call and a finished run among them. Without that hypothesis the property
is false, since a resume appends to what it finds.

### The debate

Any stances, normal forms, answers, token budget, two to eight agents and up to
eight debate rounds. All in `Debate_proofs`:

* `HonestDebateIsImplemented`: `Spec => ImplementsHonestDebate`.
* `LateAnswersAbort`: `Spec => []LateAnswersEndIt`.
* `TypeCorrect`: `Spec => []TypeOK`.
* `EveryCallIsCountedOnce`: `Spec => []TokensCountedOnce`.
* `BudgetIsOvershotByOneRound`:
  `SomeAnswerIsCostliest => (Spec => []BudgetOvershootsOneRound)`.

The refinement needs to know where the engine is in a round. `DebateInv` says that
`current` is the last closed round and has a position of each agent in its seat
(`CurrentIsLast`), that the open round is in order and changes no stance without a
concession (`OpenRound`), and what the engine has found about a closed round by
the label it has reached (`ClosedRound`). From it follow, each in a lemma of its
own, that an unanimous round is one the abstract debate calls agreed and the
reverse (`UnanimityIsAgreement`), that the reported majority is one
(`MajorityIsHonest`), that a round the engine closes is admissible
(`CloseIsHonest`), and that each of the seven places that abort report the rounds
completed (`AbortIsHonest`, `RoundsCompleted`); all other steps stutter.
`LateInv` is the inductive form of `LateAnswersEndIt`: after a late answer the
engine is at the clock, and the clock does not go back.

`AccountInv` is what `TokensCountedOnce` needs while a debate goes on: what was
billed is what was spent, the positions accepted in the open round, and the answer
in hand (`Unbooked`). `BudgetInv` adds that a round is opened within the budget only
and that what it has cost is at most the costliest answer for each call made in it.
Its hypothesis says that one of the answers is the costliest: where answers have no
bound, nothing bounds what a round costs.

### The parallel engine

Any number of workers and any quorum the code accepts besides. All in
`ParallelDebate_proofs`, which uses the lemmas about agreement and majority of
`Debate_proofs`:

* `HonestDebateWithQuorumIsImplemented`:
  `ParallelSpec => ImplementsHonestDebateWithQuorum`.
* `AbortsCountTheSnapshot`: `ParallelSpec => []AbortCountsTheSnapshot`.

`PoolInv` is the counterpart of `DebateInv`. A closed round is a quorum of positions
in the order of the agents, not one for each seat (`CurrentIsQuorum`,
`OpenQuorum`), so the proof goes through the position each agent had before
(`Follows`); and a future belongs to one agent of the round, holds a position of
that agent, and what the collector has taken from it is what it holds (`Pooled`).
Threads run between any two steps of the collector and change only futures that are
not done.

`SnapshotInv` says what the tokens are during a drain: `spent` is the cost of the
closed rounds and of the part of the snapshot that has been counted, `completed` is
the size of that part, and a sibling is in the snapshot if and only if its call had
completed when it was taken, whatever completes since (`Snapshot`). `Booked` bounds
the same by what was billed: the closed rounds and the sum of the weights of all
futures. Its proof is about sums over a set that loses one member in each step
(`SumWithout`, `SumOfPart`).

### Replay and resume

Any settings, arguments, answers, agents and rounds, and any number of
invocations, crashes and failed writes. All in `JournaledRun_proofs`, over
`AccountInv` of `Debate_proofs` and the lemmas of `JournalFile_proofs`:

* `RecordedCallsAreFree`: `RunSpec => NoRebilling`.
* `ReplayGoesToTheEnd`: `RunSpec => []ReplayIsExact`.
* `JournalExplains`: `RunSpec => []JournalExplainsTranscript`.
* `EveryCallIsPaidOnce`: `RunSpec => []ReplayedPlusSpent`.
* `VerdictsAreStable`: `RunSpec => []VerdictIsStable`.
* `SealedRunsAreFree`: `RunSpec => SealedRunIsFree`.
* `RunsCanBeResumed`: `RunSpec => []BareResumeIsAccepted`.

`RunInv` has three parts. `Founded` says that the settings came from arguments of
one surface and were accepted. `FileInv` is about the file alone, in every stage:
its header comes first and repeats the settings, and its calls are `InSequence`,
that is, record number k is the call of round r and agent a with k = r N + a, it
has sequence number k - 1, and its prompt shows the stances recorded of round
r - 1, which did not agree. A write that fails leaves such a file, and so does the
flush of what it left in the buffer (`Awaiting`) and the repair by the next
invocation (`WholeKeepsJournal`, `InterruptedKeepsJournal`, `FlushKeepsJournal`,
`RepairKeepsJournal`).

`Sync` relates the debate to the file while an invocation runs: `seq` is the number
of answers that have come in (`Counted`); while the journal works, the k-th
accepted position has the stance of the k-th record (`Explained`) and the records
up to `seq` cost what was billed and replayed together (`Paid`). The heart of it is
`PromptIsRecorded`: because the positions shown in a prompt are those accepted in
the last round, which the records explain, the record in the place of a call has
the very prompt of the call; so replay cannot stop before the journal ends
(`LiveIsBeyond`), and since a number has one round and one agent (`PlaceIsUnique`)
no record beyond or before that place has its prompt (`BeyondIsNew`). The
invariant needs the engine's `CurrentIsLast` and `OpenRound`, and, for the tokens,
that an answer replayed at no cost is still one the engine may be given (`Moves`).

For the verdicts, `SealInv` says that a journal with a verdict is `Full`: it ends
with a whole round after which no round is held, because the round agrees or is the
last. A record that comes next would contradict `InSequence` (`FullIsLast`), so
later invocations replay all of it, and the verdict is `VerdictOf` the journal.

`RunsCanBeResumed` needs of the settings only that the question and, for the
plugin, the context survive being stripped once more, which is why it excepts a
context with blanks around it.

### Adapters

Any timeout, delays, reports and number of calls.

* `Adapters_proofs!TypeCorrect`: `Spec => []TypeOK`.
* `CodexCallsEndInTime`: `Spec => []CodexTimeIsBounded`.
* `BridgesAreEndedForCause`: `Spec => []KilledMeansSlow`.
* `JournalAgreesWithEngine`: `Spec => []JournalReadsAlike`.
* `PortIsImplemented`: `Spec => ImplementsPort`.

`CodexInv` bounds time and requests by prompt form and attempt: before the k-th run
at most k - 1 runs and the pauses between them have passed. `BridgeInv` relates
what has passed at the client to the bridge's deadline by way of the time granted
in the request, so that a bridge that is killed had a host that was slow.
`UsageInv` says that a known usage is the sum of what the requests of the call were
told to have cost, unless the call fails. `HostInv` says which requests have been
made, by the position of the call. `PortIsImplemented` uses type correctness,
`CodexInv`, `HostInv` and `UsageInv` in each step that begins or ends a call; the
others stutter.

### Child processes

Any number of threads and signals, and any earlier disposition of the signal.

* `ChildProcesses_proofs!TypeCorrect`: `Spec => []TypeOK`.
* `WaitedForStaysRegistered`: `Spec => []WaitedForIsRegistered`.
* `StubbornGroupsAreKilled`: `Spec => []NoStubbornSurvivor`.
* `KilledChildIsNoSuccess`: `Spec => []KilledIsNoSuccess`.
* `SurvivorsWereRegisteredTooLate`: `Spec => []SurvivorsWereNotKnown`.

`ChildInv` adds that a child belongs to one call (`Owned`), so that no call
unregisters another's; that what is registered was started and stays registered
from `_register_child` on while it runs (`Registered`); that a snapshot which is
being drained has no running group left (`Snapshots`), which is why a cleanup may
forget it; and that a status the cleanup took goes to the main thread only if it
has come back from a handler (`Collected`). For the calls of other threads, `Ending`
says that once a status was taken the program is in a cleanup, ending, or one whose
earlier handler goes on. The lemmas go by what a step does to
the groups: `Moves` says that no group starts to run again.

`SurvivorInv` adds that before any signal the registry holds only children whose
call is not over (`Known`), so that a cleanup at exit finds nothing to end, and that
with at most one signal a program ends in an activation that has gone through its
snapshot (`LastActivation`). A second signal
breaks the latter, which is why the property speaks of one.

### Induction over data

The library states induction and recursion for predicates and operators passed as
parameters, which the provers at hand cannot instantiate. `SequenceFolds` states
them for sets: strict inclusion between finite sets is well-founded, hence a set
that contains 0 and with n also n + 1 contains all naturals (`InductionOverSet`),
and likewise for finite subsets (`InductionOverSubsets`). From these come what a
fold over a sequence is (`FoldExists`, `FoldIsUnique`), what appending does to it
(`FoldOfAppend`, `FoldPrefix`), and sums over finite sets (`SumOf`). The operators
of the models that fold, `RecordsOf`, `CallsAmong`, `TokensOf`,
`TokensOfRounds`, `FlattenSeq` and the positions a collector keeps, are unfolded once each and
shown to be such folds.

### Model-checked only

Every invariant and action property of the passing runs is proved, and so is every
refinement. What TLC checks alone:

* All liveness: `EveryoneFinishes`, `EndsUnlessACallHangs`, `EndsDespiteHangs`, `CallsEnd`,
  `HandlersEnd`, `TimedCallsEnd`. Liveness under fairness, and ENABLED, are not in
  reach of the prover.
* The three properties of section 5, which are violated.

## 5. Findings

1. **A failed call is replayed and not retried** (`run_retry`).
   `src/README.md:241-242` says that resume "replays the recorded successful
   prefix without re-billing, then retries from the first unrecorded (failed)
   call". `JournaledLlm.complete` appends the answer before the engine parses it
   (`core/journal.py:398`), so a call that failed because its answer was
   malformed is in the journal, and each resume replays the same failure.
2. **An abort for lost quorum forgets tokens** (`parallel_tokens`).
   `src/DESIGN.md:187-188` says that token usage is tracked per logical call.
   `_gather_positions` raises the quorum abort (`core/consensus.py:321`) without
   adding the tokens of the positions it has collected in the open round; the
   serial path and the post-deadline path do add theirs.
3. **A Codex call takes up to four times its timeout** (`adapters_timeout`).
   `src/README.md:233` says that "`--agent-timeout` caps one agent call".
   `CodexSubprocessLlm` gives the whole timeout to each process
   (`adapters/codex_llm.py:124`), and one call starts up to four: one transient
   retry (`adapters/subprocess_common.py:140`) in each of two prompt forms. It may
   then still be answered. The Hermes adapters keep one deadline for the call.

One disagreement has no run. `src/README.md:239-240` says of journaled runs that
"if an agent hangs [...] the current invocation ABORTS". With the host adapter a
call that never returns holds the invocation for ever, since nobody reads the deadline
meanwhile; that is the second case of `EndsUnlessACallHangs`, and the reason why
`TimedCallsEnd` leaves the host out.

The models also record behaviour no document speaks of:

* Hooks are installed from the main thread only, so a program whose calls all run
  in worker threads dies of SIGTERM with its children running; a second signal
  during the cleanup cuts it off before SIGKILL; and a program that outlives a
  signal can take a child the cleanup killed for one that returned 0.
* The plugin strips the context, also the one of a header, so a run the command
  line began with a padded context cannot be gone on with from the plugin.
* An answer with a lone surrogate is paid for, ends the debate and is not in the
  journal: each resume asks for it again.
* A host report with input tokens only counts as complete, with no output.
* An answer in the envelope of a bridge that hangs afterwards is lost with it.

## 6. Not modelled

* Argument parsing, ranges, exit codes and output formats of the command line and
  the plugin; the plugin's registration, and the factory's older contracts.
* The callable adapter: one call of the embedding program, without state.
* The text of prompts, the schema and the JSON of a record; hashes and previews;
  the provider and model attributes, and default models from the environment; the
  kinds of Hermes errors, which all end the call.
* `journals list` and `show`, and the doctor's probes: they keep no state and only
  read.
* Durations outside AdapterCalls: elsewhere time is a deadline that has passed or
  not, and waits that end at any time. Reuse of process identifiers, and groups
  whose members part ways.

## 7. Plan

Written: the journals directory, the engine in both forms with its abstract
specification, replay and resume from both surfaces, the Codex and Hermes adapters
with the abstract port, child processes, and the proofs of section 4. Left, in
this order:

1. An abstract journal, a list of calls that grows, is replayed from its start and
   ends with at most one verdict, implemented by `JournaledRun`; `RunInv` and
   `SealInv` say what the mapping needs.
2. What `JournaledRun` takes from `JournalStore`, that a run is alone with its
   file, as a refinement between the two and not as an argument in prose.
