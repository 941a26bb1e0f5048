----------------------------- MODULE ChildProcesses ----------------------------
(***************************************************************************)
(* The child processes of the subprocess adapters: run_process starts one  *)
(* child per call in a session of its own, registers it, waits with a time *)
(* limit and ends its process group when the limit passes.  A signal to    *)
(* the program runs _handler in the main thread, wherever that thread is:  *)
(* it ends every registered group and then does what the signal did        *)
(* before.  atexit runs the same cleanup.                                  *)
(*                                                                         *)
(* A process group is one actor.  SIGINT and SIGTERM are one signal, whose *)
(* earlier disposition is one of three.  Process identifiers are not       *)
(* reused, what children do after the end of the program is left out, and  *)
(* the calls that send one signal to several groups are one step.          *)
(***************************************************************************)
EXTENDS Integers, FiniteSets, SequencesExt

CONSTANTS Callers,      \* threads that make calls
          Main,         \* the main thread; it need not make calls
          MaxSignals,   \* bound: signals sent to the program
          None

\* How a call ends.
Results == {"zero", "nonzero", "timeout", "error", "interrupted"}

ASSUME ChildConstants ==
  IsFiniteSet(Callers) /\ MaxSignals \in Nat /\ None \notin Nat /\ None \notin Results

\* Each caller makes one call, so there are as many children as callers.
Pids == 1..Cardinality(Callers)

VARIABLES
  pc,          \* where each caller is in run_process
  pid,         \* the child of each caller
  result,      \* how its call ended
  child,       \* state of each process group; "doomed": a signal it cannot survive is sent
  live,        \* _live_processes
  hooked,      \* _signal_hooks_installed
  previous,    \* what the signal did before _register_child hooked it
  cleaning,    \* _signal_cleanup_active
  stack,       \* activations of _reap_live_processes in the main thread, the latest last
  program,     \* "exiting": the main thread joins the others; "atexit": callbacks run
  sent         \* signals sent so far

\* "returns" is SIG_IGN, or a handler after which the program goes on.
Dispositions == {"default", "raises", "returns"}

vars == <<pc, pid, result, child, live, hooked, previous, cleaning,
          stack, program, sent>>
calls == <<pc, pid, result>>

Waits == {"waiting", "grace", "drain"}
Running == {"running", "stubborn"}             \* a stubborn group ignores SIGTERM
Zombies == {"succeeded", "failed"}            \* ended, by exit status; not waited for yet

\* What an activation of _reap_live_processes keeps: where it is, and its snapshot.
Frames == [at : {"term", "poll", "drain", "chain"}, snapshot : SUBSET Pids]

\* Every variable has its type.
TypeOK ==
  /\ pc \in [Callers -> {"idle", "spawned", "hooking", "unregister", "done"} \cup Waits]
  /\ pid \in [Callers -> Pids \cup {None}]
  /\ result \in [Callers -> Results \cup {None}]
  /\ child \in [Pids -> Running \cup Zombies \cup {"unborn", "doomed", "gone", "collected"}]
  /\ live \subseteq Pids
  /\ hooked \in BOOLEAN /\ cleaning \in BOOLEAN
  /\ previous \in Dispositions
  /\ stack \in Seq(Frames)
  /\ program \in {"running", "exiting", "atexit", "dead"}
  /\ sent \in 0..MaxSignals

Init ==
  /\ pc = [c \in Callers |-> "idle"] /\ pid = [c \in Callers |-> None]
  /\ result = [c \in Callers |-> None]
  /\ child = [p \in Pids |-> "unborn"]
  /\ live = {} /\ hooked = FALSE /\ cleaning = FALSE
  /\ previous \in Dispositions
  /\ stack = <<>> /\ program = "running" /\ sent = 0

--------------------------------------------------------------------------------
(* What a signal does to a process group, and how groups end by themselves. *)

Doom(groups, states) ==
  [p \in Pids |-> IF p \in groups /\ child[p] \in states THEN "doomed" ELSE child[p]]
Term(groups) == Doom(groups, {"running"})
\* Mutant: SIGTERM is sent again.
Kill_Terms(groups) == Doom(groups, {"running"})
Kill(groups) == Doom(groups, Running)

ChildEnds(p) ==
  /\ program # "dead"
  /\ \/ child[p] \in Running /\ child' = [child EXCEPT ![p] = "succeeded"]
     \/ child[p] \in Running \cup {"doomed"} /\ child' = [child EXCEPT ![p] = "failed"]
  /\ UNCHANGED <<calls, live, hooked, previous, cleaning, stack, program, sent>>

--------------------------------------------------------------------------------
(* run_process, in any thread; the main thread stops while it runs a handler. *)

Runs(c) == program # "dead" /\ (c = Main => stack = <<>>)

Goto(c, at) == pc' = [pc EXCEPT ![c] = at]

Cleanup == <<hooked, previous, cleaning, stack, program, sent>>

MayStart(c) == /\ Runs(c) /\ pc[c] = "idle"
               /\ program = "running" \/ (program = "exiting" /\ c # Main)

\* A call begins: Popen starts the child, or fails.
Spawn(c) ==
  /\ MayStart(c)
  /\ \E p \in Pids, state \in Running :
       /\ child[p] = "unborn" /\ child' = [child EXCEPT ![p] = state]
       /\ pid' = [pid EXCEPT ![c] = p]
  /\ Goto(c, "spawned")
  /\ UNCHANGED <<result, live, Cleanup>>

\* Mutant: a failed Popen is not noticed.
SpawnFails_GoesOn(c) ==
  /\ MayStart(c)
  /\ Goto(c, "spawned")
  /\ UNCHANGED <<pid, result, child, live, Cleanup>>

SpawnFails(c) ==
  /\ MayStart(c)
  /\ Goto(c, "done") /\ result' = [result EXCEPT ![c] = "error"]
  /\ UNCHANGED <<pid, child, live, Cleanup>>

Register(c) ==
  /\ Runs(c) /\ pc[c] = "spawned"
  /\ live' = live \cup {pid[c]}
  /\ Goto(c, IF hooked THEN "waiting" ELSE "hooking")
  /\ UNCHANGED <<pid, result, child, Cleanup>>

\* signal.signal raises ValueError outside the main thread.
InstallHooks(c) ==
  /\ Runs(c) /\ pc[c] = "hooking"
  /\ hooked' = (hooked \/ c = Main)
  /\ Goto(c, "waiting")
  /\ UNCHANGED <<pid, result, child, live, previous, cleaning, stack, program, sent>>

\* communicate returns; a child the cleanup has collected counts as exit status 0.
Status(state) == IF state = "failed" THEN "nonzero" ELSE "zero"
Returns(c) ==
  /\ Runs(c) /\ pc[c] \in Waits
  /\ child[pid[c]] \in Zombies \cup {"collected"}
  /\ child' = [child EXCEPT ![pid[c]] = IF @ = "collected" THEN @ ELSE "gone"]
  /\ result' = [result EXCEPT ![c] = IF pc[c] = "waiting" THEN Status(child[pid[c]])
                                     ELSE "timeout"]
  /\ Goto(c, "unregister")
  /\ UNCHANGED <<pid, live, Cleanup>>

\* Mutants: the child is unregistered before it has ended; the drain has no limit.
TimesOut_Forgets(c) ==
  /\ Runs(c) /\ pc[c] = "waiting" /\ child' = Term({pid[c]}) /\ Goto(c, "grace")
  /\ live' = live \ {pid[c]}
  /\ UNCHANGED <<pid, result, Cleanup>>
TimesOut_NoDrain(c) ==
  /\ Runs(c) /\ UNCHANGED <<pid, result, live, Cleanup>>
  /\ \/ pc[c] = "waiting" /\ child' = Term({pid[c]}) /\ Goto(c, "grace")
     \/ pc[c] = "grace" /\ child' = Kill({pid[c]}) /\ Goto(c, "drain")

\* _terminate_process_group: SIGTERM, the grace period, SIGKILL, the drain period.
TimesOut(c) ==
  /\ Runs(c)
  /\ \/ pc[c] = "waiting" /\ child' = Term({pid[c]}) /\ Goto(c, "grace") /\ UNCHANGED result
     \/ pc[c] = "grace" /\ child' = Kill({pid[c]}) /\ Goto(c, "drain") /\ UNCHANGED result
     \/ /\ pc[c] = "drain" /\ UNCHANGED child /\ Goto(c, "unregister")
        /\ result' = [result EXCEPT ![c] = "timeout"]
  /\ UNCHANGED <<pid, live, Cleanup>>

Unregister(c) ==
  /\ Runs(c) /\ pc[c] = "unregister"
  /\ live' = live \ {pid[c]}
  /\ Goto(c, "done")
  /\ UNCHANGED <<pid, result, child, Cleanup>>

Call(c) == Spawn(c) \/ SpawnFails(c) \/ Register(c) \/ InstallHooks(c)
           \/ Returns(c) \/ TimesOut(c) \/ Unregister(c)
--------------------------------------------------------------------------------
(* _reap_live_processes, the topmost of the main thread's activations. *)

Top == stack[Len(stack)]
At(place) == program # "dead" /\ stack # <<>> /\ Top.at = place
Put(frame) == stack' = [stack EXCEPT ![Len(stack)] = frame]

\* A cleanup has nothing to do while another one is active, or with no child.
Activation(active) ==
  IF active \/ live = {} THEN [at |-> "chain", snapshot |-> {}]
  ELSE [at |-> "term", snapshot |-> live]
Enter ==
  /\ stack' = Append(stack, Activation(cleaning))
  /\ cleaning' = (cleaning \/ live # {})

\* SIGTERM to every group; the poll ends when no group is left or its time has
\* passed, and SIGKILL goes to what is left; then each child is waited for.
ReapTerm == At("term") /\ child' = Term(Top.snapshot) /\ Put([Top EXCEPT !.at = "poll"])
ReapKill == At("poll") /\ child' = Kill(Top.snapshot) /\ Put([Top EXCEPT !.at = "drain"])
ReapWait ==
  /\ At("drain") /\ UNCHANGED stack
  /\ \E p \in Top.snapshot : /\ child[p] \in Zombies
                             /\ child' = [child EXCEPT ![p] = "collected"]
ReapStep ==
  /\ ReapTerm \/ ReapKill \/ ReapWait
  /\ UNCHANGED <<calls, live, hooked, previous, cleaning, program, sent>>

\* Mutants: everything registered is forgotten; the drain has no limit.
ReapEnds_ForgetsAll ==
  /\ At("drain") /\ live' = {} /\ cleaning' = FALSE /\ Put([Top EXCEPT !.at = "chain"])
  /\ UNCHANGED <<calls, child, hooked, previous, program, sent>>
ReapEnds_WaitsForAll ==
  /\ At("drain") /\ \A p \in Top.snapshot : child[p] \in {"gone", "collected"}
  /\ live' = live \ Top.snapshot /\ cleaning' = FALSE /\ Put([Top EXCEPT !.at = "chain"])
  /\ UNCHANGED <<calls, child, hooked, previous, program, sent>>

\* Everything is collected, or the time to drain has passed.
ReapEnds ==
  /\ At("drain")
  /\ live' = live \ Top.snapshot
  /\ cleaning' = FALSE
  /\ Put([Top EXCEPT !.at = "chain"])
  /\ UNCHANGED <<calls, child, hooked, previous, program, sent>>
--------------------------------------------------------------------------------
(* Signals and the end of the program. *)

MainIsInACall == Main \in Callers /\ pc[Main] \notin {"idle", "done"}

\* An exception in the main thread ends every activation and the main thread's
\* own call: run_process unregisters only a child it has begun to wait for.
Interrupted ==
  /\ \/ /\ program = "running" \/ (program = "exiting" /\ MainIsInACall)
        /\ program' = "exiting" /\ stack' = <<>> /\ cleaning' = FALSE
     \/ /\ program = "exiting" /\ ~MainIsInACall        \* the join ends early
        /\ program' = "atexit" /\ stack' = <<Activation(FALSE)>> /\ cleaning' = (live # {})
     \/ /\ program = "atexit"
        /\ program' = "dead" /\ stack' = <<>> /\ cleaning' = FALSE
  /\ IF MainIsInACall
     THEN /\ Goto(Main, IF pc[Main] \in Waits THEN "unregister" ELSE "done")
          /\ result' = [result EXCEPT ![Main] = "interrupted"]
          /\ UNCHANGED pid
     ELSE UNCHANGED calls

\* Mutant: the default action is not taken again.
Chain_GoesOn ==
  \/ previous = "raises" /\ Interrupted
  \/ /\ previous # "raises"
     /\ stack' = IF stack = <<>> THEN stack ELSE Front(stack)
     /\ UNCHANGED <<calls, cleaning, program>>

\* What follows the cleanup, or the signal where no handler was hooked in.
Chain ==
  \/ /\ previous = "default" /\ program' = "dead"
     /\ UNCHANGED <<calls, cleaning, stack>>
  \/ previous = "raises" /\ Interrupted
  \/ /\ previous = "returns"
     /\ stack' = IF stack = <<>> THEN stack ELSE Front(stack)
     /\ UNCHANGED <<calls, cleaning, program>>

Signal ==
  /\ program # "dead" /\ sent < MaxSignals /\ sent' = sent + 1
  /\ IF hooked THEN Enter /\ UNCHANGED <<calls, program>> ELSE Chain
  /\ UNCHANGED <<child, live, hooked, previous>>

\* The first activation of the atexit phase is the callback itself.
FromAtexit == program = "atexit" /\ Len(stack) = 1

HandlerEnds ==
  /\ At("chain") /\ ~FromAtexit
  /\ Chain
  /\ UNCHANGED <<child, live, hooked, previous, sent>>

MainEnds ==
  /\ program = "running" /\ stack = <<>>
  /\ ~MainIsInACall
  /\ program' = "exiting"
  /\ UNCHANGED <<calls, child, live, hooked, previous, cleaning, stack, sent>>

ThreadsJoined ==
  /\ program = "exiting" /\ stack = <<>>
  /\ \A c \in Callers : pc[c] \in {"idle", "done"}
  /\ program' = "atexit" /\ Enter
  /\ UNCHANGED <<calls, child, live, hooked, previous, sent>>

AtexitEnds ==
  /\ At("chain") /\ FromAtexit
  /\ program' = "dead"
  /\ UNCHANGED <<calls, child, live, hooked, previous, cleaning, stack, sent>>

Reaper == ReapStep \/ ReapEnds \/ HandlerEnds \/ AtexitEnds

Next == \/ \E c \in Callers : Call(c)
        \/ \E p \in Pids : ChildEnds(p)
        \/ Reaper \/ Signal \/ MainEnds \/ ThreadsJoined

Spec == Init /\ [][Next]_vars

\* Threads run and timers fire; a child need never end, nor a signal be sent.
FairSpec == Spec /\ WF_vars(Reaper)
                 /\ \A c \in Callers : WF_vars(pc[c] # "idle" /\ Call(c))
--------------------------------------------------------------------------------
(* Properties.                                                             *)

Outlives(c) == pid[c] # None /\ child[pid[c]] \in Running

\* A running child whose call waits for it is registered, so that every signal
\* and the exit can still end it: a cleanup forgets its own snapshot only.
WaitedForIsRegistered ==
  \A c \in Callers : pc[c] \in Waits /\ Outlives(c) => pid[c] \in live

\* A group that ignores SIGTERM does not outlive what ends it: a call that reports
\* a timeout, or a cleanup that ran to its end over the groups it found
\* registered, has sent SIGKILL to whatever was left.
NoStubbornSurvivor ==
  /\ \A c \in Callers : result[c] = "timeout" => ~Outlives(c)
  /\ \A k \in DOMAIN stack :
       stack[k].at = "chain" => \A p \in stack[k].snapshot : child[p] \notin Running

\* The cleanup takes the exit status of the children it kills, and communicate
\* then reports 0.  A call of the main thread sees that only where the earlier
\* handler lets the program go on; a call of another thread also while the program
\* is ending, and never in one that goes on to use what the call returned.
KilledIsNoSuccess ==
  \A c \in Callers : result[c] = "zero" /\ child[pid[c]] = "collected" =>
    \/ previous = "returns"
    \/ c # Main /\ (stack # <<>> \/ program # "running")

\* After at most one signal and an uncut cleanup, a child that outlives the
\* program was registered too late for the snapshot, or never: its call was
\* between Popen and _register_child.
SurvivorsWereNotKnown ==
  program = "dead" /\ sent <= 1 /\ Len(stack) = 1 =>
    \A c \in Callers : Outlives(c) =>
      pid[c] \notin stack[1].snapshot /\ (pid[c] \in live \/ pc[c] \notin Waits)

\* Every call that started a child ends, whatever the child does, or the
\* program ends: all waits have a limit.
CallsEnd == \A c \in Callers : pc[c] = "spawned" ~> (pc[c] = "done" \/ program = "dead")

\* No handler keeps the main thread for ever.
HandlersEnd == stack # <<>> ~> (stack = <<>> \/ program = "dead")
================================================================================
