------------------------- MODULE ChildProcesses_proofs -------------------------
(***************************************************************************)
(* Proofs about ChildProcesses, for any threads, signals and children: a   *)
(* child that is waited for can be ended by a signal, a group that ignores *)
(* SIGTERM is killed, a killed child is no success, and what a program     *)
(* leaves running was registered after its last cleanup had begun.         *)
(***************************************************************************)
EXTENDS ChildProcesses, SequenceTheorems, FiniteSetTheorems, TLAPS

-----------------------------------------------------------------------------
(* The inductive invariant.                                                *)

Busy == {"spawned", "hooking", "unregister"} \cup Waits
ChildStates == Running \cup Zombies \cup {"unborn", "doomed", "gone", "collected"}

\* A child belongs to one call, from Popen on.
Owned ==
  \A c \in Callers :
    /\ pc[c] = "idle" => pid[c] = None /\ result[c] = None
    /\ pc[c] \in Busy => pid[c] \in Pids
    /\ result[c] = "zero" => pid[c] # None
    /\ pid[c] # None => child[pid[c]] # "unborn"
    /\ \A d \in Callers : c # d /\ pid[c] # None => pid[c] # pid[d]

\* What is registered was started, and a running child is registered before its call
\* waits for it, until it ended.
Registered ==
  /\ \A p \in live : child[p] # "unborn"
  /\ \A c \in Callers : pc[c] \in Waits \cup {"hooking"} /\ Outlives(c) => pid[c] \in live

\* A call that gives up its child has sent SIGKILL.
GivenUp == \A c \in Callers : pc[c] = "drain" \/ result[c] = "timeout" => ~Outlives(c)

\* A snapshot holds groups that were started, and SIGKILL was sent before they are
\* drained.
Snapshots ==
  \A k \in 1..Len(stack) : \A p \in stack[k].snapshot :
    /\ child[p] # "unborn"
    /\ stack[k].at \in {"drain", "chain"} => child[p] \notin Running

\* Where the cleanup took the exit status of the main thread's child, the main
\* thread is still in a handler, or has come back from one.
Collected ==
  Main \in Callers /\ pid[Main] # None =>
    /\ result[Main] = "zero" => child[pid[Main]] \in {"gone", "collected"}
    /\ child[pid[Main]] = "collected" /\ (pc[Main] \in Waits \cup {"spawned", "hooking"}
                                          \/ result[Main] = "zero")
         => previous = "returns" \/ (result[Main] # "zero" /\ (stack # <<>> \/ program = "dead"))

ChildInv == TypeOK /\ Owned /\ Registered /\ GivenUp /\ Snapshots /\ Collected

-----------------------------------------------------------------------------
(* Constants, activations and groups.                                      *)

LEMMA NoneIsNoPid == Pids \subseteq Nat /\ None \notin Pids /\ None \notin Results
BY ChildConstants, FS_CardinalityType DEF Pids

LEMMA PushType ==
  ASSUME TypeOK, NEW active
  PROVE  /\ Activation(active) \in Frames
         /\ Append(stack, Activation(active)) \in Seq(Frames)
         /\ <<Activation(active)>> \in Seq(Frames)
<1>1. Activation(active) \in Frames
  BY DEF TypeOK, Activation, Frames
<1> QED BY <1>1 DEF TypeOK

LEMMA PutType ==
  ASSUME TypeOK, stack # <<>>, NEW frame \in Frames, Put(frame)
  PROVE  /\ stack' \in Seq(Frames) /\ Len(stack') = Len(stack) /\ stack' # <<>>
         /\ Len(stack) \in 1..Len(stack) /\ Top \in Frames
         /\ stack'[Len(stack)] = frame
         /\ \A k \in 1..Len(stack) : k # Len(stack) => stack'[k] = stack[k]
<1>1. stack \in Seq(Frames) /\ Len(stack) \in 1..Len(stack)
  BY EmptySeq, LenProperties DEF TypeOK
<1>2. /\ stack' \in Seq(Frames) /\ Len(stack') = Len(stack)
      /\ \A k \in 1..Len(stack) :
           stack'[k] = IF k = Len(stack) THEN frame ELSE stack[k]
  BY <1>1, ExceptSeq DEF Put
<1>3. Top \in Frames
  BY <1>1, ElementOfSeq DEF Top
<1> QED BY <1>1, <1>2, <1>3, EmptySeq

LEMMA PopType ==
  ASSUME TypeOK, stack' = IF stack = <<>> THEN stack ELSE Front(stack)
  PROVE  /\ stack' \in Seq(Frames) /\ Len(stack') <= Len(stack)
         /\ Len(stack') \in Nat /\ Len(stack) \in Nat
         /\ \A k \in 1..Len(stack') : stack'[k] = stack[k]
<1>1. stack \in Seq(Frames) /\ Len(stack) \in Nat
  BY LenProperties DEF TypeOK
<1>2. CASE stack = <<>>
  BY <1>1, <1>2
<1>3. CASE stack # <<>>
  <2>1. Len(stack) - 1 \in Nat
    BY <1>1, <1>3, EmptySeq
  <2>2. \A k \in 1..(Len(stack) - 1) : stack[k] \in Frames
    BY <1>1, ElementOfSeq
  <2>3. /\ SubSeq(stack, 1, Len(stack) - 1) \in Seq(Frames)
        /\ Len(SubSeq(stack, 1, Len(stack) - 1)) =
             IF 1 <= Len(stack) - 1 THEN (Len(stack) - 1) - 1 + 1 ELSE 0
        /\ \A k \in 1..((Len(stack) - 1) - 1 + 1) :
             SubSeq(stack, 1, Len(stack) - 1)[k] = stack[1 + k - 1]
    BY <2>1, <2>2, SubSeqProperties
  <2>4. stack' = SubSeq(stack, 1, Len(stack) - 1)
    BY <1>3 DEF Front
  <2> QED BY <1>1, <2>1, <2>3, <2>4
<1> QED BY <1>2, <1>3

\* A signal ends groups, and starts none.
LEMMA DoomType ==
  ASSUME TypeOK, NEW groups, NEW states, child' = Doom(groups, states)
  PROVE  /\ child' \in [Pids -> ChildStates]
         /\ \A p \in Pids : child'[p] = child[p] \/ child'[p] = "doomed"
         /\ \A p \in Pids : p \in groups => child'[p] \notin states \ {"doomed"}
<1>1. child \in [Pids -> ChildStates]
  BY DEF TypeOK, ChildStates
<1>2. child' = [p \in Pids |-> IF p \in groups /\ child[p] \in states THEN "doomed" ELSE child[p]]
  BY DEF Doom
<1>3. "doomed" \in ChildStates
  BY DEF ChildStates
<1>4. \A p \in Pids :
        child'[p] = IF p \in groups /\ child[p] \in states THEN "doomed" ELSE child[p]
  BY <1>2
<1>5. ASSUME NEW p \in Pids
      PROVE  /\ child'[p] \in ChildStates
             /\ child'[p] = child[p] \/ child'[p] = "doomed"
             /\ p \in groups => child'[p] \notin states \ {"doomed"}
  <2>1. CASE p \in groups /\ child[p] \in states
    BY <1>3, <1>4, <2>1
  <2>2. CASE ~(p \in groups /\ child[p] \in states)
    BY <1>1, <1>4, <2>2
  <2> QED BY <2>1, <2>2
<1>6. child' \in [Pids -> ChildStates]
  <2>1. child' = [p \in Pids |-> child'[p]]
    BY <1>2
  <2> QED BY <1>5, <2>1, Zenon
<1> QED BY <1>5, <1>6

LEMMA InitInv == Init => ChildInv
<1> SUFFICES ASSUME Init PROVE ChildInv
  OBVIOUS
<1>1. TypeOK
  <2>1. stack \in Seq(Frames) /\ sent \in 0..MaxSignals
    BY ChildConstants, EmptySeq DEF Init
  <2> QED BY <2>1 DEF Init, TypeOK
<1> QED BY <1>1, EmptySeq, NoneIsNoPid
        DEF Init, ChildInv, Owned, Registered, GivenUp, Snapshots, Collected, Busy, Waits,
            Outlives, Results

-----------------------------------------------------------------------------
(* Groups change while calls wait.                                         *)

\* A group moves on: it was started, and it does not start to run again.
Moves ==
  /\ child' \in [Pids -> ChildStates]
  /\ \A p \in Pids : child'[p] # child[p] =>
       child[p] \notin {"unborn", "gone", "collected"}
       /\ child'[p] \notin Running \cup {"unborn"}

LEMMA MovesKeepCalls ==
  ASSUME ChildInv, Moves, UNCHANGED <<calls, live>>
  PROVE  Owned' /\ Registered' /\ GivenUp'
<1>1. /\ pid \in [Callers -> Pids \cup {None}] /\ live \subseteq Pids
      /\ pc' = pc /\ pid' = pid /\ result' = result /\ live' = live
  BY DEF ChildInv, TypeOK, calls
<1>2. Owned'
  BY <1>1 DEF ChildInv, Owned, Moves
<1>3. Registered'
  BY <1>1 DEF ChildInv, Registered, Moves, Outlives
<1>4. GivenUp'
  BY <1>1 DEF ChildInv, GivenUp, Moves, Outlives
<1> QED BY <1>2, <1>3, <1>4

LEMMA MovesKeepSnapshots ==
  ASSUME ChildInv, Moves,
         NEW k \in 1..Len(stack), NEW p \in stack[k].snapshot
  PROVE  /\ p \in Pids /\ child'[p] # "unborn"
         /\ stack[k].at \in {"drain", "chain"} => child'[p] \notin Running
<1>1. stack[k] \in Frames
  BY ElementOfSeq DEF ChildInv, TypeOK
<1>2. p \in Pids
  BY <1>1 DEF Frames
<1> QED BY <1>2 DEF ChildInv, Snapshots, Moves

LEMMA ChildEndsKeepsInv ==
  ASSUME ChildInv, NEW p \in Pids, ChildEnds(p)
  PROVE  ChildInv'
<1>1. /\ UNCHANGED <<calls, live, hooked, previous, cleaning, stack, program, sent>>
      /\ child' = [child EXCEPT ![p] = "succeeded"] \/ child' = [child EXCEPT ![p] = "failed"]
      /\ child[p] \in Running \cup {"doomed"} /\ child \in [Pids -> ChildStates]
  BY DEF ChildEnds, ChildInv, TypeOK, ChildStates
<1>2. Moves
  BY <1>1 DEF Moves, ChildStates, Running, Zombies
<1>3. TypeOK'
  BY <1>1, <1>2 DEF ChildInv, TypeOK, Moves, ChildStates, calls
<1>4. Snapshots'
  BY <1>1, <1>2, MovesKeepSnapshots DEF Snapshots
<1>5. Collected'
  BY <1>1 DEF ChildInv, Collected, TypeOK, calls, Running
<1> QED BY <1>1, <1>2, <1>3, <1>4, <1>5, MovesKeepCalls DEF ChildInv

-----------------------------------------------------------------------------
(* The steps of a call.                                                    *)

\* A step of a call leaves the activations alone.
LEMMA CallKeepsSnapshots ==
  ASSUME ChildInv, Moves, UNCHANGED stack
  PROVE  Snapshots'
BY MovesKeepSnapshots DEF Snapshots

LEMMA SpawnKeepsInv ==
  ASSUME ChildInv, NEW c \in Callers, Spawn(c)
  PROVE  ChildInv'
<1>1. PICK p \in Pids, state \in Running :
        /\ child[p] = "unborn" /\ child' = [child EXCEPT ![p] = state]
        /\ pid' = [pid EXCEPT ![c] = p]
  BY DEF Spawn
<1>2. /\ pc[c] = "idle" /\ pc' = [pc EXCEPT ![c] = "spawned"]
      /\ UNCHANGED <<result, live, hooked, previous, cleaning, stack, program, sent>>
  BY DEF Spawn, MayStart, Goto, Cleanup
<1>3. /\ pid[c] = None /\ result[c] = None /\ p # None
      /\ \A d \in Callers : pid[d] # p
  BY <1>1, <1>2, NoneIsNoPid DEF ChildInv, Owned
<1>4. TypeOK'
  BY <1>1, <1>2 DEF ChildInv, TypeOK
<1>5. Owned'
  <2>1. state # "unborn" /\ p \in Pids /\ child' \in [Pids -> ChildStates] /\ child'[p] = state
    BY <1>1 DEF Running, ChildInv, TypeOK, ChildStates
  <2>2. ASSUME NEW d \in Callers, d # c
        PROVE  /\ pc'[d] = pc[d] /\ pid'[d] = pid[d] /\ result'[d] = result[d]
               /\ pid[d] # None => child'[pid[d]] # "unborn" /\ pid[d] # p
    BY <1>1, <1>2, <1>3, <2>2 DEF ChildInv, TypeOK, Owned
  <2>3. pc'[c] = "spawned" /\ pid'[c] = p
    BY <1>1, <1>2 DEF ChildInv, TypeOK
  <2> QED BY <1>3, <2>1, <2>2, <2>3 DEF ChildInv, Owned, Busy
<1>6. Registered'
  BY <1>1, <1>2, <1>3 DEF ChildInv, TypeOK, Registered, Waits, Outlives, Running
<1>7. GivenUp'
  <2>1. None # "timeout"
    BY NoneIsNoPid DEF Results
  <2> QED BY <1>1, <1>2, <1>3, <2>1 DEF ChildInv, TypeOK, GivenUp, Outlives
<1>8. Snapshots'
  <2>1. ASSUME NEW k \in 1..Len(stack), NEW q \in stack[k].snapshot
        PROVE  q \in Pids /\ q # p /\ child[q] # "unborn"
    <3>1. stack[k] \in Frames
      BY ElementOfSeq DEF ChildInv, TypeOK
    <3> QED BY <1>1, <3>1 DEF Frames, ChildInv, Snapshots
  <2>2. \A q \in Pids : q # p => child'[q] = child[q]
    BY <1>1 DEF ChildInv, TypeOK
  <2> QED BY <1>2, <2>1, <2>2 DEF ChildInv, Snapshots
<1>9. Collected'
  <2>1. None # "zero"
    BY NoneIsNoPid DEF Results
  <2>2. CASE c = Main
    <3>1. child'[pid'[Main]] \in Running /\ result'[Main] = None
      BY <1>1, <1>2, <1>3, <2>2 DEF ChildInv, TypeOK
    <3> QED BY <2>1, <3>1 DEF Collected, Running
  <2>3. CASE c # Main
    <3>1. Main \in Callers => /\ pc'[Main] = pc[Main] /\ pid'[Main] = pid[Main]
                              /\ pid[Main] # None => child'[pid[Main]] = child[pid[Main]]
      BY <1>1, <1>2, <1>3, <2>3 DEF ChildInv, TypeOK
    <3> QED BY <1>2, <3>1 DEF ChildInv, Collected
  <2> QED BY <2>2, <2>3
<1> QED BY <1>4, <1>5, <1>6, <1>7, <1>8, <1>9 DEF ChildInv

\* A call that could not start, registers its child, or is done with it.
LEMMA BookkeepingKeepsInv ==
  ASSUME ChildInv, NEW c \in Callers,
         SpawnFails(c) \/ Register(c) \/ InstallHooks(c) \/ Unregister(c)
  PROVE  ChildInv'
<1>1. /\ UNCHANGED <<pid, child, previous, cleaning, stack, program, sent>>
      /\ pc \in [Callers -> {"idle", "spawned", "hooking", "unregister", "done"} \cup Waits]
      /\ pid \in [Callers -> Pids \cup {None}] /\ result \in [Callers -> Results \cup {None}]
  BY DEF ChildInv, TypeOK, SpawnFails, Register, InstallHooks, Unregister, Cleanup
<1>2. /\ pc' = [pc EXCEPT ![c] = pc'[c]]
      /\ pc'[c] \in {"hooking", "waiting", "done"} /\ pc[c] # "done"
  <2>1. PICK at \in {"hooking", "waiting", "done"} : pc' = [pc EXCEPT ![c] = at]
    <3>1. CASE SpawnFails(c) \/ InstallHooks(c) \/ Unregister(c)
      BY <3>1 DEF SpawnFails, InstallHooks, Unregister, Goto
    <3>2. CASE Register(c)
      BY <3>2 DEF Register, Goto
    <3> QED BY <3>1, <3>2
  <2>2. pc[c] # "done"
    BY DEF SpawnFails, MayStart, Register, InstallHooks, Unregister
  <2>3. pc'[c] = at
    BY <1>1, <2>1
  <2> QED BY <2>1, <2>2, <2>3
<1>3. /\ result' = [result EXCEPT ![c] = result'[c]]
      /\ result'[c] = result[c] \/ result'[c] = "error"
  BY <1>1 DEF SpawnFails, Register, InstallHooks, Unregister
<1>4. pc'[c] \in {"hooking", "waiting"} =>
        pid[c] \in Pids /\ (Outlives(c) => pid[c] \in live')
  BY <1>1 DEF SpawnFails, Register, InstallHooks, Unregister, Goto, ChildInv, Owned,
              Registered, Busy, Waits
<1>5. /\ live' \subseteq live \cup {pid[c]} /\ live \ {pid[c]} \subseteq live'
      /\ live' \subseteq Pids /\ \A p \in live' : child[p] # "unborn"
  BY <1>1, NoneIsNoPid
     DEF SpawnFails, Register, InstallHooks, Unregister, ChildInv, TypeOK, Owned,
         Registered, Busy
<1>6. TypeOK'
  <2>1. hooked' \in BOOLEAN
    BY DEF ChildInv, TypeOK, SpawnFails, Register, InstallHooks, Unregister, Cleanup
  <2>2. pc' \in [Callers -> {"idle", "spawned", "hooking", "unregister", "done"} \cup Waits]
    BY <1>1, <1>2 DEF Waits
  <2>3. result' \in [Callers -> Results \cup {None}]
    BY <1>1, <1>3 DEF Results
  <2> QED BY <1>1, <1>5, <2>1, <2>2, <2>3 DEF ChildInv, TypeOK
<1>7. Owned'
  <2>1. pc'[c] \in Busy => pid[c] \in Pids
    BY <1>2, <1>4 DEF Busy, Waits
  <2> QED BY <1>1, <1>2, <1>3, <2>1 DEF ChildInv, Owned
<1>8. Registered'
  <2>1. ASSUME NEW d \in Callers, d # c, pc[d] \in Waits \cup {"hooking"}, Outlives(d)
        PROVE  pid[d] \in live'
    BY <1>5, <2>1 DEF ChildInv, Owned, Registered, Outlives
  <2> QED BY <1>1, <1>2, <1>4, <1>5, <2>1 DEF Registered, Outlives, Waits
<1>9. GivenUp' /\ Snapshots'
  BY <1>1, <1>2, <1>3 DEF ChildInv, GivenUp, Snapshots, Outlives
<1>10. Collected'
  <2>1. pc'[c] \in Waits \cup {"spawned", "hooking"} => pc[c] \in {"spawned", "hooking"}
    BY <1>1 DEF SpawnFails, Register, InstallHooks, Unregister, Goto, Waits
  <2> QED BY <1>1, <1>2, <1>3, <2>1 DEF ChildInv, Collected
<1> QED BY <1>6, <1>7, <1>8, <1>9, <1>10 DEF ChildInv

\* communicate returns: the child has ended, or the cleanup took its status.
LEMMA ReturnsKeepsInv ==
  ASSUME ChildInv, NEW c \in Callers, Returns(c)
  PROVE  ChildInv'
<1>1. /\ UNCHANGED <<pid, live, hooked, previous, cleaning, stack, program, sent>>
      /\ pc' = [pc EXCEPT ![c] = "unregister"] /\ pc[c] \in Waits
      /\ pid \in [Callers -> Pids \cup {None}] /\ pid[c] \in Pids
      /\ child[pid[c]] \in Zombies \cup {"collected"}
      /\ program # "dead" /\ (c = Main => stack = <<>>)
  BY DEF Returns, Cleanup, Goto, Runs, ChildInv, TypeOK, Owned, Busy
<1>2. /\ child' = [child EXCEPT ![pid[c]] = child'[pid[c]]]
      /\ child'[pid[c]] \in {"gone", "collected"}
      /\ child'[pid[c]] = "collected" => child[pid[c]] = "collected"
  BY <1>1 DEF Returns, ChildInv, TypeOK
<1>3. /\ result' = [result EXCEPT ![c] = result'[c]]
      /\ result'[c] \in {"zero", "nonzero", "timeout"}
  BY DEF Returns, ChildInv, TypeOK, Status
<1>4. \A p \in Pids : child'[p] = child[p] \/ (p = pid[c] /\ child'[p] \in {"gone", "collected"})
  BY <1>1, <1>2 DEF ChildInv, TypeOK
<1>5. TypeOK'
  <2>1. child' \in [Pids -> ChildStates]
    BY <1>1, <1>2 DEF ChildInv, TypeOK, ChildStates
  <2>2. pc' \in [Callers -> {"idle", "spawned", "hooking", "unregister", "done"} \cup Waits]
    BY <1>1 DEF ChildInv, TypeOK
  <2>3. result' \in [Callers -> Results \cup {None}]
    BY <1>3 DEF ChildInv, TypeOK, Results
  <2> QED BY <1>1, <2>1, <2>2, <2>3 DEF ChildInv, TypeOK, ChildStates
<1>6. Owned'
  <2>1. pc'[c] = "unregister" /\ pid[c] # None /\ pid' = pid
    BY <1>1, NoneIsNoPid DEF ChildInv, TypeOK
  <2>2. \A d \in Callers : d # c => pc'[d] = pc[d] /\ result'[d] = result[d]
    BY <1>1, <1>3 DEF ChildInv, TypeOK
  <2>3. \A p \in Pids : child[p] # "unborn" => child'[p] # "unborn"
    BY <1>4
  <2> QED BY <1>1, <2>1, <2>2, <2>3 DEF ChildInv, Owned, Busy
<1>7. Registered'
  <2>1. \A p \in Pids : child'[p] = "unborn" \/ child'[p] \in Running => child'[p] = child[p]
    BY <1>4 DEF Running
  <2>2. live \subseteq Pids
    BY DEF ChildInv, TypeOK
  <2> QED BY <1>1, <2>1, <2>2 DEF ChildInv, TypeOK, Registered, Outlives, Waits
<1>8. GivenUp'
  <2>1. ASSUME NEW d \in Callers, d # c, pc[d] = "drain" \/ result[d] = "timeout"
        PROVE  ~Outlives(d)'
    BY <1>1, <1>4, <2>1 DEF ChildInv, GivenUp, Outlives, Running
  <2>2. ~Outlives(c)'
    BY <1>1, <1>2 DEF Outlives, Running
  <2> QED BY <1>1, <1>3, <2>1, <2>2 DEF ChildInv, TypeOK, GivenUp
<1>9. Snapshots'
  <2>1. ASSUME NEW k \in 1..Len(stack), NEW p \in stack[k].snapshot
        PROVE  p \in Pids
    <3>1. stack[k] \in Frames
      BY ElementOfSeq DEF ChildInv, TypeOK
    <3> QED BY <3>1 DEF Frames
  <2> QED BY <1>1, <1>4, <2>1 DEF ChildInv, Snapshots, Running
<1>10. Collected'
  <2>1. CASE c = Main
    <3>1. child'[pid[Main]] = "collected" => previous = "returns"
      <4>1. Main \in Callers /\ pid[Main] # None /\ pc[Main] \in Waits /\ stack = <<>>
        BY <1>1, <2>1, NoneIsNoPid
      <4>2. child'[pid[Main]] = "collected" => child[pid[Main]] = "collected"
        BY <1>2, <2>1
      <4> QED BY <1>1, <4>1, <4>2 DEF ChildInv, Collected
    <3>2. child'[pid'[Main]] \in {"gone", "collected"}
      BY <1>1, <1>2, <2>1
    <3> QED BY <1>1, <3>1, <3>2 DEF Collected
  <2>2. CASE c # Main
    <3>1. Main \in Callers /\ pid[Main] # None =>
            /\ pc'[Main] = pc[Main] /\ result'[Main] = result[Main]
            /\ child'[pid[Main]] = child[pid[Main]]
      BY <1>1, <1>2, <1>3, <2>2 DEF ChildInv, TypeOK, Owned
    <3> QED BY <1>1, <3>1 DEF ChildInv, Collected
  <2> QED BY <2>1, <2>2
<1> QED BY <1>5, <1>6, <1>7, <1>8, <1>9, <1>10 DEF ChildInv

\* What a signal to groups changes, and leaves.
LEMMA SignalMoves ==
  ASSUME ChildInv, NEW groups
  PROVE  /\ child' = Term(groups) \/ child' = Kill(groups) =>
              Moves /\ \A p \in Pids : child'[p] # "collected" \/ child'[p] = child[p]
         /\ child' = Kill(groups) =>
              \A p \in Pids : p \in groups => child'[p] \notin Running
         /\ UNCHANGED child => Moves
<1>1. child \in [Pids -> ChildStates]
  BY DEF ChildInv, TypeOK, ChildStates
<1>2. ASSUME NEW states \in {{"running"}, Running}, child' = Doom(groups, states)
      PROVE  /\ Moves /\ \A p \in Pids : child'[p] # "collected" \/ child'[p] = child[p]
             /\ \A p \in Pids : p \in groups => child'[p] \notin states
  <2>1. \A p \in Pids :
          child'[p] = IF p \in groups /\ child[p] \in states THEN "doomed" ELSE child[p]
    BY <1>2 DEF Doom
  <2>2. child' \in [Pids -> ChildStates]
    BY <1>2, DoomType DEF ChildInv
  <2>3. states \subseteq Running
    BY DEF Running
  <2> QED BY <2>1, <2>2, <2>3 DEF Moves, Running
<1>3. child' = Term(groups) => child' = Doom(groups, {"running"})
  BY DEF Term
<1>4. child' = Kill(groups) => child' = Doom(groups, Running)
  BY DEF Kill
<1>5. UNCHANGED child => Moves
  BY <1>1 DEF Moves
<1> QED BY <1>2, <1>3, <1>4, <1>5

LEMMA TimesOutKeepsInv ==
  ASSUME ChildInv, NEW c \in Callers, TimesOut(c)
  PROVE  ChildInv'
<1>1. /\ UNCHANGED <<pid, live, hooked, previous, cleaning, stack, program, sent>>
      /\ pc \in [Callers -> {"idle", "spawned", "hooking", "unregister", "done"} \cup Waits]
      /\ pid \in [Callers -> Pids \cup {None}] /\ result \in [Callers -> Results \cup {None}]
      /\ pc[c] \in Waits /\ pid[c] \in Pids
  BY DEF TimesOut, Cleanup, ChildInv, TypeOK, Owned, Busy, Waits
<1>2. PICK at \in {"grace", "drain", "unregister"} : pc' = [pc EXCEPT ![c] = at]
  BY DEF TimesOut, Goto
<1>3. /\ Moves /\ \A p \in Pids : child'[p] # "collected" \/ child'[p] = child[p]
      /\ at = "drain" => child'[pid[c]] \notin Running
  <2>1. CASE child' = Term({pid[c]}) /\ at = "grace"
    BY <2>1, SignalMoves
  <2>2. CASE child' = Kill({pid[c]})
    BY <1>1, <2>2, SignalMoves
  <2>3. CASE UNCHANGED child /\ at = "unregister"
    BY <2>3, SignalMoves
  <2>4. pc'[c] = at
    BY <1>1, <1>2
  <2> QED BY <2>1, <2>2, <2>3, <2>4, <1>1 DEF TimesOut, Goto
<1>4. \/ UNCHANGED result
      \/ result' = [result EXCEPT ![c] = "timeout"] /\ pc[c] = "drain"
  BY DEF TimesOut
<1>5. TypeOK'
  <2>1. pc' \in [Callers -> {"idle", "spawned", "hooking", "unregister", "done"} \cup Waits]
    BY <1>1, <1>2 DEF Waits
  <2>2. result' \in [Callers -> Results \cup {None}]
    BY <1>1, <1>4 DEF Results
  <2> QED BY <1>1, <1>3, <2>1, <2>2 DEF ChildInv, TypeOK, Moves, ChildStates
<1>6. Owned'
  BY <1>1, <1>2, <1>3, <1>4 DEF ChildInv, Owned, Moves, Busy, Waits
<1>7. Registered'
  <2>1. \A p \in Pids : child'[p] \in Running => child'[p] = child[p]
    BY <1>3 DEF Moves
  <2>2. \A d \in Callers : pc'[d] \in Waits \cup {"hooking"} => pc[d] \in Waits \cup {"hooking"}
    BY <1>1, <1>2
  <2>3. live \subseteq Pids /\ \A p \in live : child'[p] # "unborn"
    BY <1>3 DEF ChildInv, TypeOK, Registered, Moves
  <2> QED BY <1>1, <2>1, <2>2, <2>3 DEF ChildInv, Registered, Outlives
<1>8. GivenUp'
  <2>1. \A p \in Pids : child'[p] \in Running => child'[p] = child[p]
    BY <1>3 DEF Moves
  <2>2. ASSUME NEW d \in Callers, d # c, pc[d] = "drain" \/ result[d] = "timeout"
        PROVE  ~Outlives(d)'
    BY <1>1, <2>1, <2>2 DEF ChildInv, GivenUp, Outlives
  <2>3. pc'[c] = "drain" \/ result'[c] = "timeout" => ~Outlives(c)'
    BY <1>1, <1>2, <1>3, <1>4, <2>1 DEF ChildInv, GivenUp, Outlives
  <2> QED BY <1>1, <1>2, <1>4, <2>2, <2>3 DEF GivenUp
<1>9. Snapshots'
  BY <1>1, <1>3, CallKeepsSnapshots
<1>10. Collected'
  <2>1. Main \in Callers /\ pid[Main] # None =>
          /\ child[pid[Main]] \in {"gone", "collected"} => child'[pid[Main]] = child[pid[Main]]
          /\ child'[pid[Main]] = "collected" => child[pid[Main]] = "collected"
    BY <1>1, <1>3 DEF Moves
  <2>2. Main \in Callers =>
          /\ result'[Main] = "zero" => result[Main] = "zero"
          /\ pc'[Main] \in Waits \cup {"spawned", "hooking"} =>
               pc[Main] \in Waits \cup {"spawned", "hooking"}
          /\ result'[Main] # "zero" => result[Main] # "zero" \/ (c = Main /\ stack = <<>>)
    BY <1>1, <1>2, <1>4 DEF TimesOut, Runs
  <2> QED BY <1>1, <2>1, <2>2 DEF ChildInv, Collected
<1> QED BY <1>5, <1>6, <1>7, <1>8, <1>9, <1>10 DEF ChildInv

-----------------------------------------------------------------------------
(* The steps of a cleanup.                                                 *)

\* The topmost activation goes on with its snapshot.
LEMMA PutKeepsSnapshots ==
  ASSUME ChildInv, Moves, stack # <<>>, NEW frame \in Frames, Put(frame),
         frame.snapshot = Top.snapshot,
         frame.at \in {"drain", "chain"} => \A p \in Top.snapshot : child'[p] \notin Running
  PROVE  Snapshots'
<1>1. /\ Len(stack') = Len(stack) /\ Len(stack) \in 1..Len(stack)
      /\ stack'[Len(stack)] = frame
      /\ \A k \in 1..Len(stack) : k # Len(stack) => stack'[k] = stack[k]
  BY PutType DEF ChildInv
<1>2. ASSUME NEW k \in 1..Len(stack), NEW p \in stack'[k].snapshot
      PROVE  /\ child'[p] # "unborn"
             /\ stack'[k].at \in {"drain", "chain"} => child'[p] \notin Running
  <2>1. CASE k = Len(stack)
    <3>1. p \in stack[k].snapshot /\ p \in Top.snapshot
      BY <1>1, <1>2, <2>1 DEF Top
    <3> QED BY <1>1, <2>1, <3>1, MovesKeepSnapshots
  <2>2. CASE k # Len(stack)
    BY <1>1, <1>2, <2>2, MovesKeepSnapshots
  <2> QED BY <2>1, <2>2
<1> QED BY <1>1, <1>2 DEF Snapshots

LEMMA ReapKeepsInv ==
  ASSUME ChildInv, ReapStep
  PROVE  ChildInv'
<1>1. /\ UNCHANGED <<calls, live, hooked, previous, cleaning, program, sent>>
      /\ stack # <<>> /\ stack \in Seq(Frames)
  BY DEF ReapStep, ReapTerm, ReapKill, ReapWait, At, ChildInv, TypeOK
<1>2. Top \in Frames /\ Top.snapshot \subseteq Pids
  <2>1. Len(stack) \in 1..Len(stack)
    BY <1>1, EmptySeq
  <2>2. Top \in Frames
    BY <1>1, <2>1, ElementOfSeq DEF Top
  <2> QED BY <2>2 DEF Frames
<1>3. /\ Moves
      /\ \A p \in Pids : child[p] \in {"gone", "collected"} => child'[p] = child[p]
      /\ stack' \in Seq(Frames) /\ stack' # <<>> /\ Snapshots'
  <2>1. CASE ReapTerm
    <3> DEFINE frame == [Top EXCEPT !.at = "poll"]
    <3>1. Moves
      BY <2>1, SignalMoves DEF ReapTerm
    <3>2. frame \in Frames /\ frame.snapshot = Top.snapshot /\ frame.at = "poll" /\ Put(frame)
      BY <1>2, <2>1 DEF ReapTerm, Frames
    <3>3. Snapshots'
      BY <1>1, <3>1, <3>2, PutKeepsSnapshots
    <3> QED BY <1>1, <3>1, <3>2, <3>3, PutType DEF ChildInv, Moves
  <2>2. CASE ReapKill
    <3> DEFINE frame == [Top EXCEPT !.at = "drain"]
    <3>1. Moves /\ \A p \in Top.snapshot : child'[p] \notin Running
      BY <1>2, <2>2, SignalMoves DEF ReapKill
    <3>2. frame \in Frames /\ frame.snapshot = Top.snapshot /\ Put(frame)
      BY <1>2, <2>2 DEF ReapKill, Frames
    <3>3. Snapshots'
      BY <1>1, <3>1, <3>2, PutKeepsSnapshots
    <3> QED BY <1>1, <3>1, <3>2, <3>3, PutType DEF ChildInv, Moves
  <2>3. CASE ReapWait
    <3>1. PICK p \in Top.snapshot :
            child[p] \in Zombies /\ child' = [child EXCEPT ![p] = "collected"]
      BY <2>3 DEF ReapWait
    <3>2. Moves
      BY <1>2, <3>1 DEF Moves, ChildInv, TypeOK, ChildStates, Running, Zombies
    <3>3. stack' = stack
      BY <2>3 DEF ReapWait
    <3> QED BY <1>1, <3>2, <3>3, CallKeepsSnapshots DEF Moves
  <2> QED BY <2>1, <2>2, <2>3 DEF ReapStep
<1>4. TypeOK'
  BY <1>1, <1>3 DEF ChildInv, TypeOK, Moves, ChildStates, calls
<1>5. Collected'
  <2>1. pc' = pc /\ pid' = pid /\ result' = result /\ previous' = previous
    BY <1>1 DEF calls
  <2>2. Main \in Callers /\ pid[Main] # None => pid[Main] \in Pids
    BY DEF ChildInv, TypeOK
  <2> QED BY <1>3, <2>1, <2>2 DEF ChildInv, Collected
<1> QED BY <1>1, <1>3, <1>4, <1>5, MovesKeepCalls DEF ChildInv

LEMMA ReapEndsKeepsInv ==
  ASSUME ChildInv, ReapEnds
  PROVE  ChildInv'
<1> DEFINE frame == [Top EXCEPT !.at = "chain"]
<1>1. /\ UNCHANGED <<calls, child, hooked, previous, program, sent>>
      /\ stack # <<>> /\ stack \in Seq(Frames) /\ Top.at = "drain" /\ Put(frame)
      /\ live' = live \ Top.snapshot /\ cleaning' = FALSE
  BY DEF ReapEnds, At, ChildInv, TypeOK
<1>2. Len(stack) \in 1..Len(stack) /\ Top \in Frames
  <2>1. Len(stack) \in 1..Len(stack)
    BY <1>1, EmptySeq
  <2> QED BY <1>1, <2>1, ElementOfSeq DEF Top
<1>3. frame \in Frames /\ frame.snapshot = Top.snapshot
  BY <1>2 DEF Frames
<1>4. \A p \in Top.snapshot : child[p] \notin Running
  BY <1>1, <1>2 DEF ChildInv, Snapshots, Top
<1>5. Snapshots' /\ stack' \in Seq(Frames) /\ stack' # <<>>
  BY <1>1, <1>3, <1>4, SignalMoves, PutKeepsSnapshots, PutType DEF ChildInv
<1>6. TypeOK'
  BY <1>1, <1>5 DEF ChildInv, TypeOK, calls
<1>7. Registered'
  BY <1>1, <1>4 DEF ChildInv, Registered, Outlives, calls
<1>8. Owned' /\ GivenUp' /\ Collected'
  BY <1>1, <1>5 DEF ChildInv, Owned, GivenUp, Outlives, Collected, calls
<1> QED BY <1>5, <1>6, <1>7, <1>8 DEF ChildInv

-----------------------------------------------------------------------------
(* Signals and the end of the program.                                     *)

\* An activation that begins has nothing in its snapshot but what is registered.
LEMMA ActivationIsKnown ==
  ASSUME ChildInv, NEW active, NEW p \in Activation(active).snapshot
  PROVE  child[p] # "unborn" /\ Activation(active).at \notin {"drain", "chain"}
BY DEF ChildInv, Registered, Activation

LEMMA EnterKeepsSnapshots ==
  ASSUME ChildInv, Enter, UNCHANGED child
  PROVE  Snapshots' /\ stack' \in Seq(Frames) /\ stack' # <<>> /\ cleaning' \in BOOLEAN
<1> DEFINE frame == Activation(cleaning)
<1>1. frame \in Frames /\ stack \in Seq(Frames) /\ stack' = Append(stack, frame)
  BY PushType DEF ChildInv, TypeOK, Enter
<1>2. /\ stack' \in Seq(Frames) /\ Len(stack') = Len(stack) + 1 /\ Len(stack) \in Nat
      /\ \A k \in 1..Len(stack) : stack'[k] = stack[k]
      /\ stack'[Len(stack) + 1] = frame
  BY <1>1, AppendProperties, LenProperties
<1>3. ASSUME NEW k \in 1..Len(stack'), NEW p \in stack'[k].snapshot
      PROVE  /\ child[p] # "unborn"
             /\ stack'[k].at \in {"drain", "chain"} => child[p] \notin Running
  <2>1. CASE k = Len(stack) + 1
    BY <1>2, <1>3, <2>1, ActivationIsKnown
  <2>2. CASE k # Len(stack) + 1
    <3>1. k \in 1..Len(stack)
      BY <1>2, <2>2
    <3> QED BY <1>2, <1>3, <3>1 DEF ChildInv, Snapshots
  <2> QED BY <2>1, <2>2
<1>4. Snapshots'
  BY <1>3 DEF Snapshots
<1>5. cleaning' \in BOOLEAN
  BY DEF Enter, ChildInv, TypeOK
<1> QED BY <1>2, <1>4, <1>5, EmptySeq

\* A step of the main thread outside a call: no group changes, and a handler is
\* left for good, for the next one, or with the program.
LEMMA MainKeepsInv ==
  ASSUME ChildInv, UNCHANGED <<calls, child, live, hooked, previous>>,
         stack' \in Seq(Frames), Snapshots', cleaning' \in BOOLEAN,
         program' \in {"running", "exiting", "atexit", "dead"}, sent' \in 0..MaxSignals,
         stack # <<>> \/ program = "dead" =>
           stack' # <<>> \/ program' = "dead" \/ previous = "returns"
  PROVE  ChildInv'
<1>1. TypeOK'
  BY DEF ChildInv, TypeOK, calls
<1>2. Owned' /\ Registered' /\ GivenUp' /\ Collected'
  BY DEF ChildInv, Owned, Registered, GivenUp, Outlives, Collected, calls
<1> QED BY <1>1, <1>2 DEF ChildInv

\* An exception takes the main thread out of its handlers and its call.
LEMMA InterruptedKeepsInv ==
  ASSUME ChildInv, Interrupted, UNCHANGED <<child, live, hooked, previous>>,
         sent' \in 0..MaxSignals
  PROVE  ChildInv'
<1>1. Snapshots' /\ stack' \in Seq(Frames) /\ cleaning' \in BOOLEAN
  <2>1. cleaning' \in BOOLEAN
    BY Zenon DEF Interrupted
  <2>2. CASE stack' = <<>>
    <3>1. Len(stack') = 0 /\ stack' \in Seq(Frames)
      BY <2>2, EmptySeq
    <3> QED BY <2>1, <3>1 DEF Snapshots
  <2>3. CASE stack' = <<Activation(FALSE)>>
    <3>1. /\ Len(stack') = 1 /\ stack'[1] = Activation(FALSE) /\ stack' \in Seq(Frames)
      BY <2>3, PushType DEF ChildInv
    <3>2. \A p \in Activation(FALSE).snapshot :
            child[p] # "unborn" /\ Activation(FALSE).at \notin {"drain", "chain"}
      BY ActivationIsKnown
    <3>3. \A k \in 1..Len(stack') : k = 1
      BY <3>1
    <3>4. Snapshots'
      BY <3>1, <3>2, <3>3 DEF Snapshots
    <3> QED BY <2>1, <3>1, <3>4
  <2> QED BY <2>2, <2>3 DEF Interrupted
<1>2. program' \in {"running", "exiting", "atexit", "dead"}
  BY DEF Interrupted
<1>3. CASE MainIsInACall
  <2>1. /\ Main \in Callers /\ pc[Main] \notin {"idle", "done"} /\ pid' = pid
        /\ pc' = [pc EXCEPT ![Main] = pc'[Main]] /\ pc'[Main] \in {"unregister", "done"}
        /\ pc'[Main] = "unregister" => pc[Main] \in Waits
        /\ result' = [result EXCEPT ![Main] = "interrupted"]
    BY <1>3 DEF Interrupted, MainIsInACall, Goto, ChildInv, TypeOK
  <2>2. TypeOK'
    <3>1. pc' \in [Callers -> {"idle", "spawned", "hooking", "unregister", "done"} \cup Waits]
      BY <2>1 DEF ChildInv, TypeOK
    <3>2. result' \in [Callers -> Results \cup {None}]
      BY <2>1 DEF ChildInv, TypeOK, Results
    <3> QED BY <1>1, <1>2, <2>1, <3>1, <3>2 DEF ChildInv, TypeOK
  <2>3. Owned' /\ Registered' /\ GivenUp'
    BY <2>1 DEF ChildInv, TypeOK, Owned, Registered, GivenUp, Outlives, Busy, Waits
  <2>4. Collected'
    BY <2>1 DEF ChildInv, TypeOK, Collected, Waits
  <2> QED BY <1>1, <2>2, <2>3, <2>4 DEF ChildInv
<1>4. CASE ~MainIsInACall
  <2>1. UNCHANGED calls
    BY <1>4 DEF Interrupted
  <2>2. TypeOK'
    BY <1>1, <1>2, <2>1 DEF ChildInv, TypeOK, calls
  <2>3. Owned' /\ Registered' /\ GivenUp'
    BY <2>1 DEF ChildInv, Owned, Registered, GivenUp, Outlives, calls
  <2>4. Collected'
    <3>1. Main \in Callers => pc[Main] \in {"idle", "done"}
      BY <1>4 DEF MainIsInACall
    <3> QED BY <2>1, <3>1 DEF ChildInv, Collected, Waits, calls
  <2> QED BY <1>1, <2>2, <2>3, <2>4 DEF ChildInv
<1> QED BY <1>3, <1>4

LEMMA ChainKeepsInv ==
  ASSUME ChildInv, Chain, UNCHANGED <<child, live, hooked, previous>>,
         sent' \in 0..MaxSignals
  PROVE  ChildInv'
<1>1. CASE previous = "default"
  <2>1. UNCHANGED <<calls, cleaning, stack>> /\ program' = "dead"
    BY <1>1 DEF Chain
  <2>2. Snapshots'
    BY <2>1 DEF ChildInv, Snapshots
  <2> QED BY <2>1, <2>2, MainKeepsInv DEF ChildInv, TypeOK
<1>2. CASE previous = "raises"
  BY <1>2, InterruptedKeepsInv DEF Chain
<1>3. CASE previous = "returns"
  <2>1. /\ UNCHANGED <<calls, cleaning, program>>
        /\ stack' = IF stack = <<>> THEN stack ELSE Front(stack)
    BY <1>3 DEF Chain
  <2>2. /\ stack' \in Seq(Frames) /\ Len(stack') <= Len(stack)
        /\ Len(stack') \in Nat /\ Len(stack) \in Nat
        /\ \A k \in 1..Len(stack') : stack'[k] = stack[k]
    BY <2>1, PopType DEF ChildInv
  <2>3. Snapshots'
    BY <2>2 DEF ChildInv, Snapshots
  <2> QED BY <1>3, <2>1, <2>2, <2>3, MainKeepsInv DEF ChildInv, TypeOK
<1> QED BY <1>1, <1>2, <1>3 DEF Chain

LEMMA SignalKeepsInv ==
  ASSUME ChildInv, Signal
  PROVE  ChildInv'
<1>1. UNCHANGED <<child, live, hooked, previous>> /\ sent' \in 0..MaxSignals
  BY ChildConstants DEF Signal, ChildInv, TypeOK
<1>2. CASE hooked
  BY <1>1, <1>2, EnterKeepsSnapshots, MainKeepsInv DEF Signal, ChildInv, TypeOK
<1>3. CASE ~hooked
  BY <1>1, <1>3, ChainKeepsInv DEF Signal
<1> QED BY <1>2, <1>3

LEMMA EndKeepsInv ==
  ASSUME ChildInv, MainEnds \/ ThreadsJoined \/ AtexitEnds
  PROVE  ChildInv'
<1>1. /\ UNCHANGED <<calls, child, live, hooked, previous, sent>>
      /\ program' \in {"exiting", "atexit", "dead"}
  BY DEF MainEnds, ThreadsJoined, AtexitEnds
<1>2. CASE ThreadsJoined
  BY <1>1, <1>2, EnterKeepsSnapshots, MainKeepsInv DEF ThreadsJoined, ChildInv, TypeOK
<1>3. CASE MainEnds \/ AtexitEnds
  <2>1. /\ UNCHANGED <<stack, cleaning>>
        /\ stack # <<>> \/ program = "dead" => stack' # <<>> \/ program' = "dead"
    BY <1>3 DEF MainEnds, AtexitEnds
  <2>2. Snapshots'
    BY <1>1, <2>1 DEF ChildInv, Snapshots
  <2> QED BY <1>1, <2>1, <2>2, MainKeepsInv DEF ChildInv, TypeOK
<1> QED BY <1>2, <1>3

LEMMA NextInv == ChildInv /\ [Next]_vars => ChildInv'
<1> SUFFICES ASSUME ChildInv, [Next]_vars PROVE ChildInv'
  OBVIOUS
<1>1. ASSUME NEW c \in Callers, Call(c) PROVE ChildInv'
  BY <1>1, SpawnKeepsInv, BookkeepingKeepsInv, ReturnsKeepsInv, TimesOutKeepsInv DEF Call
<1>2. ASSUME NEW p \in Pids, ChildEnds(p) PROVE ChildInv'
  BY <1>2, ChildEndsKeepsInv
<1>3. CASE ReapStep \/ ReapEnds
  BY <1>3, ReapKeepsInv, ReapEndsKeepsInv
<1>4. CASE HandlerEnds
  BY <1>4, ChainKeepsInv DEF HandlerEnds, ChildInv, TypeOK
<1>5. CASE Signal \/ MainEnds \/ ThreadsJoined \/ AtexitEnds
  BY <1>5, SignalKeepsInv, EndKeepsInv
<1>6. CASE UNCHANGED vars
  BY <1>6
     DEF vars, calls, ChildInv, TypeOK, Owned, Registered, GivenUp, Snapshots, Outlives,
         Collected
<1> QED BY <1>1, <1>2, <1>3, <1>4, <1>5, <1>6 DEF Next, Reaper

LEMMA SpecInv == Spec => []ChildInv
BY InitInv, NextInv, PTL DEF Spec

-----------------------------------------------------------------------------
(* Which children a program leaves behind.                                 *)

\* Before any signal what is registered is still waited for.
Known ==
  sent = 0 => \A p \in live : \E c \in Callers : pid[c] = p /\ pc[c] \in Busy \ {"spawned"}

\* Before any signal the exit finds nothing to end; with one signal, the activation
\* a program ends in has run to its end.
LastActivation ==
  /\ sent = 0 /\ program \in {"running", "exiting"} => stack = <<>>
  /\ sent = 0 /\ program \in {"atexit", "dead"} => Len(stack) = 1 /\ stack[1].at = "chain"
  /\ program = "dead" /\ sent <= 1 /\ Len(stack) = 1 => stack[1].at = "chain"

SurvivorInv == ChildInv /\ Known /\ LastActivation

LEMMA CallKeepsKnown ==
  ASSUME ChildInv, Known, sent = 0, sent' = sent, NEW c \in Callers, Call(c)
  PROVE  Known'
<1>0. /\ pc \in [Callers -> {"idle", "spawned", "hooking", "unregister", "done"} \cup Waits]
      /\ pid \in [Callers -> Pids \cup {None}] /\ live \subseteq Pids
      /\ None \notin Pids
      /\ \A p \in live : \E d \in Callers : pid[d] = p /\ pc[d] \in Busy \ {"spawned"}
  BY NoneIsNoPid DEF ChildInv, TypeOK, Known
<1> SUFFICES ASSUME NEW p \in live'
             PROVE  \E d \in Callers : pid'[d] = p /\ pc'[d] \in Busy \ {"spawned"}
  BY DEF Known
<1>1. CASE Spawn(c) \/ SpawnFails(c)
  <2>1. p \in live /\ pc[c] = "idle"
    BY <1>1 DEF Spawn, SpawnFails, MayStart
  <2>2. PICK d \in Callers : pid[d] = p /\ pc[d] \in Busy \ {"spawned"}
    BY <1>0, <2>1
  <2>3. d # c
    BY <2>1, <2>2 DEF Busy, Waits
  <2>4. pid'[d] = pid[d] /\ pc'[d] = pc[d]
    BY <1>0, <1>1, <2>3 DEF Spawn, SpawnFails, Goto
  <2> QED
    BY <2>2, <2>4
<1>2. CASE Register(c)
  <2>1. /\ live' = live \cup {pid[c]} /\ pid' = pid
        /\ \A d \in Callers : pc'[d] = IF d = c THEN pc'[c] ELSE pc[d]
        /\ pc'[c] \in Busy \ {"spawned"} /\ pc[c] = "spawned"
    BY <1>0, <1>2 DEF Register, Goto, Busy, Waits
  <2>2. CASE p = pid[c]
    BY <2>1, <2>2
  <2>3. CASE p \in live
    <3>1. PICK d \in Callers : pid[d] = p /\ pc[d] \in Busy \ {"spawned"}
      BY <1>0, <2>3
    <3> QED
      BY <2>1, <3>1
  <2> QED
    BY <2>1, <2>2, <2>3
<1>3. CASE InstallHooks(c) \/ Returns(c) \/ TimesOut(c)
  <2>1. /\ live' = live /\ pid' = pid
        /\ \A d \in Callers : d # c => pc'[d] = pc[d]
        /\ pc'[c] \in Busy \ {"spawned"}
    BY <1>0, <1>3 DEF InstallHooks, Returns, TimesOut, Goto, Busy, Waits
  <2>2. PICK d \in Callers : pid[d] = p /\ pc[d] \in Busy \ {"spawned"}
    BY <1>0, <2>1
  <2> QED
    BY <2>1, <2>2
<1>4. CASE Unregister(c)
  <2>1. /\ p \in live /\ p # pid[c] /\ pid' = pid
        /\ \A d \in Callers : d # c => pc'[d] = pc[d]
    BY <1>0, <1>4 DEF Unregister, Goto
  <2>2. PICK d \in Callers : pid[d] = p /\ pc[d] \in Busy \ {"spawned"}
    BY <1>0, <2>1
  <2> QED
    BY <2>1, <2>2
<1> QED
  BY <1>1, <1>2, <1>3, <1>4 DEF Call

\* Before any signal no activation has anything to do.
LEMMA QuietReaper ==
  ASSUME ChildInv, LastActivation, sent = 0
  PROVE  ~ReapStep /\ ~ReapEnds /\ ~HandlerEnds
<1>1. program # "dead" /\ stack # <<>> => Top.at = "chain" /\ FromAtexit
  BY DEF ChildInv, TypeOK, LastActivation, Top, FromAtexit
<1>2. ~At("term") /\ ~At("poll") /\ ~At("drain")
  BY <1>1 DEF At
<1> QED
  BY <1>1, <1>2 DEF ReapStep, ReapTerm, ReapKill, ReapWait, ReapEnds, HandlerEnds, At

LEMMA NextSurvivor == SurvivorInv /\ [Next]_vars => SurvivorInv'
<1> SUFFICES ASSUME SurvivorInv, [Next]_vars PROVE SurvivorInv'
  OBVIOUS
<1>0. /\ ChildInv /\ ChildInv' /\ Known /\ LastActivation
      /\ sent \in Nat /\ sent' \in Nat
      /\ program \in {"running", "exiting", "atexit", "dead"} /\ stack \in Seq(Frames)
  BY NextInv, ChildConstants DEF SurvivorInv, ChildInv, TypeOK
<1> SUFFICES Known' /\ LastActivation'
  BY <1>0 DEF SurvivorInv
<1>1. ASSUME NEW c \in Callers, Call(c) PROVE Known' /\ LastActivation'
  <2>1. UNCHANGED <<stack, program, sent>>
    BY <1>1 DEF Call, Spawn, SpawnFails, Register, InstallHooks, Returns, TimesOut, Unregister,
                Cleanup
  <2>2. LastActivation'
    BY <1>0, <2>1 DEF LastActivation
  <2>3. Known'
    <3>1. CASE sent = 0
      BY <1>0, <1>1, <2>1, <3>1, CallKeepsKnown
    <3>2. CASE sent # 0
      BY <2>1, <3>2 DEF Known
    <3> QED
      BY <3>1, <3>2
  <2> QED
    BY <2>2, <2>3
<1>2. ASSUME NEW p \in Pids, ChildEnds(p) PROVE Known' /\ LastActivation'
  BY <1>0, <1>2 DEF ChildEnds, Known, LastActivation, calls
<1>3. CASE ReapStep \/ ReapEnds
  <2>1. sent # 0 /\ sent' = sent /\ program' = program /\ program # "dead"
    BY <1>0, <1>3, QuietReaper
       DEF ReapStep, ReapEnds, ReapTerm, ReapKill, ReapWait, At
  <2> QED
    BY <2>1 DEF Known, LastActivation
<1>4. CASE HandlerEnds
  <2>1. sent # 0 /\ sent' = sent /\ At("chain")
    BY <1>0, <1>4, QuietReaper DEF HandlerEnds
  <2>2. program' = "dead" => stack' = stack \/ stack' = <<>>
    BY <1>4 DEF HandlerEnds, Chain, Interrupted, At
  <2>3. Len(<<>>) = 0 /\ (Len(stack) = 1 => stack[1].at = "chain")
    BY <2>1 DEF At, Top
  <2> QED
    BY <2>1, <2>2, <2>3 DEF Known, LastActivation
<1>5. CASE Signal
  <2>1. sent' = sent + 1 /\ program # "dead" /\ sent' # 0
    BY <1>0, <1>5 DEF Signal
  <2>2. ASSUME program' = "dead" PROVE stack' = stack \/ stack' = <<>>
    BY <1>5, <2>1, <2>2 DEF Signal, Chain, Interrupted
  <2>3. ASSUME program' = "dead", sent' <= 1, Len(stack') = 1 PROVE stack'[1].at = "chain"
    <3>1. sent = 0
      BY <1>0, <2>1, <2>3
    <3>2. Len(<<>>) # 1
      OBVIOUS
    <3>3. stack' = stack /\ stack # <<>>
      BY <2>2, <2>3, <3>2, Zenon
    <3> QED
      BY <1>0, <2>1, <3>1, <3>3 DEF LastActivation
  <2> QED
    BY <2>1, <2>3 DEF Known, LastActivation
<1>6. CASE MainEnds
  BY <1>0, <1>6 DEF MainEnds, Known, LastActivation, calls
<1>7. CASE ThreadsJoined
  <2>1. /\ UNCHANGED <<calls, live, sent>> /\ program' = "atexit" /\ stack = <<>>
        /\ stack' = Append(stack, Activation(cleaning))
        /\ \A c \in Callers : pc[c] \in {"idle", "done"}
    BY <1>7 DEF ThreadsJoined, Enter
  <2>2. Known'
    BY <1>0, <2>1 DEF Known, calls
  <2>3. ASSUME sent = 0 PROVE Len(stack') = 1 /\ stack'[1].at = "chain"
    <3>1. live = {}
      BY <1>0, <2>1, <2>3 DEF Known, Busy, Waits
    <3>2. Activation(cleaning).at = "chain"
      BY <3>1 DEF Activation
    <3> QED
      BY <2>1, <3>2
  <2> QED
    BY <2>1, <2>2, <2>3 DEF LastActivation
<1>8. CASE AtexitEnds
  <2>1. /\ UNCHANGED <<calls, live, sent, stack>> /\ program' = "dead"
        /\ Len(stack) = 1 /\ stack[1].at = "chain"
    BY <1>8 DEF AtexitEnds, FromAtexit, At, Top
  <2> QED
    BY <1>0, <2>1 DEF Known, LastActivation, calls
<1>9. CASE UNCHANGED vars
  BY <1>0, <1>9 DEF vars, calls, Known, LastActivation
<1> QED
  BY <1>1, <1>2, <1>3, <1>4, <1>5, <1>6, <1>7, <1>8, <1>9 DEF Next, Reaper

-----------------------------------------------------------------------------
(* The theorems.                                                           *)

\* Every variable has its type.
THEOREM TypeCorrect == Spec => []TypeOK
<1>1. ChildInv => TypeOK
  BY DEF ChildInv
<1> QED BY <1>1, SpecInv, PTL

\* A running child is registered as long as its call waits for it, whatever
\* cleanups run at the same time.
THEOREM WaitedForStaysRegistered == Spec => []WaitedForIsRegistered
<1>1. ChildInv => WaitedForIsRegistered
  BY DEF ChildInv, Registered, WaitedForIsRegistered
<1> QED BY <1>1, SpecInv, PTL

\* A group that ignores SIGTERM does not outlive its timeout, nor a cleanup.
THEOREM StubbornGroupsAreKilled == Spec => []NoStubbornSurvivor
<1>1. ASSUME ChildInv PROVE NoStubbornSurvivor
  <2>1. DOMAIN stack = 1..Len(stack)
    BY <1>1, LenProperties DEF ChildInv, TypeOK
  <2> QED BY <1>1, <2>1 DEF ChildInv, GivenUp, Snapshots, NoStubbornSurvivor
<1> QED BY <1>1, SpecInv, PTL

\* Once a cleanup has taken an exit status, the program is in a cleanup, ending, or
\* one whose earlier handler goes on.
Ending ==
  \A p \in Pids : child[p] = "collected" =>
    previous = "returns" \/ stack # <<>> \/ program # "running"

LEMMA NextEnding == TypeOK /\ Ending /\ [Next]_vars => Ending'
<1> SUFFICES ASSUME TypeOK, Ending, [Next]_vars PROVE Ending'
  OBVIOUS
<1>1. ASSUME NEW c \in Callers, Call(c) PROVE Ending'
  <2>1. UNCHANGED <<previous, stack, program>>
    BY <1>1 DEF Call, Spawn, SpawnFails, Register, InstallHooks, Returns, TimesOut,
                Unregister, Cleanup
  <2>2. \A p \in Pids : child'[p] = "collected" => child[p] = "collected"
    BY <1>1 DEF TypeOK, Call, Spawn, SpawnFails, Register, InstallHooks, Returns,
                TimesOut, Unregister, Term, Kill, Doom, Running
  <2> QED BY <2>1, <2>2 DEF Ending
<1>2. ASSUME NEW p \in Pids, ChildEnds(p) PROVE Ending'
  BY <1>2 DEF ChildEnds, Ending, TypeOK
<1>3. CASE Reaper
  <2>1. CASE ReapStep
    BY <1>3, <2>1 DEF ReapStep, ReapTerm, ReapKill, ReapWait, Put, At, Ending, TypeOK
  <2>2. CASE ReapEnds
    BY <2>2 DEF ReapEnds, Put, At, Ending, TypeOK
  <2>3. CASE HandlerEnds
    BY <2>3 DEF HandlerEnds, Chain, Interrupted, Ending
  <2>4. CASE AtexitEnds
    BY <2>4 DEF AtexitEnds, Ending
  <2> QED BY <1>3, <2>1, <2>2, <2>3, <2>4 DEF Reaper
<1>4. CASE Signal
  <2>1. CASE hooked
    <3>1. stack' # <<>>
      BY <1>4, <2>1 DEF Signal, Enter, TypeOK
    <3> QED BY <3>1 DEF Ending
  <2>2. CASE ~hooked
    BY <1>4, <2>2 DEF Signal, Chain, Interrupted, Ending
  <2> QED BY <2>1, <2>2
<1>5. CASE MainEnds \/ ThreadsJoined
  BY <1>5 DEF MainEnds, ThreadsJoined, Ending
<1>6. CASE UNCHANGED vars
  BY <1>6 DEF vars, Ending
<1> QED
  BY <1>1, <1>2, <1>3, <1>4, <1>5, <1>6 DEF Next

\* A call never takes a killed child for a successful one in a program that goes on
\* after the cleanup, unless the earlier handler lets it.
THEOREM KilledChildIsNoSuccess == Spec => []KilledIsNoSuccess
<1>1. Init => Ending
  BY DEF Init, Ending
<1>2. ASSUME ChildInv, Ending PROVE KilledIsNoSuccess
  <2> SUFFICES ASSUME NEW c \in Callers, result[c] = "zero", child[pid[c]] = "collected"
               PROVE  \/ previous = "returns"
                      \/ c # Main /\ (stack # <<>> \/ program # "running")
    BY DEF KilledIsNoSuccess
  <2>1. pid[c] \in Pids
    BY <1>2 DEF ChildInv, Owned, TypeOK
  <2>2. c = Main => previous = "returns"
    BY <1>2, <2>1, NoneIsNoPid DEF ChildInv, Collected
  <2> QED BY <1>2, <2>1, <2>2 DEF Ending
<1>3. ChildInv => TypeOK
  BY DEF ChildInv
<1> QED BY <1>1, <1>2, <1>3, SpecInv, NextEnding, PTL DEF Spec

\* After at most one signal, a cleanup that was not cut short leaves no child behind
\* that was registered when it began.
THEOREM SurvivorsWereRegisteredTooLate == Spec => []SurvivorsWereNotKnown
<1>1. Init => SurvivorInv
  BY InitInv DEF Init, SurvivorInv, Known, LastActivation
<1>2. ASSUME SurvivorInv PROVE SurvivorsWereNotKnown
  <2> SUFFICES ASSUME program = "dead", sent <= 1, Len(stack) = 1,
                      NEW c \in Callers, Outlives(c)
               PROVE  pid[c] \notin stack[1].snapshot /\ (pid[c] \in live \/ pc[c] \notin Waits)
    BY DEF SurvivorsWereNotKnown
  <2>1. ChildInv /\ stack[1].at = "chain"
    BY <1>2 DEF SurvivorInv, LastActivation
  <2>2. pid[c] \notin stack[1].snapshot
    BY <2>1 DEF ChildInv, Snapshots, Outlives
  <2>3. pc[c] \in Waits => pid[c] \in live
    BY <2>1 DEF ChildInv, Registered
  <2> QED
    BY <2>2, <2>3
<1> QED BY <1>1, <1>2, NextSurvivor, PTL DEF Spec
================================================================================
