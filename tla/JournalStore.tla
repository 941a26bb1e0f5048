------------------------------ MODULE JournalStore -----------------------------
(***************************************************************************)
(* The journals directory of ultracode (core/journal.py and                *)
(* core/journal_lifecycle.py) under concurrent processes:                  *)
(*                                                                         *)
(*   Writers     a fresh run: claim the file with O_EXCL at the first      *)
(*               append, lock it, verify it, then header, calls, result    *)
(*   Resumers    --resume: open, lock, verify, read and repair, append     *)
(*   Collectors  `journals gc --apply`: preflight every file under its     *)
(*               lock, then verify, unlink and release                     *)
(*   Inspectors  `journals gc` without --apply                             *)
(*                                                                         *)
(* A step is one system call that another process can observe, or one      *)
(* record written.  Every process can crash; the kernel then closes its    *)
(* descriptors and so drops its locks.                                     *)
(***************************************************************************)
EXTENDS JournalFile, FiniteSets

CONSTANTS
  NumRuns,         \* run identifiers are 1..NumRuns, in the order of sorted()
  Inodes,          \* files; a number is reused once nothing refers to it
  Writers, Resumers, Collectors, Inspectors,
  MaxCalls,        \* bound: model calls of one debate
  LocksSupported,  \* fcntl could be imported (journal.locks_supported)
  Seeds,           \* contents a journal may have before the first step
  None

Runs  == 1..NumRuns
Gcs   == Collectors \cup Inspectors
Procs == Writers \cup Resumers \cup Gcs

VARIABLES
  dir,      \* the directory: which file each run identifier names
  text,     \* the lines of each file
  holder,   \* who holds the advisory lock of each file
  old,      \* files whose created_at (mtime when empty) lies before the cutoff
  pc,       \* where each process stands
  run,      \* the run a process works on
  fd,       \* the file a process has open
  seq,      \* JournaledLlm.seq: calls the debate has made
  due,      \* the record whose write failed and is still buffered
  todo,     \* gc: paths of the glob still to inspect
  kept,     \* gc --apply: stale files whose locked descriptors are retained
  verified, \* gc --apply: the retained files whose path was checked again
  removed   \* gc --apply: runs it unlinked

fileVars == <<dir, text, holder, old>>
gcVars   == <<todo, kept, verified, removed>>
runVars  == <<seq, due>>
vars     == <<fileVars, pc, run, fd, runVars, gcVars>>

Header    == [type |-> "header"]
Call(n)   == [type |-> "call", seq |-> n]
Result    == [type |-> "result"]
Records   == {Header, Result} \cup {Call(n) : n \in 0..MaxCalls}
Lines     == [body : Records \cup {Torn, Scalar, Blank}, lf : BOOLEAN]

ASSUME ConstantsOK ==
  /\ NumRuns \in Nat /\ MaxCalls \in Nat /\ LocksSupported \in BOOLEAN
  /\ None \notin Inodes /\ None \notin Procs /\ None \notin Runs /\ None \notin Records
  /\ Writers \cap Resumers = {} /\ Writers \cap Gcs = {}
  /\ Resumers \cap Gcs = {} /\ Collectors \cap Inspectors = {}
  /\ Seeds \subseteq Seq(Lines)

\* Only the last line of a file can lack its line feed.
ASSUME SeedsTidy == \A t \in Seeds : \A k \in DOMAIN t : k < Len(t) => t[k].lf

\* Positions at which a process owns a journal it may append to.
Owning    == {"header", "calls", "sealed", "mute"}
Labels    == Owning \cup
             {"idle", "open", "lock", "verify", "repair", "deaf", "scan",
              "inspect", "check", "unlink", "release", "abort", "done"}

Linked(i)      == \E r \in Runs : dir[r] = i
KeptInodes(p)  == {item[2] : item \in kept[p]}
Unreferenced(i) ==
  ~Linked(i) /\ \A p \in Procs : fd[p] # i /\ i \notin KeptInodes(p)

\* Journals that earlier runs have left.
Seeded(left, place, seed) ==
  /\ \A r, q \in left : place[r] = place[q] => r = q
  /\ dir = [r \in Runs |-> IF r \in left THEN place[r] ELSE None]
  /\ text = [i \in Inodes |->
               IF \E r \in left : place[r] = i
               THEN seed[CHOOSE r \in left : place[r] = i] ELSE <<>>]

Init ==
  /\ \E left \in SUBSET Runs, place \in [Runs -> Inodes], seed \in [Runs -> Seeds] :
       Seeded(left, place, seed)
  /\ holder = [i \in Inodes |-> None]
  /\ old = [i \in Inodes |-> FALSE]
  /\ pc = [p \in Procs |-> "idle"]
  /\ run = [p \in Procs |-> None]
  /\ fd = [p \in Procs |-> None]
  /\ seq = [p \in Procs |-> 0]
  /\ due = [p \in Procs |-> None]
  /\ todo = [p \in Procs |-> {}]
  /\ kept = [p \in Procs |-> {}]
  /\ verified = [p \in Procs |-> {}]
  /\ removed = [p \in Procs |-> {}]

-----------------------------------------------------------------------------
(* Steps shared by the roles.                                              *)

Goto(p, label) == pc' = [pc EXCEPT ![p] = label]

\* Closing p's descriptors of S releases the locks taken through them.
Release(p, S) ==
  holder' = [i \in Inodes |-> IF i \in S /\ holder[i] = p THEN None ELSE holder[i]]

CloseFd(p) == Release(p, {fd[p]}) /\ fd' = [fd EXCEPT ![p] = None]

\* Where a process goes on when the file turns out not to be its own to use: a
\* fresh run debates on without a journal, a resume fails, gc skips the path.
Refused(p) ==
  CASE p \in Writers   -> "deaf"
    [] p \in Resumers  -> "done"
    [] OTHER           -> "scan"

Refuse(p) ==
  /\ CloseFd(p) /\ Goto(p, Refused(p))
  /\ UNCHANGED <<dir, text, old, run, runVars, gcVars>>

LockGranted(p) ==
  /\ pc[p] = "lock" /\ LocksSupported /\ holder[fd[p]] = None
  /\ holder' = [holder EXCEPT ![fd[p]] = p]
  /\ Goto(p, "verify")
  /\ UNCHANGED <<dir, text, old, run, fd, runVars, gcVars>>

LockBusy(p) ==
  /\ pc[p] = "lock" /\ LocksSupported /\ holder[fd[p]] # None
  /\ Refuse(p)

\* flock reports ENOLCK, ENOTSUP or ENOSYS: JournalLockUnsupported.  A dry run
\* reads on without the lock, gc --apply gives up as a whole.
LockUnsupported(p) ==
  /\ pc[p] = "lock"
  /\ \/ /\ p \in Inspectors
        /\ Goto(p, "verify")
        /\ UNCHANGED <<fileVars, run, fd, runVars, gcVars>>
     \/ /\ p \in Collectors
        /\ CloseFd(p) /\ Goto(p, "abort")
        /\ UNCHANGED <<dir, text, old, run, runVars, gcVars>>
     \/ /\ p \in Writers \cup Resumers
        /\ Refuse(p)

\* Mutant: the path is not compared with the locked descriptor.
VerifyInode_Trusting(p) ==
  /\ pc[p] = "verify"
  /\ Goto(p, CASE p \in Writers  -> "header"
               [] p \in Resumers -> "repair"
               [] OTHER          -> "inspect")
  /\ UNCHANGED <<fileVars, run, fd, runVars, gcVars>>

VerifyInode(p) ==
  /\ pc[p] = "verify" /\ dir[run[p]] = fd[p]
  /\ Goto(p, CASE p \in Writers  -> "header"
               [] p \in Resumers -> "repair"
               [] OTHER          -> "inspect")
  /\ UNCHANGED <<fileVars, run, fd, runVars, gcVars>>

VerifyFails(p) ==
  /\ pc[p] = "verify" /\ dir[run[p]] # fd[p]
  /\ Refuse(p)

-----------------------------------------------------------------------------
(* A fresh run: DebateJournal._open_append at the first append.            *)

\* Mutant: the file is opened without O_EXCL.
Claim_Opens(p, r, i) ==
  /\ p \in Writers /\ pc[p] = "idle"
  /\ dir[r] = i \/ (dir[r] = None /\ Unreferenced(i))
  /\ dir' = [dir EXCEPT ![r] = i]
  /\ run' = [run EXCEPT ![p] = r]
  /\ fd' = [fd EXCEPT ![p] = i]
  /\ Goto(p, IF LocksSupported THEN "lock" ELSE "header")
  /\ UNCHANGED <<text, old, holder, runVars, gcVars>>

Claim(p, r, i) ==
  /\ p \in Writers /\ pc[p] = "idle" /\ dir[r] = None /\ Unreferenced(i)
  /\ dir' = [dir EXCEPT ![r] = i]
  /\ text' = [text EXCEPT ![i] = <<>>]
  /\ old' = [old EXCEPT ![i] = FALSE]
  /\ run' = [run EXCEPT ![p] = r]
  /\ fd' = [fd EXCEPT ![p] = i]
  /\ Goto(p, IF LocksSupported THEN "lock" ELSE "header")
  /\ UNCHANGED <<holder, runVars, gcVars>>

\* EEXIST (a colliding run_id, even an empty file) or another OSError.
ClaimFails(p, r) ==
  /\ p \in Writers /\ pc[p] = "idle"
  /\ run' = [run EXCEPT ![p] = r]
  /\ Goto(p, "deaf")
  /\ UNCHANGED <<fileVars, fd, runVars, gcVars>>

-----------------------------------------------------------------------------
(* --resume: DebateJournal.resume.                                         *)

Resume(p, r) ==
  /\ p \in Resumers /\ pc[p] = "idle"
  /\ run' = [run EXCEPT ![p] = r]
  /\ Goto(p, IF dir[r] = None \/ ~LocksSupported THEN "done" ELSE "open")
  /\ UNCHANGED <<fileVars, fd, runVars, gcVars>>

ResumeOpen(p) ==
  /\ p \in Resumers /\ pc[p] = "open"
  /\ fd' = [fd EXCEPT ![p] = dir[run[p]]]
  /\ Goto(p, IF dir[run[p]] = None THEN "done" ELSE "lock")
  /\ UNCHANGED <<fileVars, run, runVars, gcVars>>

\* The repair is made before the records are judged: a journal that is then
\* refused (no record, no header, header mismatch) has been truncated already.
\* A file cut down to nothing has a fresh mtime.
ResumeRead(p) ==
  LET i == fd[p]
      records == RecordsOf(text[i])
  IN  /\ p \in Resumers /\ pc[p] = "repair" /\ ~Corrupt(text[i])
      /\ text' = [text EXCEPT ![i] = Repair(@)]
      /\ old' = [old EXCEPT ![i] = @ /\ (text'[i] # <<>> \/ text[i] = <<>>)]
      /\ \/ /\ records # <<>> /\ records[1] = Header
            /\ Goto(p, "calls")
            /\ UNCHANGED <<holder, fd>>
         \/ CloseFd(p) /\ Goto(p, "done")
      /\ UNCHANGED <<dir, run, runVars, gcVars>>

ResumeCorrupt(p) ==
  /\ p \in Resumers /\ pc[p] = "repair" /\ Corrupt(text[fd[p]])
  /\ CloseFd(p) /\ Goto(p, "done")
  /\ UNCHANGED <<dir, text, old, run, runVars, gcVars>>

-----------------------------------------------------------------------------
(* Appending: DebateJournal.append and JournaledLlm.                       *)

Recorded(p) == Len(CallsOf(text[fd[p]]))

\* The record the next append of p writes: a fresh file gets its header first,
\* a debate its next call once the replayed ones are used up, or its result.
NextRecords(p) ==
  IF pc[p] = "header" THEN {Header}
  ELSE {Result} \cup (IF seq[p] >= Recorded(p) /\ seq[p] < MaxCalls
                      THEN {Call(seq[p])} ELSE {})

\* Mutant: the result is counted as a call.
SeqAfter_CountsResult(p, record) ==
  IF record # Header THEN [seq EXCEPT ![p] = @ + 1] ELSE seq

SeqAfter(p, record) ==
  IF record.type = "call" THEN [seq EXCEPT ![p] = @ + 1] ELSE seq

Write(p, record) ==
  /\ pc[p] \in {"header", "calls"} /\ record \in NextRecords(p)
  /\ text' = [text EXCEPT ![fd[p]] = Put(@, Whole(record))]
  /\ seq' = SeqAfter(p, record)
  /\ Goto(p, IF record = Result THEN "sealed" ELSE "calls")
  /\ UNCHANGED <<dir, holder, old, run, fd, due, gcVars>>

\* The write raises OSError: no later record is written, the lock is retained,
\* and what the stream still buffers stays due until close().
WriteFails(p, record) ==
  /\ pc[p] \in {"header", "calls"} /\ record \in NextRecords(p)
  /\ \E t \in Interrupted(text[fd[p]], record) : text' = [text EXCEPT ![fd[p]] = t]
  /\ seq' = SeqAfter(p, record)
  /\ due' = [due EXCEPT ![p] = record]
  /\ Goto(p, "mute")
  /\ UNCHANGED <<dir, holder, old, run, fd, gcVars>>

\* A replayed call, or a live one of a debate that cannot record it.
UnrecordedCall(p) ==
  /\ seq[p] < MaxCalls
  /\ \/ pc[p] \in {"mute", "deaf"}
     \/ pc[p] = "calls" /\ seq[p] < Recorded(p)
  /\ seq' = [seq EXCEPT ![p] = @ + 1]
  /\ UNCHANGED <<fileVars, pc, run, fd, due, gcVars>>

\* With a result, or without one when the debate raised.
Close(p) ==
  /\ pc[p] \in {"calls", "sealed"}
  /\ CloseFd(p) /\ Goto(p, "done")
  /\ UNCHANGED <<dir, text, old, run, runVars, gcVars>>

CloseMute(p) ==
  /\ pc[p] = "mute"
  /\ \/ text' = text
     \/ text' = [text EXCEPT ![fd[p]] = Completed(@, due[p])]
  /\ CloseFd(p) /\ Goto(p, "done")
  /\ due' = [due EXCEPT ![p] = None]
  /\ UNCHANGED <<dir, old, run, seq, gcVars>>

CloseDeaf(p) ==
  /\ pc[p] = "deaf" /\ Goto(p, "done")
  /\ UNCHANGED <<fileVars, run, fd, runVars, gcVars>>

-----------------------------------------------------------------------------
(* journals gc: gc_journals, _gc_preflight_one and _gc_inspect.            *)

\* gc goes through the sorted paths.
First(r, S) == r \in S /\ \A q \in S : r <= q

GcStart(p) ==
  /\ p \in Gcs /\ pc[p] = "idle"
  /\ \/ /\ p \in Collectors /\ ~LocksSupported
        /\ Goto(p, "abort") /\ UNCHANGED todo
     \/ /\ p \in Inspectors \/ LocksSupported
        /\ todo' = [todo EXCEPT ![p] = {r \in Runs : dir[r] # None}]
        /\ Goto(p, "scan")
  /\ UNCHANGED <<fileVars, run, fd, runVars, kept, verified, removed>>

\* Mutant: the path stays on the list.
GcOpen_Again(p, r) ==
  /\ p \in Gcs /\ pc[p] = "scan" /\ First(r, todo[p])
  /\ run' = [run EXCEPT ![p] = r]
  /\ fd' = [fd EXCEPT ![p] = dir[r]]
  /\ Goto(p, IF dir[r] = None THEN "scan"
             ELSE IF LocksSupported THEN "lock" ELSE "inspect")
  /\ UNCHANGED <<fileVars, runVars, gcVars>>

GcOpen(p, r) ==
  /\ p \in Gcs /\ pc[p] = "scan" /\ First(r, todo[p])
  /\ todo' = [todo EXCEPT ![p] = @ \ {r}]
  /\ run' = [run EXCEPT ![p] = r]
  /\ fd' = [fd EXCEPT ![p] = dir[r]]
  /\ Goto(p, IF dir[r] = None THEN "scan"
             ELSE IF LocksSupported THEN "lock" ELSE "inspect")
  /\ UNCHANGED <<fileVars, runVars, kept, verified, removed>>

\* Mutant: an empty file is stale at once, its mtime is not asked for.
Stale_EmptyAtOnce(i) ==
  \/ text[i] = <<>>
  \/ old[i] /\ RecordsOf(text[i]) # <<>> /\ RecordsOf(text[i])[1] = Header

\* An empty file ages by mtime, any other by the created_at of its header.
Stale(i) ==
  /\ old[i]
  /\ \/ text[i] = <<>>
     \/ RecordsOf(text[i]) # <<>> /\ RecordsOf(text[i])[1] = Header

\* Mutants: the descriptor is closed though the path is retained, or the file is
\* unlinked within the preflight.
GcRetain_Closes(p) ==
  /\ p \in Collectors /\ pc[p] = "inspect"
  /\ ~Corrupt(text[fd[p]]) /\ Stale(fd[p])
  /\ kept' = [kept EXCEPT ![p] = @ \cup {<<run[p], fd[p]>>}]
  /\ CloseFd(p)
  /\ Goto(p, "scan")
  /\ UNCHANGED <<dir, text, old, run, runVars, todo, verified, removed>>

GcRetain_Unlinks(p) ==
  /\ p \in Collectors /\ pc[p] = "inspect"
  /\ ~Corrupt(text[fd[p]]) /\ Stale(fd[p])
  /\ dir' = [dir EXCEPT ![run[p]] = None]
  /\ removed' = [removed EXCEPT ![p] = @ \cup {run[p]}]
  /\ CloseFd(p)
  /\ Goto(p, "scan")
  /\ UNCHANGED <<text, old, run, runVars, todo, kept, verified>>

\* The descriptor of a stale file is retained, and with it the lock.
GcRetain(p) ==
  /\ p \in Collectors /\ pc[p] = "inspect"
  /\ ~Corrupt(text[fd[p]]) /\ Stale(fd[p])
  /\ kept' = [kept EXCEPT ![p] = @ \cup {<<run[p], fd[p]>>}]
  /\ fd' = [fd EXCEPT ![p] = None]
  /\ Goto(p, "scan")
  /\ UNCHANGED <<fileVars, run, runVars, todo, verified, removed>>

GcPass(p) ==
  /\ p \in Gcs /\ pc[p] = "inspect" /\ ~Corrupt(text[fd[p]])
  /\ p \in Inspectors \/ ~Stale(fd[p])
  /\ CloseFd(p) /\ Goto(p, "scan")
  /\ UNCHANGED <<dir, text, old, run, runVars, gcVars>>

\* Mutant: a corrupt file is retained for unlinking like a stale one.
GcCorrupt_Retains(p) ==
  /\ p \in Collectors /\ pc[p] = "inspect" /\ Corrupt(text[fd[p]])
  /\ kept' = [kept EXCEPT ![p] = @ \cup {<<run[p], fd[p]>>}]
  /\ fd' = [fd EXCEPT ![p] = None]
  /\ Goto(p, "scan")
  /\ UNCHANGED <<fileVars, run, runVars, todo, verified, removed>>

GcCorrupt(p) ==
  /\ p \in Gcs /\ pc[p] = "inspect" /\ Corrupt(text[fd[p]])
  /\ CloseFd(p) /\ Goto(p, "abort")
  /\ UNCHANGED <<dir, text, old, run, runVars, gcVars>>

\* Any other OSError: during the preflight nothing has been unlinked, later the
\* finally clause releases what is left.  A dry run skips the file.
GcError(p) ==
  /\ \/ /\ p \in Gcs /\ pc[p] \in {"lock", "verify", "inspect"}
        /\ Goto(p, IF p \in Collectors THEN "abort" ELSE "scan")
     \/ /\ p \in Collectors /\ pc[p] \in {"check", "unlink"}
        /\ Goto(p, "release")
  /\ CloseFd(p)
  /\ UNCHANGED <<dir, text, old, run, runVars, gcVars>>

GcScanned(p) ==
  /\ p \in Gcs /\ pc[p] = "scan" /\ todo[p] = {}
  /\ todo' = [todo EXCEPT ![p] = {item[1] : item \in kept[p]}]
  /\ Goto(p, IF p \in Collectors THEN "check" ELSE "release")
  /\ UNCHANGED <<fileVars, run, fd, runVars, kept, verified, removed>>

\* Every retained path must still name the locked file ...
GcCheck(p, r) ==
  /\ pc[p] = "check" /\ First(r, todo[p])
  /\ todo' = [todo EXCEPT ![p] = @ \ {r}]
  /\ verified' = [verified EXCEPT ![p] =
                    @ \cup {item \in kept[p] : item[1] = r /\ dir[r] = item[2]}]
  /\ UNCHANGED <<fileVars, pc, run, fd, runVars, kept, removed>>

GcChecked(p) ==
  /\ pc[p] = "check" /\ todo[p] = {} /\ Goto(p, "unlink")
  /\ UNCHANGED <<fileVars, run, fd, runVars, gcVars>>

\* ... and unlink goes by path.
GcUnlink(p, r) ==
  /\ pc[p] = "unlink" /\ First(r, {item[1] : item \in verified[p]})
  /\ verified' = [verified EXCEPT ![p] = {item \in @ : item[1] # r}]
  /\ dir' = [dir EXCEPT ![r] = None]
  /\ removed' = [removed EXCEPT ![p] =
                   IF dir[r] = None THEN @ ELSE @ \cup {r}]
  /\ UNCHANGED <<text, holder, old, pc, run, fd, runVars, todo, kept>>

GcUnlinked(p) ==
  /\ pc[p] = "unlink" /\ verified[p] = {} /\ Goto(p, "release")
  /\ UNCHANGED <<fileVars, run, fd, runVars, gcVars>>

\* Mutant: a failed preflight does not close what it retained.
GcRelease_NotOnAbort(p) ==
  /\ pc[p] \in {"release", "abort"}
  /\ IF pc[p] = "release"
     THEN Release(p, KeptInodes(p)) /\ kept' = [kept EXCEPT ![p] = {}]
     ELSE UNCHANGED <<holder, kept>>
  /\ Goto(p, "done")
  /\ UNCHANGED <<dir, text, old, run, fd, runVars, todo, verified, removed>>

GcRelease(p) ==
  /\ pc[p] \in {"release", "abort"}
  /\ Release(p, KeptInodes(p))
  /\ kept' = [kept EXCEPT ![p] = {}]
  /\ Goto(p, "done")
  /\ UNCHANGED <<dir, text, old, run, fd, runVars, todo, verified, removed>>

-----------------------------------------------------------------------------
(* The environment.                                                        *)

Crash(p) ==
  /\ pc[p] \notin {"idle", "done"}
  /\ IF pc[p] \in {"header", "calls"}
     THEN \E record \in NextRecords(p) :
          \E t \in Interrupted(text[fd[p]], record) : text' = [text EXCEPT ![fd[p]] = t]
     ELSE UNCHANGED text
  /\ Release(p, {fd[p]} \cup KeptInodes(p))
  /\ fd' = [fd EXCEPT ![p] = None]
  /\ kept' = [kept EXCEPT ![p] = {}]
  /\ due' = [due EXCEPT ![p] = None]
  /\ Goto(p, "done")
  /\ UNCHANGED <<dir, old, run, seq, todo, verified, removed>>

\* The cutoff of a gc passes the file (--older-than-days may be 0).
Age(i) ==
  /\ Linked(i) /\ ~old[i]
  /\ old' = [old EXCEPT ![i] = TRUE]
  /\ UNCHANGED <<dir, text, holder, pc, run, fd, runVars, gcVars>>

Finished ==
  /\ \A p \in Procs : pc[p] = "done"
  /\ UNCHANGED vars

Begin(p) ==
  \/ \E r \in Runs, i \in Inodes : Claim(p, r, i)
  \/ \E r \in Runs : ClaimFails(p, r) \/ Resume(p, r)
  \/ GcStart(p)

Step(p) ==
  \/ LockGranted(p) \/ LockBusy(p) \/ LockUnsupported(p)
  \/ VerifyInode(p) \/ VerifyFails(p)
  \/ ResumeOpen(p) \/ ResumeRead(p) \/ ResumeCorrupt(p)
  \/ \E record \in Records : Write(p, record) \/ WriteFails(p, record)
  \/ UnrecordedCall(p) \/ Close(p) \/ CloseMute(p) \/ CloseDeaf(p)
  \/ \E r \in Runs : GcOpen(p, r) \/ GcCheck(p, r) \/ GcUnlink(p, r)
  \/ GcRetain(p) \/ GcPass(p) \/ GcCorrupt(p) \/ GcError(p)
  \/ GcScanned(p) \/ GcChecked(p) \/ GcUnlinked(p) \/ GcRelease(p)

Next ==
  \/ \E p \in Procs : Begin(p) \/ Step(p) \/ Crash(p)
  \/ \E i \in Inodes : Age(i)
  \/ Finished

Spec     == Init /\ [][Next]_vars
FairSpec == Spec /\ \A p \in Procs : WF_vars(Step(p))

-----------------------------------------------------------------------------
(* Properties.                                                             *)

\* Every variable has its type.
TypeOK ==
  /\ dir \in [Runs -> Inodes \cup {None}]
  /\ text \in [Inodes -> Seq(Lines)]
  /\ holder \in [Inodes -> Procs \cup {None}]
  /\ old \in [Inodes -> BOOLEAN]
  /\ pc \in [Procs -> Labels]
  /\ run \in [Procs -> Runs \cup {None}]
  /\ fd \in [Procs -> Inodes \cup {None}]
  /\ seq \in [Procs -> 0..MaxCalls]
  /\ due \in [Procs -> Records \cup {None}]
  /\ todo \in [Procs -> SUBSET Runs]
  /\ kept \in [Procs -> SUBSET (Runs \X Inodes)]
  /\ verified \in [Procs -> SUBSET (Runs \X Inodes)]
  /\ removed \in [Procs -> SUBSET Runs]

Owns(p) == pc[p] \in Owning

\* A process that may append to a journal appends to the file its run names, and
\* (where locks exist) under that file's lock: gc never unlinks a journal that is
\* in use, and no one appends to a file that nobody will find again.
OwnerIsLinked ==
  \A p \in Procs : Owns(p) =>
    /\ dir[run[p]] = fd[p] /\ fd[p] # None
    /\ LocksSupported => holder[fd[p]] = p

\* No two processes append to one file; without locks this rests on O_EXCL and
\* on resume refusing to run.
SingleAppender ==
  \A p, q \in Procs : Owns(p) /\ Owns(q) /\ fd[p] = fd[q] => p = q

\* Whoever wrote it, and whatever crashes, failed writes and late flushes did to it,
\* a journal that some reader accepts is never turned into one that every later
\* reader rejects with JournalCorrupt; it is one header and then calls numbered
\* 0, 1, 2, ... without gap or repetition, on which _replay_match relies; and a
\* run that recorded its result has all the calls it made in it.
JournalsWellFormed ==
  /\ \A i \in Inodes :
       LET records == RecordsOf(text[i])
           calls   == CallsOf(text[i])
       IN  /\ ~Corrupt(text[i])
           /\ \A k \in DOMAIN records : records[k] = Header <=> k = 1
           /\ \A k \in DOMAIN calls : calls[k] = Call(k - 1)
  /\ \A p \in Writers : pc[p] = "sealed" =>
       /\ Recorded(p) = seq[p]
       /\ Last(RecordsOf(text[fd[p]])) = Result

\* What a journal once recorded stays recorded, in order, while the file lives:
\* repairs and flushes lose no whole record.
RecordsOnlyGrow ==
  [][\A i \in Inodes : ~Unreferenced(i) =>
       IsPrefix(RecordsOf(text[i]), RecordsOf(text[i])')]_vars

\* A path loses its file only to a collector that holds that file's lock, when
\* the file is past the cutoff and no process may append to it.
OnlyStaleUnlinked ==
  [][\A r \in Runs : dir[r] # None /\ dir'[r] # dir[r] =>
       /\ dir'[r] = None
       /\ old[dir[r]]
       /\ holder[dir[r]] \in Collectors
       /\ \A p \in Procs : Owns(p) => fd[p] # dir[r]]_vars

\* gc --apply that fails in its preflight has unlinked nothing ("zero destructive
\* work", journal_lifecycle.py:59-61).
FailedPreflightKeepsAll ==
  \A p \in Collectors : pc[p] = "abort" => removed[p] = {}

\* Content that is corrupt is neither repaired nor appended to nor deleted.
CorruptIsUntouched ==
  [][\A i \in Inodes : Corrupt(text[i]) =>
       text'[i] = text[i] /\ (Linked(i) => Linked(i)')]_vars

\* No lock outlives the descriptors it was taken through, on any error path, so
\* no later run finds a journal busy that nobody uses.
LocksAreHeldOpen ==
  /\ \A i \in Inodes, p \in Procs :
       holder[i] = p => fd[p] = i \/ i \in KeptInodes(p)
  /\ \A p \in Procs : pc[p] = "done" => fd[p] = None /\ kept[p] = {}

\* Nothing waits: every process that starts comes to its end, whatever the
\* others hold, because locks are only ever tried.
EveryoneFinishes ==
  \A p \in Procs : pc[p] # "idle" ~> pc[p] = "done"

-----------------------------------------------------------------------------
(* The inductive invariant behind OwnerIsLinked, SingleAppender and        *)
(* OnlyStaleUnlinked.                                                      *)

\* Positions after the inode was verified, and those of a gc preflight.
Secure   == Owning \cup {"repair", "inspect"}
Scanning == {"scan", "lock", "verify", "inspect"}

\* A file is linked at one path at most.
OnePath == \A r, q \in Runs : dir[r] = dir[q] /\ dir[r] # None => r = q

\* What a process has open, which run it works on, and what it still buffers.
HasFile ==
  /\ \A p \in Procs : pc[p] = "mute" => due[p] \in Records
  /\ \A p \in Procs : pc[p] \in {"lock", "verify"} \cup Secure => fd[p] \in Inodes
  /\ \A p \in Procs : pc[p] \in {"open", "lock", "verify"} \cup Secure => run[p] \in Runs

\* Who can stand where; without locks nobody resumes or collects.
Roles ==
  /\ \A p \in Gcs : pc[p] \notin Owning \cup {"repair", "open", "deaf"}
  /\ \A p \in Procs \ Collectors : pc[p] \notin {"check", "unlink"}
  /\ ~LocksSupported => /\ \A p \in Procs : pc[p] \notin {"lock", "verify"}
                        /\ \A p \in Resumers : pc[p] \in {"idle", "done"}
                        /\ \A p \in Collectors : pc[p] \in {"idle", "abort", "done"}

\* Only a dry run reads without the lock.
HoldsLock ==
  LocksSupported =>
    \A p \in Procs \ Inspectors :
      pc[p] \in {"verify"} \cup Secure => holder[fd[p]] = p

\* Once verified, a path keeps its file as long as the process stands there.
StaysLinked ==
  /\ \A p \in Procs \ Gcs : pc[p] \in Secure => dir[run[p]] = fd[p]
  /\ \A p \in Collectors : pc[p] = "inspect" => dir[run[p]] = fd[p]

\* gc looks at each path once.
MovesOn == \A p \in Gcs : pc[p] \in Scanning \ {"scan"} => run[p] \notin todo[p]

\* What a collector retains is locked, and distinct from what it inspects.
KeptIsLocked ==
  \A p \in Procs : \A item \in kept[p] :
    /\ p \in Collectors /\ LocksSupported
    /\ holder[item[2]] = p /\ fd[p] # item[2]
    /\ pc[p] # "idle"
    /\ pc[p] \in Scanning \cup {"check"} => dir[item[1]] = item[2]
    /\ pc[p] \in Scanning => item[1] \notin todo[p]
    /\ pc[p] \in Scanning \ {"scan"} => item[1] # run[p]

\* A retained file stays past the cutoff: nobody else can touch it.
KeptIsOld == \A p \in Procs : \A item \in kept[p] : old[item[2]]

\* What it is about to unlink by path is the file it holds.
VerifiedIsKept ==
  \A p \in Procs :
    /\ pc[p] \in {"check", "unlink"} =>
         \A item \in verified[p] : item \in kept[p] /\ dir[item[1]] = item[2]
    /\ pc[p] \in {"idle", "open"} \cup Scanning => verified[p] = {}

\* Without locks, O_EXCL alone keeps the files of the fresh runs apart.
ApartWithoutLocks ==
  ~LocksSupported =>
    \A p, q \in Procs : Owns(p) /\ Owns(q) /\ fd[p] = fd[q] => p = q

Ownership ==
  /\ OnePath /\ HasFile /\ Roles /\ HoldsLock /\ StaysLinked /\ MovesOn
  /\ KeptIsLocked /\ KeptIsOld /\ VerifiedIsKept /\ ApartWithoutLocks
================================================================================
