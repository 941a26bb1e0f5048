--------------------------- MODULE JournalStore_proofs --------------------------
(***************************************************************************)
(* Proofs about JournalStore, for any number of runs, files and processes. *)
(***************************************************************************)
EXTENDS JournalStore, JournalFile_proofs

(* What the operators on file contents return.                             *)

LEMMA FrontType ==
  ASSUME NEW S, NEW t \in Seq(S), t # <<>>
  PROVE  Front(t) \in Seq(S) /\ Last(t) \in S
BY DEF Front, Last

LEMMA NonRecordsAreLines ==
  /\ Whole(Header) \in Lines
  /\ \A record \in Records : Whole(record) \in Lines /\ Partial(record) \in Lines
  /\ Partial(Torn) \in Lines
  /\ \A line \in Lines : [body |-> Torn, lf |-> line.lf] \in Lines
BY DEF Lines, Records, Whole, Partial

LEMMA PutType ==
  ASSUME NEW t \in Seq(Lines), NEW line \in Lines
  PROVE  Put(t, line) \in Seq(Lines)
<1>1. CASE ~OpenTail(t)
  BY <1>1 DEF Put
<1>2. CASE OpenTail(t)
  <2>1. Front(t) \in Seq(Lines)
    BY <1>2, FrontType DEF OpenTail
  <2>2. [body |-> Torn, lf |-> line.lf] \in Lines
    BY NonRecordsAreLines
  <2> QED
    BY <1>2, <2>1, <2>2 DEF Put
<1> QED
  BY <1>1, <1>2

LEMMA RepairType ==
  ASSUME NEW t \in Seq(Lines)
  PROVE  Repair(t) \in Seq(Lines)
<1>1. CASE ~OpenTail(t)
  BY <1>1 DEF Repair
<1>2. CASE OpenTail(t)
  <2>1. Front(t) \in Seq(Lines) /\ Last(t) \in Lines
    BY <1>2, FrontType DEF OpenTail
  <2>2. Whole(Last(t).body) \in Lines
    BY <2>1 DEF Lines, Whole
  <2> QED
    BY <1>2, <2>1, <2>2 DEF Repair
<1> QED
  BY <1>1, <1>2

LEMMA InterruptedType ==
  ASSUME NEW t \in Seq(Lines), NEW record \in Records, NEW u \in Interrupted(t, record)
  PROVE  u \in Seq(Lines)
BY NonRecordsAreLines, PutType DEF Interrupted

LEMMA CompletedType ==
  ASSUME NEW t \in Seq(Lines), NEW record \in Records
  PROVE  Completed(t, record) \in Seq(Lines)
<1>1. (IF OpenTail(t) THEN Front(t) ELSE t) \in Seq(Lines)
  BY FrontType DEF OpenTail
<1> QED
  BY <1>1, NonRecordsAreLines, PutType DEF Completed

-----------------------------------------------------------------------------
(* Type correctness.                                                       *)

LEMMA InitTyped == Init => TypeOK /\ HasFile
<1> SUFFICES ASSUME Init PROVE TypeOK /\ HasFile
  OBVIOUS
<1>1. PICK left \in SUBSET Runs, place \in [Runs -> Inodes], seed \in [Runs -> Seeds] :
        Seeded(left, place, seed)
  BY DEF Init
<1>2. dir \in [Runs -> Inodes \cup {None}]
  BY <1>1 DEF Seeded
<1>3. text \in [Inodes -> Seq(Lines)]
  BY <1>1, ConstantsOK DEF Seeded
<1>4. /\ holder \in [Inodes -> Procs \cup {None}] /\ old \in [Inodes -> BOOLEAN]
      /\ fd \in [Procs -> Inodes \cup {None}] /\ run \in [Procs -> Runs \cup {None}]
  BY DEF Init
<1>5. /\ pc \in [Procs -> Labels] /\ seq \in [Procs -> 0..MaxCalls]
      /\ due \in [Procs -> Records \cup {None}] /\ todo \in [Procs -> SUBSET Runs]
      /\ kept \in [Procs -> SUBSET (Runs \X Inodes)]
      /\ verified \in [Procs -> SUBSET (Runs \X Inodes)]
      /\ removed \in [Procs -> SUBSET Runs]
  BY ConstantsOK DEF Init, Labels
<1>6. HasFile
  BY DEF Init, HasFile, Secure, Owning
<1> QED
  BY <1>2, <1>3, <1>4, <1>5, <1>6 DEF TypeOK

LEMMA ReleaseType ==
  ASSUME TypeOK, NEW p \in Procs, NEW S, Release(p, S)
  PROVE  holder' \in [Inodes -> Procs \cup {None}]
BY DEF Release, TypeOK

LEMMA NextTyped == TypeOK /\ HasFile /\ [Next]_vars => TypeOK' /\ HasFile'
<1> SUFFICES ASSUME TypeOK, HasFile, [Next]_vars PROVE TypeOK' /\ HasFile'
  OBVIOUS
<1> USE DEF HasFile, Secure, Owning
<1>1. ASSUME NEW p \in Procs, Begin(p) PROVE TypeOK' /\ HasFile'
  <2>1. ASSUME NEW r \in Runs, NEW i \in Inodes, Claim(p, r, i) PROVE TypeOK' /\ HasFile'
    BY <2>1 DEF Claim, Goto, TypeOK, Labels, runVars, gcVars
  <2>2. ASSUME NEW r \in Runs, ClaimFails(p, r) PROVE TypeOK' /\ HasFile'
    BY <2>2 DEF ClaimFails, Goto, TypeOK, Labels, runVars, gcVars, fileVars
  <2>3. ASSUME NEW r \in Runs, Resume(p, r) PROVE TypeOK' /\ HasFile'
    BY <2>3 DEF Resume, Goto, TypeOK, Labels, runVars, gcVars, fileVars
  <2>4. CASE GcStart(p)
    <3>1. todo' \in [Procs -> SUBSET Runs]
      <4>1. {r \in Runs : dir[r] # None} \in SUBSET Runs
        OBVIOUS
      <4> QED
        BY <2>4, <4>1 DEF GcStart, TypeOK
    <3>2. /\ pc' \in [Procs -> Labels]
          /\ \A q \in Procs : pc'[q] = pc[q] \/ pc'[q] \in {"abort", "scan"}
      BY <2>4 DEF GcStart, Goto, TypeOK, Labels
    <3> QED
      BY <2>4, <3>1, <3>2 DEF GcStart, TypeOK, runVars, fileVars
  <2> QED
    BY <1>1, <2>1, <2>2, <2>3, <2>4 DEF Begin
<1>2. ASSUME NEW p \in Procs, Step(p) PROVE TypeOK' /\ HasFile'
  <2>1. ASSUME NEW label \in Labels, CloseFd(p), Goto(p, label), label \notin {"open", "lock", "verify"} \cup Secure,
               text' \in [Inodes -> Seq(Lines)], due' \in [Procs -> Records \cup {None}],
               \A q \in Procs \ {p} : due'[q] = due[q], old' \in [Inodes -> BOOLEAN],
               UNCHANGED <<dir, run, seq, gcVars>>
        PROVE  TypeOK' /\ HasFile'
    BY <2>1 DEF CloseFd, Release, Goto, TypeOK, gcVars
  <2>2. Refused(p) \in Labels /\ Refused(p) \notin {"open", "lock", "verify"} \cup Secure
    BY DEF Refused, Labels
  <2>3. ASSUME Refuse(p) PROVE TypeOK' /\ HasFile'
    BY <2>1, <2>2, <2>3 DEF Refuse, TypeOK, runVars
  <2>4. CASE LockGranted(p)
    BY <2>4 DEF LockGranted, Goto, TypeOK, Labels, runVars, gcVars
  <2>5. CASE LockBusy(p)
    BY <2>3, <2>5 DEF LockBusy
  <2>6. CASE LockUnsupported(p)
    <3>1. CASE pc[p] = "lock" /\ Goto(p, "verify") /\ UNCHANGED <<fileVars, run, fd, runVars, gcVars>>
      BY <3>1 DEF Goto, TypeOK, Labels, fileVars, runVars, gcVars
    <3>2. CASE CloseFd(p) /\ Goto(p, "abort") /\ UNCHANGED <<dir, text, old, run, runVars, gcVars>>
      BY <2>1, <3>2 DEF TypeOK, Labels, runVars
    <3> QED
      BY <2>3, <2>6, <3>1, <3>2 DEF LockUnsupported
  <2>7. CASE VerifyInode(p)
    <3>1. PICK label \in {"header", "repair", "inspect"} :
            pc[p] = "verify" /\ Goto(p, label)
      BY <2>7 DEF VerifyInode
    <3> QED
      BY <2>7, <3>1 DEF VerifyInode, Goto, TypeOK, Labels, fileVars, runVars, gcVars
  <2>8. CASE VerifyFails(p)
    BY <2>3, <2>8 DEF VerifyFails
  <2>9. CASE ResumeOpen(p)
    BY <2>9 DEF ResumeOpen, Goto, TypeOK, Labels, fileVars, runVars, gcVars
  <2>10. CASE ResumeRead(p)
    <3>1. fd[p] \in Inodes
      BY <2>10 DEF ResumeRead
    <3>2. text' \in [Inodes -> Seq(Lines)] /\ old' \in [Inodes -> BOOLEAN]
      BY <2>10, <3>1, RepairType DEF ResumeRead, TypeOK
    <3>3. CASE Goto(p, "calls") /\ UNCHANGED <<holder, fd>>
      BY <2>10, <3>2, <3>3 DEF ResumeRead, Goto, TypeOK, Labels, runVars, gcVars
    <3>4. CASE CloseFd(p) /\ Goto(p, "done")
      BY <2>1, <2>10, <3>2, <3>4 DEF ResumeRead, TypeOK, Labels, runVars
    <3> QED
      BY <2>10, <3>3, <3>4 DEF ResumeRead
  <2>11. CASE ResumeCorrupt(p)
    BY <2>1, <2>11 DEF ResumeCorrupt, TypeOK, Labels, runVars
  <2>12. ASSUME NEW record \in Records, record \in NextRecords(p), pc[p] \in {"header", "calls"}
         PROVE  SeqAfter(p, record) \in [Procs -> 0..MaxCalls]
    <3>1. CASE record.type # "call"
      BY <3>1 DEF SeqAfter, TypeOK
    <3>2. CASE record.type = "call"
      <4>1. seq[p] < MaxCalls
        BY <2>12, <3>2 DEF NextRecords, Header, Result, Call
      <4> QED
        BY <3>2, <4>1, ConstantsOK DEF SeqAfter, TypeOK
    <3> QED
      BY <3>1, <3>2
  <2>13. ASSUME NEW record \in Records, Write(p, record) PROVE TypeOK' /\ HasFile'
    <3>1. fd[p] \in Inodes /\ seq' \in [Procs -> 0..MaxCalls]
      BY <2>12, <2>13 DEF Write
    <3>2. text' \in [Inodes -> Seq(Lines)]
      BY <2>13, <3>1, NonRecordsAreLines, PutType DEF Write, TypeOK
    <3>3. PICK label \in {"sealed", "calls"} : Goto(p, label)
      BY <2>13 DEF Write
    <3> QED
      BY <2>13, <3>1, <3>2, <3>3 DEF Write, Goto, TypeOK, Labels, gcVars
  <2>14. ASSUME NEW record \in Records, WriteFails(p, record) PROVE TypeOK' /\ HasFile'
    <3>1. fd[p] \in Inodes /\ seq' \in [Procs -> 0..MaxCalls]
      BY <2>12, <2>14 DEF WriteFails
    <3>2. text' \in [Inodes -> Seq(Lines)]
      BY <2>14, <3>1, InterruptedType DEF WriteFails, TypeOK
    <3> QED
      BY <2>14, <3>1, <3>2 DEF WriteFails, Goto, TypeOK, Labels, gcVars
  <2>15. CASE UnrecordedCall(p)
    BY <2>15, ConstantsOK DEF UnrecordedCall, TypeOK, fileVars, gcVars
  <2>16. CASE Close(p)
    BY <2>1, <2>16 DEF Close, TypeOK, Labels, runVars
  <2>17. CASE CloseMute(p)
    <3>1. fd[p] \in Inodes
      BY <2>17 DEF CloseMute
    <3>2. Completed(text[fd[p]], due[p]) \in Seq(Lines)
      BY <2>17, <3>1, CompletedType DEF CloseMute, TypeOK
    <3>3. text' \in [Inodes -> Seq(Lines)]
      BY <2>17, <3>1, <3>2 DEF CloseMute, TypeOK
    <3> QED
      BY <2>1, <2>17, <3>3 DEF CloseMute, TypeOK, Labels
  <2>18. CASE CloseDeaf(p)
    BY <2>18 DEF CloseDeaf, Goto, TypeOK, Labels, fileVars, runVars, gcVars
  <2>19. ASSUME NEW r \in Runs, GcOpen(p, r) PROVE TypeOK' /\ HasFile'
    <3>1. todo' \in [Procs -> SUBSET Runs] /\ run' \in [Procs -> Runs \cup {None}]
      BY <2>19 DEF GcOpen, TypeOK
    <3>2. CASE dir[r] = None
      BY <2>19, <3>1, <3>2 DEF GcOpen, Goto, TypeOK, Labels, fileVars, runVars
    <3>3. CASE dir[r] # None
      <4>1. dir[r] \in Inodes
        BY <3>3 DEF TypeOK
      <4>2. PICK label \in {"lock", "inspect"} : Goto(p, label)
        BY <2>19, <3>3 DEF GcOpen
      <4> QED
        BY <2>19, <3>1, <4>1, <4>2 DEF GcOpen, Goto, TypeOK, Labels, fileVars, runVars
    <3> QED
      BY <3>2, <3>3
  <2>20. CASE GcRetain(p)
    <3>1. fd[p] \in Inodes /\ run[p] \in Runs
      BY <2>20 DEF GcRetain
    <3>2. kept' \in [Procs -> SUBSET (Runs \X Inodes)]
      BY <2>20, <3>1 DEF GcRetain, TypeOK
    <3> QED
      BY <2>20, <3>2 DEF GcRetain, Goto, TypeOK, Labels, fileVars, runVars
  <2>21. CASE GcPass(p)
    BY <2>1, <2>21 DEF GcPass, TypeOK, Labels, runVars
  <2>22. CASE GcCorrupt(p)
    BY <2>1, <2>22 DEF GcCorrupt, TypeOK, Labels, runVars
  <2>23. CASE GcError(p)
    <3>1. PICK label \in {"abort", "scan", "release"} : Goto(p, label)
      BY <2>23 DEF GcError
    <3> QED
      BY <2>1, <2>23, <3>1 DEF GcError, TypeOK, Labels, runVars
  <2>24. CASE GcScanned(p)
    <3>1. {item[1] : item \in kept[p]} \in SUBSET Runs
      BY DEF TypeOK
    <3>2. todo' \in [Procs -> SUBSET Runs]
      BY <2>24, <3>1 DEF GcScanned, TypeOK
    <3>3. PICK label \in {"check", "release"} : Goto(p, label)
      BY <2>24 DEF GcScanned
    <3> QED
      BY <2>24, <3>2, <3>3 DEF GcScanned, Goto, TypeOK, Labels, fileVars, runVars
  <2>25. ASSUME NEW r \in Runs, GcCheck(p, r) PROVE TypeOK' /\ HasFile'
    <3>1. {item \in kept[p] : item[1] = r /\ dir[r] = item[2]} \in SUBSET (Runs \X Inodes)
      BY DEF TypeOK
    <3>2. verified' \in [Procs -> SUBSET (Runs \X Inodes)]
      BY <2>25, <3>1 DEF GcCheck, TypeOK
    <3>3. todo' \in [Procs -> SUBSET Runs]
      BY <2>25 DEF GcCheck, TypeOK
    <3> QED
      BY <2>25, <3>2, <3>3 DEF GcCheck, TypeOK, fileVars, runVars
  <2>26. CASE GcChecked(p)
    BY <2>26 DEF GcChecked, Goto, TypeOK, Labels, fileVars, runVars, gcVars
  <2>27. ASSUME NEW r \in Runs, GcUnlink(p, r) PROVE TypeOK' /\ HasFile'
    <3>1. {item \in verified[p] : item[1] # r} \in SUBSET (Runs \X Inodes)
      BY DEF TypeOK
    <3>2. verified' \in [Procs -> SUBSET (Runs \X Inodes)]
      BY <2>27, <3>1 DEF GcUnlink, TypeOK
    <3>3. dir' \in [Runs -> Inodes \cup {None}] /\ removed' \in [Procs -> SUBSET Runs]
      BY <2>27 DEF GcUnlink, TypeOK
    <3> QED
      BY <2>27, <3>2, <3>3 DEF GcUnlink, TypeOK, runVars
  <2>28. CASE GcUnlinked(p)
    BY <2>28 DEF GcUnlinked, Goto, TypeOK, Labels, fileVars, runVars, gcVars
  <2>29. CASE GcRelease(p)
    BY <2>29, ReleaseType DEF GcRelease, Goto, TypeOK, Labels, runVars
  <2> QED
    BY <1>2, <2>4, <2>5, <2>6, <2>7, <2>8, <2>9, <2>10, <2>11, <2>13, <2>14, <2>15, <2>16,
       <2>17, <2>18, <2>19, <2>20, <2>21, <2>22, <2>23, <2>24, <2>25, <2>26, <2>27, <2>28,
       <2>29 DEF Step
<1>3. ASSUME NEW p \in Procs, Crash(p) PROVE TypeOK' /\ HasFile'
  <2>1. holder' \in [Inodes -> Procs \cup {None}]
    BY <1>3, ReleaseType DEF Crash
  <2>2. text' \in [Inodes -> Seq(Lines)]
    <3>1. CASE pc[p] \in {"header", "calls"}
      <4>1. PICK record \in NextRecords(p) :
              \E t \in Interrupted(text[fd[p]], record) : text' = [text EXCEPT ![fd[p]] = t]
        BY <1>3, <3>1 DEF Crash
      <4>2. record \in Records
        <5>1. CASE record \in {Header, Result}
          BY <5>1 DEF Records
        <5>2. CASE record \notin {Header, Result}
          <6>1. record = Call(seq[p]) /\ seq[p] \in 0..MaxCalls
            BY <4>1, <5>2 DEF NextRecords, TypeOK
          <6> QED
            BY <6>1 DEF Records
        <5> QED
          BY <5>1, <5>2
      <4>3. fd[p] \in Inodes
        BY <3>1
      <4> QED
        BY <4>1, <4>2, <4>3, InterruptedType DEF TypeOK
    <3>2. CASE pc[p] \notin {"header", "calls"}
      BY <1>3, <3>2 DEF Crash, TypeOK
    <3> QED
      BY <3>1, <3>2
  <2> QED
    BY <1>3, <2>1, <2>2 DEF Crash, Goto, TypeOK, Labels
<1>4. ASSUME NEW i \in Inodes, Age(i) PROVE TypeOK' /\ HasFile'
  BY <1>4 DEF Age, TypeOK, runVars, gcVars
<1>5. CASE UNCHANGED vars
  BY <1>5 DEF vars, fileVars, gcVars, runVars, TypeOK
<1> QED
  BY <1>1, <1>2, <1>3, <1>4, <1>5 DEF Next, Finished

\* Every variable keeps its type, whatever the processes do and however many
\* there are.
THEOREM TypeCorrect == Spec => []TypeOK
<1>1. Init => TypeOK /\ HasFile
  BY InitTyped
<1>2. (TypeOK /\ HasFile) /\ [Next]_vars => (TypeOK /\ HasFile)'
  BY NextTyped
<1> QED
  BY <1>1, <1>2, PTL DEF Spec

-----------------------------------------------------------------------------
(* The ownership of journals: Ownership is inductive together with the     *)
(* types, and it implies that an active journal stays linked, has one      *)
(* appender, and is never unlinked.                                        *)

LEMMA InitOwned == Init => Ownership
<1> SUFFICES ASSUME Init PROVE Ownership
  OBVIOUS
<1>1. OnePath
  <2>1. PICK left \in SUBSET Runs, place \in [Runs -> Inodes], seed \in [Runs -> Seeds] :
          Seeded(left, place, seed)
    BY DEF Init
  <2> QED
    BY <2>1 DEF Seeded, OnePath
<1>2. HasFile
  BY InitTyped
<1>3. Roles /\ HoldsLock /\ StaysLinked /\ MovesOn /\ ApartWithoutLocks
  BY DEF Init, Roles, HoldsLock, StaysLinked, MovesOn, ApartWithoutLocks, Owns, Secure,
         Scanning, Owning, Procs, Gcs
<1>4. KeptIsLocked /\ KeptIsOld /\ VerifiedIsKept
  BY DEF Init, KeptIsLocked, KeptIsOld, VerifiedIsKept
<1> QED
  BY <1>1, <1>2, <1>3, <1>4 DEF Ownership

\* The part of Ownership that the steps below are about.  NextTyped carries HasFile,
\* and KeptStaysOld, at the end, KeptIsOld.
Owned ==
  /\ OnePath /\ Roles /\ HoldsLock /\ StaysLinked /\ MovesOn
  /\ KeptIsLocked /\ VerifiedIsKept /\ ApartWithoutLocks

-----------------------------------------------------------------------------
(* A process closes what it has open and goes on elsewhere.                *)

LEMMA ClosingKeepsOwnership ==
  ASSUME TypeOK, HasFile, Owned, NEW p \in Procs, NEW label \in Labels,
         CloseFd(p), Goto(p, label), UNCHANGED <<dir, run, gcVars>>,
         label \in {"deaf", "done", "scan", "abort", "release"},
         label = "deaf" => p \in Writers,
         label = "scan" => p \in Gcs /\ pc[p] \in Scanning,
         label = "release" => p \in Gcs /\ pc[p] \in {"check", "unlink"},
         label = "abort" => p \in Gcs,
         pc[p] # "idle"
  PROVE  Owned'
<1> USE DEF Secure, Owning, Scanning
<1>1. /\ pc' = [pc EXCEPT ![p] = label] /\ fd' = [fd EXCEPT ![p] = None]
      /\ holder' = [i \in Inodes |-> IF i = fd[p] /\ holder[i] = p THEN None ELSE holder[i]]
      /\ dir' = dir /\ run' = run /\ todo' = todo /\ kept' = kept /\ verified' = verified
  BY DEF CloseFd, Release, Goto, gcVars
<1>2. OnePath' /\ MovesOn'
  BY <1>1 DEF Owned, OnePath, MovesOn, TypeOK, Procs
<1>3. Roles'
  BY <1>1, ConstantsOK DEF Owned, Roles, TypeOK, Procs, Gcs
<1>4. HoldsLock'
  BY <1>1 DEF Owned, HoldsLock, HasFile, TypeOK
<1>5. StaysLinked'
  BY <1>1 DEF Owned, StaysLinked, TypeOK
<1>6. KeptIsLocked'
  <2> SUFFICES ASSUME NEW q \in Procs, NEW item \in kept[q]
               PROVE  /\ q \in Collectors /\ LocksSupported
                      /\ holder'[item[2]] = q /\ fd'[q] # item[2]
                      /\ pc'[q] # "idle"
                      /\ pc'[q] \in Scanning \cup {"check"} => dir[item[1]] = item[2]
                      /\ pc'[q] \in Scanning => item[1] \notin todo[q]
                      /\ pc'[q] \in Scanning \ {"scan"} => item[1] # run[q]
    BY <1>1 DEF KeptIsLocked
  <2>1. item \in Runs \X Inodes
    BY DEF TypeOK
  <2>2. item[2] \in Inodes /\ item[2] # None
    BY <2>1, ConstantsOK
  <2> QED
    BY <1>1, <2>2 DEF Owned, KeptIsLocked, TypeOK
<1>7. VerifiedIsKept'
  BY <1>1 DEF Owned, VerifiedIsKept, TypeOK
<1>8. ApartWithoutLocks'
  BY <1>1 DEF Owned, ApartWithoutLocks, Owns, TypeOK
<1> QED
  BY <1>2, <1>3, <1>4, <1>5, <1>6, <1>7, <1>8 DEF Owned

-----------------------------------------------------------------------------
(* A process goes on without opening, closing, locking or retaining.       *)

LEMMA MovingKeepsOwnership ==
  ASSUME TypeOK, HasFile, Owned, NEW p \in Procs, NEW label \in Labels,
         Goto(p, label), UNCHANGED <<dir, holder, run, fd, gcVars>>,
         pc[p] # "idle", label \notin {"idle", "open", "lock", "scan", "check", "abort"},
         label = "verify" => p \in Inspectors /\ pc[p] = "lock",
         label = "inspect" => p \in Gcs /\ pc[p] = "verify",
         label \in Owning \cup {"repair", "deaf"} => p \notin Gcs,
         label = "repair" => LocksSupported,
         label \in Secure => dir[run[p]] = fd[p] /\ pc[p] \in {"verify"} \cup Secure,
         label \in Owning => pc[p] \in Owning \/ LocksSupported,
         label \in Owning \cup {"repair", "deaf"} /\ p \in Resumers => LocksSupported,
         label = "unlink" => p \in Collectors /\ pc[p] = "check",
         label = "release" => p \in Gcs /\ (LocksSupported \/ p \notin Collectors)
  PROVE  Owned'
<1> USE DEF Secure, Owning, Scanning
<1>1. /\ pc' = [pc EXCEPT ![p] = label] /\ fd' = fd /\ holder' = holder
      /\ dir' = dir /\ run' = run /\ todo' = todo /\ kept' = kept /\ verified' = verified
  BY DEF Goto, gcVars
<1>2. OnePath' /\ MovesOn'
  BY <1>1 DEF Owned, OnePath, MovesOn, TypeOK, Procs
<1>3. Roles'
  <2>1. pc' \in [Procs -> Labels] /\ Roles /\ pc \in [Procs -> Labels]
    BY <1>1 DEF TypeOK, Owned
  <2>2. \A q \in Gcs : pc'[q] \notin Owning \cup {"repair", "open", "deaf"}
    BY <1>1, <2>1 DEF Roles, Procs, Gcs
  <2>3. \A q \in Procs \ Collectors : pc'[q] \notin {"check", "unlink"}
    BY <1>1, <2>1 DEF Roles
  <2>4. ASSUME ~LocksSupported, NEW q \in Procs PROVE pc'[q] \notin {"lock", "verify"}
    BY <1>1, <2>1, <2>4 DEF Roles
  <2>5. ASSUME ~LocksSupported, NEW q \in Resumers PROVE pc'[q] \in {"idle", "done"}
    BY <1>1, <2>1, <2>5, ConstantsOK DEF Roles, Procs, Labels
  <2>6. ASSUME ~LocksSupported, NEW q \in Collectors PROVE pc'[q] \in {"idle", "abort", "done"}
    BY <1>1, <2>1, <2>6, ConstantsOK DEF Roles, Procs, Gcs, Labels
  <2> QED
    BY <2>2, <2>3, <2>4, <2>5, <2>6 DEF Roles
<1>4. HoldsLock'
  BY <1>1 DEF Owned, HoldsLock, TypeOK
<1>5. StaysLinked'
  BY <1>1 DEF Owned, StaysLinked, TypeOK
<1>6. KeptIsLocked'
  BY <1>1 DEF Owned, KeptIsLocked, TypeOK
<1>7. VerifiedIsKept'
  BY <1>1 DEF Owned, VerifiedIsKept, TypeOK
<1>8. ApartWithoutLocks'
  BY <1>1 DEF Owned, ApartWithoutLocks, Owns, TypeOK
<1> QED
  BY <1>2, <1>3, <1>4, <1>5, <1>6, <1>7, <1>8 DEF Owned

-----------------------------------------------------------------------------
(* Every step keeps ownership.                                             *)

LEMMA RefusingKeepsOwnership ==
  ASSUME TypeOK, HasFile, Owned, NEW p \in Procs, Refuse(p), pc[p] \in {"lock", "verify"}
  PROVE  Owned'
<1>1. PICK label \in {"deaf", "done", "scan"} :
        /\ Goto(p, label)
        /\ label = "deaf" => p \in Writers
        /\ label = "scan" => p \in Gcs
  BY ConstantsOK DEF Refuse, Refused, Procs
<1> QED
  BY <1>1, ClosingKeepsOwnership DEF Refuse, Labels, Scanning

LEMMA BeginOwned ==
  ASSUME TypeOK, HasFile, Owned, NEW p \in Procs, Begin(p)
  PROVE  Owned'
<1> USE DEF Secure, Owning, Scanning
<1>1. ASSUME NEW r \in Runs, NEW i \in Inodes, Claim(p, r, i) PROVE Owned'
  <2>1. /\ dir' = [dir EXCEPT ![r] = i] /\ run' = [run EXCEPT ![p] = r]
        /\ fd' = [fd EXCEPT ![p] = i] /\ holder' = holder
        /\ pc' = [pc EXCEPT ![p] = IF LocksSupported THEN "lock" ELSE "header"]
        /\ todo' = todo /\ kept' = kept /\ verified' = verified
        /\ pc[p] = "idle" /\ dir[r] = None /\ p \in Writers
    BY <1>1 DEF Claim, Goto, gcVars
  <2>2. /\ \A q \in Runs : dir[q] # i
        /\ \A q \in Procs : fd[q] # i
        /\ \A q \in Procs : \A item \in kept[q] : item[2] # i
    BY <1>1 DEF Claim, Unreferenced, Linked, KeptInodes
  <2>3. OnePath' /\ MovesOn'
    BY <2>1, <2>2, ConstantsOK DEF Owned, OnePath, MovesOn, TypeOK, Procs, Gcs
  <2>4. Roles'
    BY <2>1, ConstantsOK DEF Owned, Roles, TypeOK, Procs, Gcs
  <2>5. HoldsLock'
    BY <2>1 DEF Owned, HoldsLock, TypeOK
  <2>6. StaysLinked'
    BY <2>1, <2>2, ConstantsOK DEF Owned, StaysLinked, TypeOK, HasFile, Procs, Gcs
  <2>7. kept[p] = {} /\ verified[p] = {}
    BY <2>1 DEF Owned, KeptIsLocked, VerifiedIsKept
  <2>8. KeptIsLocked'
    <3> SUFFICES ASSUME NEW q \in Procs, NEW item \in kept[q]
                 PROVE  /\ q \in Collectors /\ LocksSupported
                        /\ holder[item[2]] = q /\ fd'[q] # item[2]
                        /\ pc'[q] # "idle"
                        /\ pc'[q] \in Scanning \cup {"check"} => dir'[item[1]] = item[2]
                        /\ pc'[q] \in Scanning => item[1] \notin todo[q]
                        /\ pc'[q] \in Scanning \ {"scan"} => item[1] # run'[q]
      BY <2>1 DEF KeptIsLocked
    <3>1. item[1] \in Runs /\ item[2] \in Inodes /\ item[2] # None
      BY ConstantsOK DEF TypeOK
    <3>2. q # p
      BY <2>7
    <3> QED
      BY <2>1, <3>1, <3>2 DEF Owned, KeptIsLocked, TypeOK
  <2>9. VerifiedIsKept'
    <3> SUFFICES ASSUME NEW q \in Procs
                 PROVE  /\ pc'[q] \in {"check", "unlink"} =>
                             \A item \in verified[q] : item \in kept[q] /\ dir'[item[1]] = item[2]
                        /\ pc'[q] \in {"idle", "open"} \cup Scanning => verified[q] = {}
      BY <2>1 DEF VerifiedIsKept
    <3>1. \A item \in verified[q] : item[1] \in Runs /\ item[2] \in Inodes /\ item[2] # None
      BY ConstantsOK DEF TypeOK
    <3> QED
      BY <2>1, <2>7, <3>1 DEF Owned, VerifiedIsKept, TypeOK
  <2>10. ApartWithoutLocks'
    BY <2>1, <2>2 DEF Owned, ApartWithoutLocks, Owns, TypeOK
  <2> QED
    BY <2>3, <2>4, <2>5, <2>6, <2>8, <2>9, <2>10 DEF Owned
<1>2. ASSUME NEW r \in Runs, ClaimFails(p, r) \/ Resume(p, r) PROVE Owned'
  <2>1. PICK label \in {"deaf", "done", "open"} :
          /\ pc' = [pc EXCEPT ![p] = label]
          /\ label = "open" => LocksSupported
          /\ label = "deaf" => p \in Writers
    BY <1>2 DEF ClaimFails, Resume, Goto
  <2>2. /\ pc[p] = "idle" /\ p \in Writers \cup Resumers
        /\ run' = [run EXCEPT ![p] = r] /\ dir' = dir /\ fd' = fd /\ holder' = holder
        /\ todo' = todo /\ kept' = kept /\ verified' = verified
    BY <1>2 DEF ClaimFails, Resume, fileVars, gcVars
  <2>3. OnePath' /\ MovesOn' /\ HoldsLock' /\ StaysLinked' /\ ApartWithoutLocks'
    BY <2>1, <2>2
       DEF Owned, OnePath, MovesOn, HoldsLock, StaysLinked, ApartWithoutLocks, Owns, TypeOK,
           Procs, Gcs
  <2>4. Roles'
    BY <2>1, <2>2, ConstantsOK DEF Owned, Roles, TypeOK, Procs, Gcs
  <2>5. KeptIsLocked' /\ VerifiedIsKept'
    BY <2>1, <2>2 DEF Owned, KeptIsLocked, VerifiedIsKept, TypeOK
  <2> QED
    BY <2>3, <2>4, <2>5 DEF Owned
<1>3. CASE GcStart(p)
  <2>1. PICK label \in {"abort", "scan"} :
          /\ pc' = [pc EXCEPT ![p] = label]
          /\ label = "scan" => p \in Inspectors \/ LocksSupported
    BY <1>3 DEF GcStart, Goto
  <2>2. /\ pc[p] = "idle" /\ p \in Gcs
        /\ run' = run /\ dir' = dir /\ fd' = fd /\ holder' = holder
        /\ kept' = kept /\ verified' = verified
        /\ \A q \in Procs \ {p} : todo'[q] = todo[q]
    BY <1>3 DEF GcStart, fileVars, TypeOK
  <2>3. OnePath' /\ MovesOn' /\ HoldsLock' /\ StaysLinked' /\ ApartWithoutLocks'
    BY <2>1, <2>2
       DEF Owned, OnePath, MovesOn, HoldsLock, StaysLinked, ApartWithoutLocks, Owns, TypeOK,
           Procs, Gcs
  <2>4. Roles'
    BY <2>1, <2>2, ConstantsOK DEF Owned, Roles, TypeOK, Procs, Gcs
  <2>5. kept[p] = {}
    BY <2>2 DEF Owned, KeptIsLocked
  <2>6. KeptIsLocked'
    BY <2>1, <2>2, <2>5 DEF Owned, KeptIsLocked, TypeOK
  <2>7. VerifiedIsKept'
    BY <2>1, <2>2 DEF Owned, VerifiedIsKept, TypeOK
  <2> QED
    BY <2>3, <2>4, <2>6, <2>7 DEF Owned
<1> QED
  BY <1>1, <1>2, <1>3 DEF Begin

\* Locking and verifying, and the steps of a run.
LEMMA RunStepOwned ==
  ASSUME TypeOK, HasFile, Owned, NEW p \in Procs,
         \/ LockGranted(p) \/ LockBusy(p) \/ LockUnsupported(p)
         \/ VerifyInode(p) \/ VerifyFails(p)
         \/ ResumeOpen(p) \/ ResumeRead(p) \/ ResumeCorrupt(p)
         \/ \E record \in Records : Write(p, record) \/ WriteFails(p, record)
         \/ UnrecordedCall(p) \/ Close(p) \/ CloseMute(p) \/ CloseDeaf(p)
  PROVE  Owned'
<1> USE DEF Secure, Owning, Scanning
<1>1. CASE LockGranted(p)
  <2>1. /\ pc[p] = "lock" /\ LocksSupported /\ holder[fd[p]] = None /\ fd[p] \in Inodes
        /\ holder' = [holder EXCEPT ![fd[p]] = p] /\ pc' = [pc EXCEPT ![p] = "verify"]
        /\ dir' = dir /\ run' = run /\ fd' = fd /\ todo' = todo
        /\ kept' = kept /\ verified' = verified
    BY <1>1 DEF LockGranted, Goto, gcVars, HasFile
  <2>2. OnePath' /\ MovesOn' /\ StaysLinked' /\ ApartWithoutLocks' /\ VerifiedIsKept'
    BY <2>1 DEF Owned, OnePath, MovesOn, StaysLinked, ApartWithoutLocks, VerifiedIsKept, Owns, TypeOK
  <2>3. Roles'
    BY <2>1, ConstantsOK DEF Owned, Roles, TypeOK, Procs, Gcs
  <2>4. HoldsLock'
    BY <2>1, ConstantsOK DEF Owned, HoldsLock, HasFile, TypeOK
  <2>5. KeptIsLocked'
    <3>1. \A q \in Procs : \A item \in kept[q] : item[2] \in Inodes /\ item[2] # fd[p]
      BY <2>1, ConstantsOK DEF Owned, KeptIsLocked, TypeOK
    <3> QED
      BY <2>1, <3>1 DEF Owned, KeptIsLocked, TypeOK
  <2> QED
    BY <2>2, <2>3, <2>4, <2>5 DEF Owned
<1>2. CASE LockBusy(p) \/ VerifyFails(p)
  BY <1>2, RefusingKeepsOwnership DEF LockBusy, VerifyFails
<1>3. CASE LockUnsupported(p)
  <2>1. CASE p \in Inspectors /\ Goto(p, "verify") /\ UNCHANGED <<fileVars, run, fd, runVars, gcVars>>
    BY <1>3, <2>1, ConstantsOK, MovingKeepsOwnership
       DEF LockUnsupported, fileVars, Gcs, Procs, Labels
  <2>2. CASE p \in Collectors /\ CloseFd(p) /\ Goto(p, "abort")
             /\ UNCHANGED <<dir, text, old, run, runVars, gcVars>>
    BY <1>3, <2>2, ClosingKeepsOwnership DEF LockUnsupported, Gcs, Labels
  <2> QED
    BY <1>3, <2>1, <2>2, RefusingKeepsOwnership DEF LockUnsupported
<1>4. CASE VerifyInode(p)
  <2>1. pc[p] = "verify" /\ dir[run[p]] = fd[p] /\ LocksSupported
    BY <1>4 DEF VerifyInode, Owned, Roles
  <2>2. PICK label \in {"header", "repair", "inspect"} :
          /\ Goto(p, label)
          /\ label \in {"header", "repair"} => p \notin Gcs
          /\ label = "inspect" => p \in Gcs
    <3>1. CASE p \in Writers
      BY <1>4, <3>1, ConstantsOK DEF VerifyInode
    <3>2. CASE p \in Resumers
      <4>1. p \notin Writers /\ p \notin Gcs
        BY <3>2, ConstantsOK
      <4>2. Goto(p, "repair")
        BY <1>4, <3>2, <4>1 DEF VerifyInode
      <4> QED
        BY <4>1, <4>2
    <3>3. CASE p \in Gcs
      <4>1. p \notin Writers /\ p \notin Resumers
        BY <3>3, ConstantsOK
      <4>2. Goto(p, "inspect")
        BY <1>4, <4>1 DEF VerifyInode
      <4> QED
        BY <3>3, <4>2
    <3> QED
      BY <3>1, <3>2, <3>3 DEF Procs
  <2> QED
    BY <1>4, <2>1, <2>2, MovingKeepsOwnership DEF VerifyInode, fileVars, Labels
<1>5. CASE ResumeOpen(p)
  <2>1. PICK label \in {"done", "lock"} : pc' = [pc EXCEPT ![p] = label]
    BY <1>5 DEF ResumeOpen, Goto
  <2>2. /\ pc[p] = "open" /\ p \in Resumers /\ p \notin Gcs /\ LocksSupported
        /\ fd' = [fd EXCEPT ![p] = dir[run[p]]] /\ holder' = holder
        /\ dir' = dir /\ run' = run /\ todo' = todo /\ kept' = kept /\ verified' = verified
    BY <1>5, ConstantsOK DEF ResumeOpen, fileVars, gcVars, Owned, Roles
  <2>3. kept[p] = {}
    BY <2>2 DEF Owned, KeptIsLocked, Gcs
  <2>4. OnePath' /\ MovesOn' /\ HoldsLock' /\ StaysLinked' /\ ApartWithoutLocks' /\ VerifiedIsKept'
    BY <2>1, <2>2
       DEF Owned, OnePath, MovesOn, HoldsLock, StaysLinked, ApartWithoutLocks, VerifiedIsKept, Owns,
           TypeOK, Gcs
  <2>5. Roles'
    BY <2>1, <2>2, ConstantsOK DEF Owned, Roles, TypeOK, Procs, Gcs
  <2>6. KeptIsLocked'
    BY <2>1, <2>2, <2>3 DEF Owned, KeptIsLocked, TypeOK
  <2> QED
    BY <2>4, <2>5, <2>6 DEF Owned
<1>6. CASE ResumeRead(p)
  <2>1. /\ pc[p] = "repair" /\ p \in Resumers /\ p \notin Gcs /\ LocksSupported
        /\ dir[run[p]] = fd[p]
    BY <1>6, ConstantsOK DEF ResumeRead, Owned, Roles, StaysLinked, Procs, Gcs
  <2>2. CASE Goto(p, "calls") /\ UNCHANGED <<holder, fd>>
    BY <1>6, <2>1, <2>2, MovingKeepsOwnership DEF ResumeRead, Labels
  <2>3. CASE CloseFd(p) /\ Goto(p, "done")
    BY <1>6, <2>1, <2>3, ClosingKeepsOwnership DEF ResumeRead, Labels
  <2> QED
    BY <1>6, <2>2, <2>3 DEF ResumeRead
<1>7. CASE ResumeCorrupt(p) \/ Close(p)
  BY <1>7, ClosingKeepsOwnership DEF ResumeCorrupt, Close, Labels
<1>8. CASE CloseMute(p)
  BY <1>8, ClosingKeepsOwnership DEF CloseMute, Labels
<1>9. ASSUME NEW record \in Records, Write(p, record) \/ WriteFails(p, record) PROVE Owned'
  <2>1. PICK label \in {"sealed", "calls", "mute"} : Goto(p, label)
    BY <1>9 DEF Write, WriteFails
  <2>2. /\ pc[p] \in {"header", "calls"} /\ p \notin Gcs
        /\ dir[run[p]] = fd[p] /\ (p \in Resumers => LocksSupported)
    BY <1>9 DEF Write, WriteFails, Owned, Roles, StaysLinked
  <2> QED
    BY <1>9, <2>1, <2>2, MovingKeepsOwnership DEF Write, WriteFails, Labels
<1>10. CASE UnrecordedCall(p)
  BY <1>10
     DEF UnrecordedCall, fileVars, gcVars, Owned, OnePath, MovesOn, Roles, HoldsLock, StaysLinked,
         KeptIsLocked, VerifiedIsKept, ApartWithoutLocks, Owns
<1>11. CASE CloseDeaf(p)
  BY <1>11, MovingKeepsOwnership DEF CloseDeaf, fileVars, Labels
<1> QED
  BY <1>1, <1>2, <1>3, <1>4, <1>5, <1>6, <1>7, <1>8, <1>9, <1>10, <1>11

\* What p does to its own worklists leaves the other processes' claims alone.
LEMMA GcStepOwned ==
  ASSUME TypeOK, HasFile, Owned, NEW p \in Procs,
         \/ \E r \in Runs : GcOpen(p, r) \/ GcCheck(p, r) \/ GcUnlink(p, r)
         \/ GcRetain(p) \/ GcPass(p) \/ GcCorrupt(p) \/ GcError(p)
         \/ GcScanned(p) \/ GcChecked(p) \/ GcUnlinked(p) \/ GcRelease(p)
  PROVE  Owned'
<1> USE DEF Secure, Owning, Scanning
<1>0. \A q \in Procs : \A item \in kept[q] \cup verified[q] :
        item[1] \in Runs /\ item[2] \in Inodes /\ item[2] # None
  BY ConstantsOK DEF TypeOK
<1>1. ASSUME NEW r \in Runs, GcOpen(p, r) PROVE Owned'
  <2>1. PICK label \in {"scan", "lock", "inspect"} :
          /\ pc' = [pc EXCEPT ![p] = label]
          /\ label = "scan" <=> dir[r] = None
          /\ dir[r] # None => (label = "lock" <=> LocksSupported)
    BY <1>1 DEF GcOpen, Goto
  <2>2. /\ p \in Gcs /\ pc[p] = "scan" /\ r \in todo[p]
        /\ todo' = [todo EXCEPT ![p] = @ \ {r}]
        /\ run' = [run EXCEPT ![p] = r] /\ fd' = [fd EXCEPT ![p] = dir[r]]
        /\ dir' = dir /\ holder' = holder /\ kept' = kept /\ verified' = verified
    BY <1>1 DEF GcOpen, First, fileVars
  <2>3. p \in Inspectors \/ LocksSupported
    BY <2>2 DEF Owned, Roles, Gcs
  <2>4. OnePath' /\ MovesOn' /\ ApartWithoutLocks' /\ VerifiedIsKept'
    BY <2>1, <2>2 DEF Owned, OnePath, MovesOn, ApartWithoutLocks, VerifiedIsKept, Owns, TypeOK
  <2>5. HoldsLock' /\ StaysLinked'
    BY <2>1, <2>2, <2>3, ConstantsOK DEF Owned, HoldsLock, StaysLinked, TypeOK, Gcs, Procs
  <2>6. Roles'
    BY <2>1, <2>2, <2>3, ConstantsOK DEF Owned, Roles, TypeOK, Procs, Gcs
  <2>7. \A item \in kept[p] : item[1] # r /\ item[2] # dir[r]
    <3> SUFFICES ASSUME NEW item \in kept[p] PROVE item[1] # r /\ item[2] # dir[r]
      OBVIOUS
    <3>1. dir[item[1]] = item[2] /\ item[1] \notin todo[p]
      BY <2>2 DEF Owned, KeptIsLocked
    <3> QED
      BY <1>0, <2>2, <3>1 DEF Owned, OnePath
  <2>8. KeptIsLocked'
    BY <2>1, <2>2, <2>7 DEF Owned, KeptIsLocked, TypeOK
  <2> QED
    BY <2>4, <2>5, <2>6, <2>8 DEF Owned
<1>2. ASSUME NEW r \in Runs, GcCheck(p, r) PROVE Owned'
  <2>1. /\ pc[p] = "check" /\ pc' = pc /\ run' = run /\ fd' = fd /\ dir' = dir
        /\ holder' = holder /\ kept' = kept
        /\ \A q \in Procs \ {p} : todo'[q] = todo[q] /\ verified'[q] = verified[q]
        /\ \A item \in verified'[p] :
             item \in verified[p] \/ (item \in kept[p] /\ dir[item[1]] = item[2])
    <3>1. verified'[p] = verified[p] \cup {item \in kept[p] : item[1] = r /\ dir[r] = item[2]}
      BY <1>2 DEF GcCheck, TypeOK
    <3>2. \A q \in Procs \ {p} : todo'[q] = todo[q] /\ verified'[q] = verified[q]
      BY <1>2 DEF GcCheck, TypeOK
    <3>3. \A item \in verified'[p] :
            item \in verified[p] \/ (item \in kept[p] /\ dir[item[1]] = item[2])
      BY <3>1
    <3>4. /\ pc[p] = "check" /\ pc' = pc /\ run' = run /\ fd' = fd /\ dir' = dir
          /\ holder' = holder /\ kept' = kept
      BY <1>2 DEF GcCheck, fileVars
    <3> QED
      BY <3>2, <3>3, <3>4
  <2>2. OnePath' /\ MovesOn' /\ Roles' /\ HoldsLock' /\ StaysLinked' /\ ApartWithoutLocks'
    BY <2>1
       DEF Owned, OnePath, MovesOn, Roles, HoldsLock, StaysLinked, ApartWithoutLocks, Owns, Procs, Gcs
  <2>3. KeptIsLocked'
    BY <2>1 DEF Owned, KeptIsLocked
  <2>4. VerifiedIsKept'
    BY <2>1 DEF Owned, VerifiedIsKept
  <2> QED
    BY <2>2, <2>3, <2>4 DEF Owned
<1>3. ASSUME NEW r \in Runs, GcUnlink(p, r) PROVE Owned'
  <2>1. /\ pc[p] = "unlink" /\ pc' = pc /\ run' = run /\ fd' = fd /\ todo' = todo
        /\ holder' = holder /\ kept' = kept
        /\ dir' = [dir EXCEPT ![r] = None]
        /\ \A q \in Procs \ {p} : verified'[q] = verified[q]
        /\ \A item \in verified'[p] : item \in verified[p] /\ item[1] # r
    BY <1>3 DEF GcUnlink, TypeOK
  <2>2. PICK mine \in kept[p] : mine[1] = r /\ dir[r] = mine[2]
    <3>1. PICK mine \in verified[p] : mine[1] = r
      BY <1>3 DEF GcUnlink, First
    <3> QED
      BY <2>1, <3>1 DEF Owned, VerifiedIsKept
  <2>3. p \in Collectors /\ LocksSupported /\ holder[dir[r]] = p /\ dir[r] \in Inodes
    BY <1>0, <2>2 DEF Owned, KeptIsLocked
  <2>4. \A q \in Procs \ {p} : \A item \in kept[q] : item[2] # dir[r]
    BY <2>3 DEF Owned, KeptIsLocked
  <2>5. OnePath' /\ MovesOn'
    BY <2>1 DEF Owned, OnePath, MovesOn, TypeOK
  <2>6. Roles' /\ HoldsLock' /\ ApartWithoutLocks'
    BY <2>1 DEF Owned, Roles, HoldsLock, ApartWithoutLocks, Owns
  <2>7. StaysLinked'
    <3>1. ASSUME NEW q \in Procs \ Inspectors, pc[q] \in Secure, dir[run[q]] = fd[q]
          PROVE  run[q] # r
      <4>1. holder[fd[q]] = q
        BY <2>3, <3>1 DEF Owned, HoldsLock
      <4>2. q # p
        BY <2>1, <3>1
      <4> QED
        BY <2>3, <3>1, <4>1, <4>2
    <3>2. ASSUME NEW q \in Procs \ Gcs, pc[q] \in Secure PROVE dir'[run[q]] = fd[q]
      <4>1. dir[run[q]] = fd[q] /\ run[q] \in Runs
        BY <3>2 DEF Owned, StaysLinked, HasFile
      <4>2. run[q] # r
        BY <3>1, <3>2, <4>1 DEF Gcs
      <4> QED
        BY <2>1, <4>1, <4>2 DEF TypeOK
    <3>3. ASSUME NEW q \in Collectors, pc[q] = "inspect" PROVE dir'[run[q]] = fd[q]
      <4>1. dir[run[q]] = fd[q] /\ run[q] \in Runs
        BY <3>3 DEF Owned, StaysLinked, HasFile, Procs, Gcs
      <4>2. run[q] # r
        BY <3>1, <3>3, <4>1, ConstantsOK DEF Procs, Gcs
      <4> QED
        BY <2>1, <4>1, <4>2 DEF TypeOK
    <3> QED
      BY <2>1, <3>2, <3>3 DEF StaysLinked
  <2>8. KeptIsLocked'
    <3> SUFFICES ASSUME NEW q \in Procs, NEW item \in kept[q],
                        pc[q] \in Scanning \cup {"check"}
                 PROVE  dir'[item[1]] = item[2]
      BY <2>1 DEF Owned, KeptIsLocked
    <3>1. q # p /\ dir[item[1]] = item[2]
      BY <2>1 DEF Owned, KeptIsLocked
    <3> QED
      BY <1>0, <2>1, <2>4, <3>1 DEF TypeOK
  <2>9. VerifiedIsKept'
    <3> SUFFICES ASSUME NEW q \in Procs
                 PROVE  /\ pc[q] \in {"check", "unlink"} =>
                             \A item \in verified'[q] : item \in kept[q] /\ dir'[item[1]] = item[2]
                        /\ pc[q] \in {"idle", "open"} \cup Scanning => verified'[q] = {}
      BY <2>1 DEF VerifiedIsKept
    <3>1. CASE q = p
      BY <1>0, <2>1, <3>1 DEF Owned, VerifiedIsKept, TypeOK
    <3>2. CASE q # p
      <4>1. verified'[q] = verified[q]
        BY <2>1, <3>2
      <4>2. ASSUME pc[q] \in {"check", "unlink"}, NEW item \in verified[q]
            PROVE  item \in kept[q] /\ dir'[item[1]] = item[2]
        <5>1. item \in kept[q] /\ dir[item[1]] = item[2]
          BY <4>2 DEF Owned, VerifiedIsKept
        <5>2. item[1] # r
          BY <2>4, <3>2, <5>1
        <5> QED
          BY <1>0, <2>1, <5>1, <5>2 DEF TypeOK
      <4> QED
        BY <4>1, <4>2 DEF Owned, VerifiedIsKept
    <3> QED
      BY <3>1, <3>2
  <2> QED
    BY <2>5, <2>6, <2>7, <2>8, <2>9 DEF Owned
<1>4. CASE GcRetain(p)
  <2>1. /\ p \in Collectors /\ pc[p] = "inspect" /\ pc' = [pc EXCEPT ![p] = "scan"]
        /\ fd' = [fd EXCEPT ![p] = None] /\ run' = run /\ dir' = dir /\ holder' = holder
        /\ todo' = todo /\ verified' = verified
        /\ kept' = [kept EXCEPT ![p] = @ \cup {<<run[p], fd[p]>>}]
    BY <1>4 DEF GcRetain, Goto, fileVars
  <2>2. LocksSupported /\ p \notin Inspectors
    BY <2>1, ConstantsOK DEF Owned, Roles
  <2>3. /\ OnePath' /\ MovesOn' /\ HoldsLock' /\ StaysLinked' /\ ApartWithoutLocks'
    BY <2>1 DEF Owned, OnePath, MovesOn, HoldsLock, StaysLinked, ApartWithoutLocks, Owns, TypeOK
  <2>4. Roles'
    BY <2>1, <2>2, ConstantsOK DEF Owned, Roles, TypeOK, Procs, Gcs
  <2>5. /\ holder[fd[p]] = p /\ dir[run[p]] = fd[p]
        /\ fd[p] \in Inodes /\ run[p] \in Runs
    BY <2>1, <2>2 DEF Owned, HoldsLock, StaysLinked, HasFile
  <2>6. run[p] \notin todo[p]
    BY <2>1 DEF Owned, MovesOn, Gcs
  <2>7. KeptIsLocked'
    <3> SUFFICES ASSUME NEW q \in Procs, NEW item \in kept'[q]
                 PROVE  /\ q \in Collectors /\ LocksSupported
                        /\ holder[item[2]] = q /\ fd'[q] # item[2]
                        /\ pc'[q] # "idle"
                        /\ pc'[q] \in Scanning \cup {"check"} => dir[item[1]] = item[2]
                        /\ pc'[q] \in Scanning => item[1] \notin todo[q]
                        /\ pc'[q] \in Scanning \ {"scan"} => item[1] # run[q]
      BY <2>1 DEF KeptIsLocked
    <3>1. CASE item \in kept[q]
      BY <1>0, <2>1, <3>1 DEF Owned, KeptIsLocked, TypeOK
    <3>2. CASE item \notin kept[q]
      <4>1. q = p /\ item = <<run[p], fd[p]>>
        BY <2>1, <3>2 DEF TypeOK
      <4> QED
        BY <2>1, <2>2, <2>5, <2>6, <4>1, ConstantsOK DEF TypeOK
    <3> QED
      BY <3>1, <3>2
  <2>8. VerifiedIsKept'
    BY <2>1 DEF Owned, VerifiedIsKept, TypeOK
  <2> QED
    BY <2>3, <2>4, <2>7, <2>8 DEF Owned
<1>5. CASE GcPass(p) \/ GcCorrupt(p)
  <2>1. p \in Gcs /\ pc[p] = "inspect" /\ CloseFd(p) /\ UNCHANGED <<dir, run, gcVars>>
    BY <1>5 DEF GcPass, GcCorrupt
  <2>2. PICK label \in {"scan", "abort"} : Goto(p, label)
    BY <1>5 DEF GcPass, GcCorrupt
  <2> QED
    BY <2>1, <2>2, ClosingKeepsOwnership DEF Labels
<1>6. CASE GcError(p)
  <2>1. CloseFd(p) /\ UNCHANGED <<dir, run, gcVars>> /\ p \in Gcs
    BY <1>6 DEF GcError, Gcs
  <2>2. CASE pc[p] \in {"lock", "verify", "inspect"}
    <3>1. PICK label \in {"scan", "abort"} : Goto(p, label)
      BY <1>6, <2>2 DEF GcError
    <3> QED
      BY <2>1, <2>2, <3>1, ClosingKeepsOwnership DEF Labels
  <2>3. CASE pc[p] \in {"check", "unlink"}
    <3>1. Goto(p, "release")
      BY <1>6, <2>3 DEF GcError
    <3> QED
      BY <2>1, <2>3, <3>1, ClosingKeepsOwnership DEF Labels
  <2> QED
    BY <1>6, <2>2, <2>3 DEF GcError
<1>7. CASE GcScanned(p)
  <2>1. PICK label \in {"check", "release"} :
          /\ pc' = [pc EXCEPT ![p] = label]
          /\ label = "check" <=> p \in Collectors
    BY <1>7 DEF GcScanned, Goto
  <2>2. /\ p \in Gcs /\ pc[p] = "scan"
        /\ run' = run /\ dir' = dir /\ fd' = fd /\ holder' = holder
        /\ kept' = kept /\ verified' = verified
        /\ \A q \in Procs \ {p} : todo'[q] = todo[q]
    BY <1>7 DEF GcScanned, fileVars, TypeOK
  <2>3. OnePath' /\ MovesOn' /\ HoldsLock' /\ StaysLinked' /\ ApartWithoutLocks'
    BY <2>1, <2>2
       DEF Owned, OnePath, MovesOn, HoldsLock, StaysLinked, ApartWithoutLocks, Owns, TypeOK,
           Procs, Gcs
  <2>4. Roles'
    BY <2>1, <2>2, ConstantsOK DEF Owned, Roles, TypeOK, Procs, Gcs
  <2>5. KeptIsLocked'
    BY <2>1, <2>2 DEF Owned, KeptIsLocked, TypeOK
  <2>6. VerifiedIsKept'
    BY <2>1, <2>2 DEF Owned, VerifiedIsKept, TypeOK
  <2> QED
    BY <2>3, <2>4, <2>5, <2>6 DEF Owned
<1>8. CASE GcChecked(p) \/ GcUnlinked(p)
  <2>1. /\ pc[p] \in {"check", "unlink"} /\ UNCHANGED <<dir, holder, run, fd, gcVars>>
        /\ p \in Collectors /\ LocksSupported /\ p \in Gcs
    BY <1>8 DEF GcChecked, GcUnlinked, fileVars, Owned, Roles, Gcs
  <2>2. PICK label \in {"unlink", "release"} :
          Goto(p, label) /\ (label = "unlink" => pc[p] = "check")
    BY <1>8 DEF GcChecked, GcUnlinked
  <2> QED
    BY <2>1, <2>2, MovingKeepsOwnership DEF Labels
<1>9. CASE GcRelease(p)
  <2>1. /\ pc[p] \in {"release", "abort"} /\ pc' = [pc EXCEPT ![p] = "done"]
        /\ run' = run /\ dir' = dir /\ fd' = fd /\ todo' = todo /\ verified' = verified
        /\ kept' = [kept EXCEPT ![p] = {}]
        /\ \A i \in Inodes : holder'[i] = holder[i] \/ (holder[i] = p /\ holder'[i] = None)
    BY <1>9 DEF GcRelease, Goto, Release
  <2>2. OnePath' /\ MovesOn' /\ StaysLinked' /\ ApartWithoutLocks' /\ VerifiedIsKept'
    BY <2>1 DEF Owned, OnePath, MovesOn, StaysLinked, ApartWithoutLocks, VerifiedIsKept, Owns, TypeOK
  <2>3. HoldsLock'
    BY <2>1 DEF Owned, HoldsLock, HasFile, TypeOK
  <2>4. Roles'
    BY <2>1, ConstantsOK DEF Owned, Roles, TypeOK, Procs, Gcs
  <2>5. KeptIsLocked'
    BY <1>0, <2>1 DEF Owned, KeptIsLocked, TypeOK
  <2> QED
    BY <2>2, <2>3, <2>4, <2>5 DEF Owned
<1> QED
  BY <1>1, <1>2, <1>3, <1>4, <1>5, <1>6, <1>7, <1>8, <1>9

LEMMA CrashOwned ==
  ASSUME TypeOK, HasFile, Owned, NEW p \in Procs, Crash(p)
  PROVE  Owned'
<1> USE DEF Secure, Owning, Scanning
<1>0. \A q \in Procs : \A item \in kept[q] :
        item[1] \in Runs /\ item[2] \in Inodes /\ item[2] # None
  BY ConstantsOK DEF TypeOK
<1>1. /\ pc' = [pc EXCEPT ![p] = "done"] /\ fd' = [fd EXCEPT ![p] = None]
      /\ run' = run /\ dir' = dir /\ todo' = todo /\ verified' = verified
      /\ kept' = [kept EXCEPT ![p] = {}]
      /\ \A i \in Inodes : holder'[i] = holder[i] \/ (holder[i] = p /\ holder'[i] = None)
  BY DEF Crash, Goto, Release
<1>2. OnePath' /\ MovesOn' /\ StaysLinked' /\ ApartWithoutLocks' /\ VerifiedIsKept'
  BY <1>1
     DEF Owned, OnePath, MovesOn, StaysLinked, ApartWithoutLocks, VerifiedIsKept, Owns, TypeOK,
         Procs, Gcs
<1>3. HoldsLock'
  BY <1>1 DEF Owned, HoldsLock, HasFile, TypeOK
<1>4. Roles'
  BY <1>1, ConstantsOK DEF Owned, Roles, TypeOK, Procs, Gcs
<1>5. KeptIsLocked'
  BY <1>0, <1>1 DEF Owned, KeptIsLocked, TypeOK
<1> QED
  BY <1>2, <1>3, <1>4, <1>5 DEF Owned

LEMMA NextOwned == TypeOK /\ HasFile /\ Owned /\ [Next]_vars => Owned'
<1> SUFFICES ASSUME TypeOK, HasFile, Owned, [Next]_vars PROVE Owned'
  OBVIOUS
<1>1. ASSUME NEW p \in Procs, Begin(p) PROVE Owned'
  BY <1>1, BeginOwned
<1>2. ASSUME NEW p \in Procs, Step(p) PROVE Owned'
  <2>1. ASSUME \E r \in Runs : GcOpen(p, r) \/ GcCheck(p, r) \/ GcUnlink(p, r) PROVE Owned'
    BY <2>1, GcStepOwned
  <2>2. ASSUME \/ GcRetain(p) \/ GcPass(p) \/ GcCorrupt(p) \/ GcError(p)
               \/ GcScanned(p) \/ GcChecked(p) \/ GcUnlinked(p) \/ GcRelease(p)
        PROVE  Owned'
    BY <2>2, GcStepOwned
  <2>3. ASSUME \/ LockGranted(p) \/ LockBusy(p) \/ LockUnsupported(p)
               \/ VerifyInode(p) \/ VerifyFails(p)
               \/ ResumeOpen(p) \/ ResumeRead(p) \/ ResumeCorrupt(p)
        PROVE  Owned'
    BY <2>3, RunStepOwned
  <2>4. ASSUME \/ \E record \in Records : Write(p, record) \/ WriteFails(p, record)
               \/ UnrecordedCall(p) \/ Close(p) \/ CloseMute(p) \/ CloseDeaf(p)
        PROVE  Owned'
    BY <2>4, RunStepOwned
  <2> QED
    BY <1>2, <2>1, <2>2, <2>3, <2>4 DEF Step
<1>3. ASSUME NEW p \in Procs, Crash(p) PROVE Owned'
  BY <1>3, CrashOwned
<1>4. ASSUME dir' = dir, holder' = holder, pc' = pc, run' = run, fd' = fd, todo' = todo,
             kept' = kept, verified' = verified
      PROVE  Owned'
  BY <1>4
     DEF Owned, OnePath, Roles, HoldsLock, StaysLinked, MovesOn, KeptIsLocked, VerifiedIsKept,
         ApartWithoutLocks, Owns
<1>5. ASSUME NEW i \in Inodes, Age(i) PROVE Owned'
  BY <1>4, <1>5 DEF Age, gcVars
<1>6. CASE UNCHANGED vars
  BY <1>4, <1>6 DEF vars, fileVars, gcVars
<1> QED
  BY <1>1, <1>2, <1>3, <1>5, <1>6 DEF Next, Finished

\* Only a collector that finds a file stale retains one more.
LEMMA OnlyRetained ==
  ASSUME TypeOK, [Next]_vars, NEW q \in Procs, NEW item \in kept'[q], item \notin kept[q]
  PROVE  GcRetain(q) /\ item = <<run[q], fd[q]>>
<1>1. CASE kept' = kept
  BY <1>1
<1>2. ASSUME NEW p \in Procs, GcRelease(p) \/ Crash(p) PROVE FALSE
  BY <1>2 DEF GcRelease, Crash, TypeOK
<1>3. ASSUME NEW p \in Procs, GcRetain(p) PROVE GcRetain(q) /\ item = <<run[q], fd[q]>>
  BY <1>3 DEF GcRetain, TypeOK
<1>4. ASSUME NEW p \in Procs, NEW r \in Runs, GcOpen(p, r) \/ GcCheck(p, r) \/ GcUnlink(p, r)
      PROVE  kept' = kept
  BY <1>4 DEF GcOpen, GcCheck, GcUnlink
<1>5. ASSUME NEW p \in Procs, NEW record \in Records,
             Write(p, record) \/ WriteFails(p, record)
      PROVE  kept' = kept
  BY <1>5 DEF Write, WriteFails, gcVars
<1>6. ASSUME NEW p \in Procs,
             \/ LockGranted(p) \/ LockBusy(p) \/ LockUnsupported(p)
             \/ VerifyInode(p) \/ VerifyFails(p)
             \/ ResumeOpen(p) \/ ResumeRead(p) \/ ResumeCorrupt(p)
      PROVE  kept' = kept
  BY <1>6
     DEF LockGranted, LockBusy, LockUnsupported, VerifyInode, VerifyFails,
         ResumeOpen, ResumeRead, ResumeCorrupt, Refuse, gcVars
<1>7. ASSUME NEW p \in Procs,
             \/ UnrecordedCall(p) \/ Close(p) \/ CloseMute(p) \/ CloseDeaf(p)
             \/ GcPass(p) \/ GcCorrupt(p) \/ GcError(p)
             \/ GcScanned(p) \/ GcChecked(p) \/ GcUnlinked(p)
      PROVE  kept' = kept
  BY <1>7
     DEF UnrecordedCall, Close, CloseMute, CloseDeaf, GcPass, GcCorrupt, GcError,
         GcScanned, GcChecked, GcUnlinked, gcVars
<1>8. CASE UNCHANGED vars
  BY <1>8 DEF vars, gcVars
<1>9. CASE \E i \in Inodes : Age(i)
  BY <1>9 DEF Age, gcVars
<1>10. ASSUME NEW p \in Procs, Begin(p) PROVE kept' = kept
  BY <1>10 DEF Begin, Claim, ClaimFails, Resume, GcStart, gcVars
<1> QED
  BY <1>1, <1>2, <1>3, <1>4, <1>5, <1>6, <1>7, <1>8, <1>9, <1>10 DEF Next, Step, Finished

\* Only a resume and a fresh run make a file young again, and neither can while a
\* collector retains it: one would need its lock, the other that nobody uses it.
LEMMA KeptStaysOld ==
  TypeOK /\ HasFile /\ Owned /\ KeptIsOld /\ [Next]_vars => KeptIsOld'
<1> SUFFICES ASSUME TypeOK, HasFile, Owned, KeptIsOld, [Next]_vars,
                    NEW q \in Procs, NEW item \in kept'[q]
             PROVE  old'[item[2]]
  BY DEF KeptIsOld
<1> USE DEF Secure, Owning
<1>1. CASE item \in kept[q]
  <2>1. /\ item[2] \in Inodes /\ old[item[2]]
        /\ holder[item[2]] = q /\ q \in Collectors /\ LocksSupported
    BY <1>1 DEF Owned, KeptIsLocked, KeptIsOld, TypeOK
  <2>2. ASSUME NEW p \in Procs, NEW r \in Runs, NEW i \in Inodes, Claim(p, r, i)
        PROVE  old'[item[2]]
    <3>1. item[2] # i
      BY <1>1, <2>2 DEF Claim, Unreferenced, KeptInodes
    <3> QED
      BY <2>1, <2>2, <3>1 DEF Claim, TypeOK
  <2>3. ASSUME NEW p \in Procs, ResumeRead(p) PROVE old'[item[2]]
    <3>1. p \in Resumers /\ pc[p] = "repair" /\ p \notin Inspectors /\ p # q
      BY <2>1, <2>3, ConstantsOK DEF ResumeRead, Gcs
    <3>2. holder[fd[p]] = p
      BY <2>1, <3>1 DEF Owned, HoldsLock
    <3>3. item[2] # fd[p]
      BY <2>1, <3>1, <3>2
    <3> QED
      BY <2>1, <2>3, <3>3 DEF ResumeRead, TypeOK
  <2>4. CASE \A i \in Inodes : old[i] => old'[i]
    BY <2>1, <2>4
  <2>5. ASSUME NEW p \in Procs, NEW r \in Runs,
               ClaimFails(p, r) \/ Resume(p, r) \/ GcOpen(p, r) \/ GcCheck(p, r) \/ GcUnlink(p, r)
        PROVE  old'[item[2]]
    BY <2>4, <2>5 DEF ClaimFails, Resume, GcOpen, GcCheck, GcUnlink, fileVars
  <2>6. ASSUME NEW p \in Procs, NEW record \in Records, Write(p, record) \/ WriteFails(p, record)
        PROVE  old'[item[2]]
    BY <2>4, <2>6 DEF Write, WriteFails
  <2>7. ASSUME NEW p \in Procs,
               \/ GcStart(p) \/ LockGranted(p) \/ LockBusy(p) \/ LockUnsupported(p)
               \/ VerifyInode(p) \/ VerifyFails(p) \/ ResumeOpen(p) \/ ResumeCorrupt(p)
        PROVE  old' = old
    BY <2>7
       DEF GcStart, LockGranted, LockBusy, LockUnsupported, VerifyInode, VerifyFails,
           ResumeOpen, ResumeCorrupt, Refuse, fileVars
  <2>8. ASSUME NEW p \in Procs,
               \/ UnrecordedCall(p) \/ Close(p) \/ CloseMute(p) \/ CloseDeaf(p)
               \/ GcRetain(p) \/ GcPass(p) \/ GcCorrupt(p) \/ GcError(p)
               \/ GcScanned(p) \/ GcChecked(p) \/ GcUnlinked(p) \/ GcRelease(p) \/ Crash(p)
        PROVE  old' = old
    BY <2>8
       DEF UnrecordedCall, Close, CloseMute, CloseDeaf, GcRetain, GcPass, GcCorrupt, GcError,
           GcScanned, GcChecked, GcUnlinked, GcRelease, Crash, fileVars
  <2>9. ASSUME NEW i \in Inodes, Age(i) PROVE old'[item[2]]
    BY <2>1, <2>9 DEF Age, TypeOK
  <2>10. ASSUME UNCHANGED vars PROVE old'[item[2]]
    BY <2>4, <2>10 DEF vars, fileVars
  <2> QED
    BY <2>2, <2>3, <2>4, <2>5, <2>6, <2>7, <2>8, <2>9, <2>10
       DEF Next, Begin, Step, Finished
<1>2. CASE item \notin kept[q]
  <2>1. GcRetain(q) /\ item = <<run[q], fd[q]>>
    BY <1>2, OnlyRetained
  <2> QED
    BY <2>1 DEF GcRetain, Stale, fileVars
<1> QED
  BY <1>1, <1>2

-----------------------------------------------------------------------------
(* What follows for the runs.                                              *)

\* Whatever processes run, crash and fail in whatever order, the invariant that ties
\* paths, descriptors, locks and the positions in _open_append, resume and
\* gc_journals together holds.
THEOREM OwnershipHolds == Spec => []Ownership
<1>1. Init => TypeOK /\ HasFile /\ Owned /\ KeptIsOld
  BY InitTyped, InitOwned DEF Ownership, Owned
<1>2. (TypeOK /\ HasFile /\ Owned /\ KeptIsOld) /\ [Next]_vars
        => (TypeOK /\ HasFile /\ Owned /\ KeptIsOld)'
  BY NextTyped, NextOwned, KeptStaysOld
<1>3. HasFile /\ Owned /\ KeptIsOld => Ownership
  BY DEF Ownership, Owned
<1> QED
  BY <1>1, <1>2, <1>3, PTL DEF Spec

LEMMA AppenderIsOwner == TypeOK /\ Ownership => OwnerIsLinked
<1> SUFFICES ASSUME TypeOK, Ownership, NEW p \in Procs, Owns(p)
             PROVE  /\ dir[run[p]] = fd[p] /\ fd[p] # None
                    /\ LocksSupported => holder[fd[p]] = p
  BY DEF OwnerIsLinked
<1>1. p \notin Gcs /\ p \notin Inspectors /\ pc[p] \in Secure
  BY DEF Ownership, Roles, Owns, Owning, Secure, Gcs
<1> QED
  BY <1>1, ConstantsOK DEF Ownership, StaysLinked, HoldsLock, HasFile

\* A run that may append to its journal finds it at its path, and under its lock:
\* no gc deletes a journal under a live run, for any number of either.
THEOREM ActiveJournalsStayLinked == Spec => []OwnerIsLinked
BY TypeCorrect, OwnershipHolds, AppenderIsOwner, PTL

LEMMA OwnersAreApart == TypeOK /\ Ownership => SingleAppender
<1> SUFFICES ASSUME TypeOK, Ownership, NEW p \in Procs, NEW q \in Procs,
                    Owns(p), Owns(q), fd[p] = fd[q]
             PROVE  p = q
  BY DEF SingleAppender
<1>1. CASE LocksSupported
  BY <1>1, AppenderIsOwner DEF OwnerIsLinked
<1>2. CASE ~LocksSupported
  BY <1>2 DEF Ownership, ApartWithoutLocks
<1> QED
  BY <1>1, <1>2

\* Two processes never append to one journal, whether flock works or not.
THEOREM OneAppender == Spec => []SingleAppender
BY TypeCorrect, OwnershipHolds, OwnersAreApart, PTL

\* A path that loses its file is unlinked by a collector that retains that file.
LEMMA UnlinkIsOfKept ==
  ASSUME TypeOK, Ownership, [Next]_vars, NEW r \in Runs, dir[r] # None, dir'[r] # dir[r]
  PROVE  \E p \in Procs : GcUnlink(p, r) /\ \E item \in kept[p] : item[1] = r /\ dir[r] = item[2]
<1>1. PICK p \in Procs : GcUnlink(p, r)
  <2>1. dir' # dir
    OBVIOUS
  <2>2. ASSUME NEW p \in Procs, NEW q \in Runs, NEW i \in Inodes, Claim(p, q, i) PROVE FALSE
    <3>1. dir' = [dir EXCEPT ![q] = i] /\ dir[q] = None
      BY <2>2 DEF Claim
    <3> QED
      BY <3>1 DEF TypeOK
  <2>3. ASSUME NEW p \in Procs, NEW q \in Runs, GcUnlink(p, q) PROVE GcUnlink(p, r)
    <3>1. q = r
      BY <2>3 DEF GcUnlink, TypeOK
    <3> QED
      BY <2>3, <3>1
  <2>4. ASSUME NEW p \in Procs, NEW q \in Runs,
               ClaimFails(p, q) \/ Resume(p, q) \/ GcOpen(p, q) \/ GcCheck(p, q)
        PROVE  FALSE
    BY <2>1, <2>4 DEF ClaimFails, Resume, GcOpen, GcCheck, fileVars
  <2>5. ASSUME NEW p \in Procs, NEW record \in Records,
               Write(p, record) \/ WriteFails(p, record)
        PROVE  FALSE
    BY <2>1, <2>5 DEF Write, WriteFails
  <2>6. ASSUME NEW p \in Procs,
               \/ LockGranted(p) \/ LockBusy(p) \/ LockUnsupported(p)
               \/ VerifyInode(p) \/ VerifyFails(p)
               \/ ResumeOpen(p) \/ ResumeRead(p) \/ ResumeCorrupt(p)
        PROVE  FALSE
    BY <2>1, <2>6
       DEF LockGranted, LockBusy, LockUnsupported, VerifyInode, VerifyFails,
           ResumeOpen, ResumeRead, ResumeCorrupt, Refuse, fileVars
  <2>7. ASSUME NEW p \in Procs,
               \/ UnrecordedCall(p) \/ Close(p) \/ CloseMute(p) \/ CloseDeaf(p)
               \/ GcRetain(p) \/ GcPass(p) \/ GcCorrupt(p) \/ GcError(p)
               \/ GcScanned(p) \/ GcChecked(p) \/ GcUnlinked(p) \/ GcRelease(p)
        PROVE  FALSE
    BY <2>1, <2>7
       DEF UnrecordedCall, Close, CloseMute, CloseDeaf, GcRetain, GcPass, GcCorrupt, GcError,
           GcScanned, GcChecked, GcUnlinked, GcRelease, fileVars
  <2>8. /\ ~(UNCHANGED vars) /\ \A i \in Inodes : ~Age(i)
        /\ \A p \in Procs : ~Crash(p) /\ ~GcStart(p)
    BY <2>1 DEF vars, fileVars, Age, Crash, GcStart
  <2>9. PICK p \in Procs : Begin(p) \/ Step(p)
    BY <2>8 DEF Next, Finished
  <2>10. CASE Begin(p)
    BY <2>2, <2>4, <2>8, <2>10 DEF Begin
  <2>11. CASE Step(p)
    BY <2>3, <2>4, <2>5, <2>6, <2>7, <2>11 DEF Step
  <2> QED
    BY <2>9, <2>10, <2>11
<1>2. PICK item \in kept[p] : item[1] = r /\ dir[r] = item[2]
  <2>1. pc[p] = "unlink" /\ \E item \in verified[p] : item[1] = r
    BY <1>1 DEF GcUnlink, First
  <2> QED
    BY <2>1 DEF Ownership, VerifiedIsKept
<1> QED
  BY <1>1, <1>2

LEMMA UnlinkIsLocked == TypeOK /\ Ownership /\ [Next]_vars =>
  \A r \in Runs : dir[r] # None /\ dir'[r] # dir[r] =>
       /\ dir'[r] = None
       /\ old[dir[r]]
       /\ holder[dir[r]] \in Collectors
       /\ \A p \in Procs : Owns(p) => fd[p] # dir[r]
<1> SUFFICES ASSUME TypeOK, Ownership, [Next]_vars, NEW r \in Runs,
                    dir[r] # None, dir'[r] # dir[r]
             PROVE  /\ dir'[r] = None
                    /\ old[dir[r]]
                    /\ holder[dir[r]] \in Collectors
                    /\ \A p \in Procs : Owns(p) => fd[p] # dir[r]
  OBVIOUS
<1>1. PICK p \in Procs : GcUnlink(p, r) /\ \E item \in kept[p] : item[1] = r /\ dir[r] = item[2]
  BY UnlinkIsOfKept
<1>2. PICK item \in kept[p] : item[1] = r /\ dir[r] = item[2]
  BY <1>1
<1>3. p \in Collectors /\ LocksSupported /\ holder[dir[r]] = p /\ old[dir[r]]
  BY <1>2 DEF Ownership, KeptIsLocked, KeptIsOld
<1>4. dir'[r] = None
  BY <1>1 DEF GcUnlink, TypeOK
<1>5. ASSUME NEW q \in Procs, Owns(q), fd[q] = dir[r] PROVE FALSE
  <2>1. holder[fd[q]] = q
    BY <1>3, <1>5, AppenderIsOwner DEF OwnerIsLinked
  <2>2. q = p /\ q \in Gcs
    BY <1>3, <1>5, <2>1 DEF Gcs
  <2> QED
    BY <1>5, <2>2 DEF Ownership, Roles, Owns
<1> QED
  BY <1>3, <1>4, <1>5

\* gc unlinks by path, after it checked the path: nevertheless the file it removes
\* is one past the cutoff whose lock it holds and to which nobody appends.
THEOREM OnlyStaleFilesGo == Spec => OnlyStaleUnlinked
<1>1. TypeOK /\ Ownership /\ [Next]_vars =>
        [\A r \in Runs : dir[r] # None /\ dir'[r] # dir[r] =>
           /\ dir'[r] = None
           /\ old[dir[r]]
           /\ holder[dir[r]] \in Collectors
           /\ \A p \in Procs : Owns(p) => fd[p] # dir[r]]_vars
  BY UnlinkIsLocked
<1> QED
  BY <1>1, TypeCorrect, OwnershipHolds, PTL DEF Spec, OnlyStaleUnlinked

-----------------------------------------------------------------------------
(* Locks are held through descriptors that are open.                       *)

\* Positions at which a process has no file open, retained ones aside.
Closed == {"idle", "open", "scan", "check", "unlink", "release", "abort", "deaf", "done"}

HeldOpen(p) ==
  /\ pc[p] \in Closed => fd[p] = None
  /\ \A i \in Inodes : holder[i] = p => fd[p] = i \/ i \in KeptInodes(p)
  /\ pc[p] = "done" => kept[p] = {}

\* A step of p neither moves another process nor locks a file for it.
Apart(p) ==
  /\ \A q \in Procs \ {p} : pc'[q] = pc[q] /\ fd'[q] = fd[q] /\ kept'[q] = kept[q]
  /\ \A i \in Inodes : holder'[i] \in {holder[i], None, p}

LEMMA ApartIsEnough ==
  ASSUME \A q \in Procs : HeldOpen(q), NEW p \in Procs, Apart(p), HeldOpen(p)'
  PROVE  \A q \in Procs : HeldOpen(q)'
<1>1. ASSUME NEW q \in Procs, q # p PROVE HeldOpen(q)'
  BY <1>1, ConstantsOK DEF HeldOpen, Apart, KeptInodes
<1> QED
  BY <1>1

\* Closing what was opened last releases its lock.
LEMMA ClosingHeldOpen ==
  ASSUME TypeOK, NEW p \in Procs, HeldOpen(p), CloseFd(p), NEW label, Goto(p, label),
         kept' = kept, label = "done" => kept[p] = {}
  PROVE  Apart(p) /\ HeldOpen(p)'
<1>1. /\ pc' = [pc EXCEPT ![p] = label] /\ fd' = [fd EXCEPT ![p] = None]
      /\ holder' = [i \in Inodes |-> IF i = fd[p] /\ holder[i] = p THEN None ELSE holder[i]]
  BY DEF CloseFd, Release, Goto
<1>2. Apart(p)
  BY <1>1 DEF Apart, TypeOK
<1>3. HeldOpen(p)'
  <2>1. pc'[p] = label /\ fd'[p] = None /\ KeptInodes(p)' = KeptInodes(p)
    BY <1>1 DEF TypeOK, KeptInodes
  <2>2. ASSUME NEW i \in Inodes, holder'[i] = p PROVE i \in KeptInodes(p)
    BY <1>1, <2>2, ConstantsOK DEF HeldOpen
  <2> QED
    BY <2>1, <2>2 DEF HeldOpen
<1> QED
  BY <1>2, <1>3

\* Going on without closing, releasing or retaining: to a position without a file
\* from another such, or to one with a file.
LEMMA MovingHeldOpen ==
  ASSUME TypeOK, NEW p \in Procs, HeldOpen(p), NEW label, Goto(p, label), kept' = kept,
         holder' = holder \/ holder' = [holder EXCEPT ![fd[p]] = p],
         \/ fd' = fd /\ (label \in Closed => pc[p] \in Closed)
         \/ /\ pc[p] \in Closed /\ holder' = holder
            /\ \E i : fd' = [fd EXCEPT ![p] = i] /\ (label \in Closed => i = None),
         label = "done" => kept[p] = {}
  PROVE  Apart(p) /\ HeldOpen(p)'
<1>1. pc' = [pc EXCEPT ![p] = label] /\ pc'[p] = label /\ KeptInodes(p)' = KeptInodes(p)
  BY DEF Goto, TypeOK, KeptInodes
<1>2. Apart(p)
  BY <1>1 DEF Apart, TypeOK
<1>3. CASE fd' = fd /\ (label \in Closed => pc[p] \in Closed)
  <2>1. \A i \in Inodes : holder'[i] = p => holder[i] = p \/ fd[p] = i
    BY DEF TypeOK
  <2>2. label \in Closed => fd[p] = None
    BY <1>3 DEF HeldOpen
  <2> QED
    BY <1>1, <1>2, <1>3, <2>1, <2>2 DEF HeldOpen
<1>4. CASE /\ pc[p] \in Closed /\ holder' = holder
           /\ \E i : fd' = [fd EXCEPT ![p] = i] /\ (label \in Closed => i = None)
  <2>1. fd[p] = None
    BY <1>4 DEF HeldOpen
  <2>2. label \in Closed => fd'[p] = None
    <3>1. PICK i : fd' = [fd EXCEPT ![p] = i] /\ (label \in Closed => i = None)
      BY <1>4
    <3>2. fd'[p] = i
      BY <3>1 DEF TypeOK
    <3> QED
      BY <3>1, <3>2
  <2>3. \A i \in Inodes : holder[i] = p => i \in KeptInodes(p)
    BY <2>1, ConstantsOK DEF HeldOpen
  <2> QED
    BY <1>1, <1>2, <1>4, <2>2, <2>3 DEF HeldOpen
<1> QED
  BY <1>2, <1>3, <1>4

\* Closing everything.
LEMMA EndingHeldOpen ==
  ASSUME TypeOK, NEW p \in Procs, HeldOpen(p), GcRelease(p) \/ Crash(p)
  PROVE  Apart(p) /\ HeldOpen(p)'
<1>1. /\ pc' = [pc EXCEPT ![p] = "done"] /\ kept' = [kept EXCEPT ![p] = {}]
      /\ \A q \in Procs \ {p} : fd'[q] = fd[q]
      /\ fd'[p] = None
      /\ holder' = [i \in Inodes |->
                      IF i \in {fd[p]} \cup KeptInodes(p) /\ holder[i] = p THEN None ELSE holder[i]]
  <2>1. CASE GcRelease(p)
    <3>1. fd[p] = None
      BY <2>1 DEF GcRelease, HeldOpen, Closed
    <3> QED
      BY <2>1, <3>1, ConstantsOK DEF GcRelease, Release, Goto
  <2>2. CASE Crash(p)
    BY <2>2 DEF Crash, Release, Goto, TypeOK
  <2> QED
    BY <2>1, <2>2
<1>2. Apart(p)
  BY <1>1 DEF Apart, TypeOK
<1>3. ASSUME NEW i \in Inodes PROVE holder'[i] # p
  BY <1>1, <1>3, ConstantsOK DEF HeldOpen
<1> QED
  BY <1>1, <1>2, <1>3 DEF HeldOpen, TypeOK

LEMMA RunStepHeldOpen ==
  ASSUME TypeOK, Ownership, NEW p \in Procs, HeldOpen(p),
         \/ \E r \in Runs, i \in Inodes : Claim(p, r, i)
         \/ \E r \in Runs : ClaimFails(p, r) \/ Resume(p, r)
         \/ LockGranted(p) \/ LockBusy(p) \/ LockUnsupported(p)
         \/ VerifyInode(p) \/ VerifyFails(p)
         \/ ResumeOpen(p) \/ ResumeRead(p) \/ ResumeCorrupt(p)
         \/ \E record \in Records : Write(p, record) \/ WriteFails(p, record)
         \/ UnrecordedCall(p) \/ Close(p) \/ CloseMute(p) \/ CloseDeaf(p)
  PROVE  Apart(p) /\ HeldOpen(p)'
<1> USE DEF Closed
<1>1. p \notin Collectors => kept[p] = {}
  BY DEF Ownership, KeptIsLocked
<1>2. /\ p \in Collectors => p \in Gcs /\ p \notin Writers /\ p \notin Resumers
      /\ p \in Gcs => pc[p] \notin Owning \cup {"repair", "open", "deaf"}
  BY ConstantsOK DEF Ownership, Roles, Gcs
<1>3. ASSUME Refuse(p) PROVE Apart(p) /\ HeldOpen(p)'
  <2>1. PICK label \in {"deaf", "done", "scan"} : Goto(p, label) /\ (label = "done" => p \in Resumers)
    BY <1>3 DEF Refuse, Refused
  <2> QED
    BY <1>1, <1>2, <1>3, <2>1, ClosingHeldOpen DEF Refuse, gcVars
<1>4. ASSUME NEW r \in Runs, NEW i \in Inodes, Claim(p, r, i) PROVE Apart(p) /\ HeldOpen(p)'
  <2>1. PICK label \in {"lock", "header"} : Goto(p, label)
    BY <1>4 DEF Claim
  <2> QED
    BY <1>4, <2>1, MovingHeldOpen DEF Claim, gcVars
<1>5. ASSUME NEW r \in Runs, ClaimFails(p, r) \/ Resume(p, r) PROVE Apart(p) /\ HeldOpen(p)'
  <2>1. PICK label \in {"deaf", "done", "open"} : Goto(p, label) /\ p \notin Collectors
    BY <1>2, <1>5 DEF ClaimFails, Resume
  <2>2. pc[p] \in Closed /\ fd' = fd /\ holder' = holder /\ kept' = kept
    BY <1>5 DEF ClaimFails, Resume, fileVars, gcVars
  <2> QED
    BY <1>1, <2>1, <2>2, MovingHeldOpen
<1>6. CASE LockGranted(p)
  BY <1>6, MovingHeldOpen DEF LockGranted, gcVars
<1>7. CASE LockBusy(p) \/ VerifyFails(p)
  BY <1>3, <1>7 DEF LockBusy, VerifyFails
<1>8. CASE LockUnsupported(p)
  <2>1. CASE Goto(p, "verify") /\ UNCHANGED <<fileVars, run, fd, runVars, gcVars>>
    BY <2>1, MovingHeldOpen DEF fileVars, gcVars
  <2>2. CASE CloseFd(p) /\ Goto(p, "abort") /\ UNCHANGED <<dir, text, old, run, runVars, gcVars>>
    BY <2>2, ClosingHeldOpen DEF gcVars
  <2> QED
    BY <1>3, <1>8, <2>1, <2>2 DEF LockUnsupported
<1>9. CASE VerifyInode(p)
  <2>1. PICK label \in {"header", "repair", "inspect"} : Goto(p, label)
    BY <1>9 DEF VerifyInode
  <2> QED
    BY <1>9, <2>1, MovingHeldOpen DEF VerifyInode, fileVars, gcVars
<1>10. CASE ResumeOpen(p)
  <2>1. PICK label \in {"done", "lock"} :
          Goto(p, label) /\ (label = "done" => dir[run[p]] = None)
    BY <1>10 DEF ResumeOpen
  <2>2. p \notin Collectors /\ pc[p] \in Closed /\ holder' = holder /\ kept' = kept
    BY <1>2, <1>10 DEF ResumeOpen, fileVars, gcVars
  <2>3. fd' = [fd EXCEPT ![p] = dir[run[p]]] /\ (label \in Closed => dir[run[p]] = None)
    BY <1>10, <2>1 DEF ResumeOpen
  <2> QED
    BY <1>1, <2>1, <2>2, <2>3, MovingHeldOpen
<1>11. CASE ResumeRead(p)
  <2>1. p \notin Collectors /\ pc[p] \notin Closed /\ kept' = kept
    BY <1>2, <1>11 DEF ResumeRead, gcVars
  <2>2. CASE Goto(p, "calls") /\ UNCHANGED <<holder, fd>>
    BY <2>1, <2>2, MovingHeldOpen
  <2>3. CASE CloseFd(p) /\ Goto(p, "done")
    BY <1>1, <2>1, <2>3, ClosingHeldOpen
  <2> QED
    BY <1>11, <2>2, <2>3 DEF ResumeRead
<1>12. CASE ResumeCorrupt(p) \/ Close(p) \/ CloseMute(p)
  <2>1. p \notin Collectors /\ kept' = kept /\ CloseFd(p) /\ Goto(p, "done")
    BY <1>2, <1>12 DEF ResumeCorrupt, Close, CloseMute, gcVars, Owning
  <2> QED
    BY <1>1, <2>1, ClosingHeldOpen
<1>13. ASSUME NEW record \in Records, Write(p, record) \/ WriteFails(p, record)
       PROVE  Apart(p) /\ HeldOpen(p)'
  <2>1. PICK label \in {"sealed", "calls", "mute"} : Goto(p, label)
    BY <1>13 DEF Write, WriteFails
  <2> QED
    BY <1>13, <2>1, MovingHeldOpen DEF Write, WriteFails, gcVars
<1>14. CASE UnrecordedCall(p)
  BY <1>14 DEF UnrecordedCall, fileVars, gcVars, Apart, HeldOpen, KeptInodes
<1>15. CASE CloseDeaf(p)
  <2>1. p \notin Collectors
    BY <1>2, <1>15 DEF CloseDeaf
  <2> QED
    BY <1>1, <1>15, <2>1, MovingHeldOpen DEF CloseDeaf, fileVars, gcVars
<1> QED
  BY <1>4, <1>5, <1>6, <1>7, <1>8, <1>9, <1>10, <1>11, <1>12, <1>13, <1>14, <1>15

LEMMA GcStepHeldOpen ==
  ASSUME TypeOK, Ownership, NEW p \in Procs, HeldOpen(p),
         \/ GcStart(p)
         \/ \E r \in Runs : GcOpen(p, r) \/ GcCheck(p, r) \/ GcUnlink(p, r)
         \/ GcRetain(p) \/ GcPass(p) \/ GcCorrupt(p) \/ GcError(p)
         \/ GcScanned(p) \/ GcChecked(p) \/ GcUnlinked(p)
  PROVE  Apart(p) /\ HeldOpen(p)'
<1> USE DEF Closed
<1>1. CASE GcStart(p) \/ GcScanned(p) \/ GcChecked(p) \/ GcUnlinked(p)
  <2>1. PICK label \in {"abort", "scan", "check", "unlink", "release"} : Goto(p, label)
    BY <1>1 DEF GcStart, GcScanned, GcChecked, GcUnlinked
  <2>2. pc[p] \in Closed /\ fd' = fd /\ holder' = holder /\ kept' = kept
    BY <1>1 DEF GcStart, GcScanned, GcChecked, GcUnlinked, fileVars, gcVars
  <2> QED
    BY <2>1, <2>2, MovingHeldOpen
<1>2. ASSUME NEW r \in Runs, GcOpen(p, r) PROVE Apart(p) /\ HeldOpen(p)'
  <2>1. PICK label \in {"scan", "lock", "inspect"} :
          Goto(p, label) /\ (label = "scan" => dir[r] = None)
    BY <1>2 DEF GcOpen
  <2>2. /\ pc[p] \in Closed /\ holder' = holder /\ kept' = kept
        /\ fd' = [fd EXCEPT ![p] = dir[r]] /\ (label \in Closed => dir[r] = None)
    BY <1>2, <2>1 DEF GcOpen, fileVars
  <2> QED
    BY <2>1, <2>2, MovingHeldOpen
<1>3. ASSUME NEW r \in Runs, GcCheck(p, r) \/ GcUnlink(p, r) PROVE Apart(p) /\ HeldOpen(p)'
  BY <1>3 DEF GcCheck, GcUnlink, fileVars, Apart, HeldOpen, KeptInodes
<1>4. CASE GcRetain(p)
  <2>1. /\ pc' = [pc EXCEPT ![p] = "scan"] /\ fd' = [fd EXCEPT ![p] = None] /\ holder' = holder
        /\ kept' = [kept EXCEPT ![p] = @ \cup {<<run[p], fd[p]>>}]
    BY <1>4 DEF GcRetain, Goto, fileVars
  <2>2. Apart(p)
    BY <2>1 DEF Apart, TypeOK
  <2>3. \A i \in Inodes : fd[p] = i \/ i \in KeptInodes(p) => i \in KeptInodes(p)'
    <3>1. <<run[p], fd[p]>> \in kept'[p] /\ kept[p] \subseteq kept'[p]
      BY <2>1 DEF TypeOK
    <3>2. <<run[p], fd[p]>>[2] = fd[p]
      OBVIOUS
    <3>3. fd[p] \in KeptInodes(p)'
      BY <3>1, <3>2 DEF KeptInodes
    <3> QED
      BY <3>1, <3>3 DEF KeptInodes
  <2> QED
    BY <2>1, <2>2, <2>3 DEF HeldOpen, TypeOK
<1>5. CASE GcPass(p) \/ GcCorrupt(p) \/ GcError(p)
  <2>1. PICK label \in {"scan", "abort", "release"} : Goto(p, label)
    BY <1>5 DEF GcPass, GcCorrupt, GcError
  <2> QED
    BY <1>5, <2>1, ClosingHeldOpen DEF GcPass, GcCorrupt, GcError, gcVars
<1> QED
  BY <1>1, <1>2, <1>3, <1>4, <1>5

AllHeldOpen == \A p \in Procs : HeldOpen(p)

LEMMA NextHeldOpen == TypeOK /\ Ownership /\ AllHeldOpen /\ [Next]_vars => AllHeldOpen'
<1> SUFFICES ASSUME TypeOK, Ownership, \A p \in Procs : HeldOpen(p), [Next]_vars
             PROVE  \A p \in Procs : HeldOpen(p)'
  BY DEF AllHeldOpen
<1>1. ASSUME NEW p \in Procs, Begin(p) PROVE Apart(p) /\ HeldOpen(p)'
  BY <1>1, RunStepHeldOpen, GcStepHeldOpen DEF Begin
<1>2. ASSUME NEW p \in Procs, Step(p) PROVE Apart(p) /\ HeldOpen(p)'
  <2>1. ASSUME \/ LockGranted(p) \/ LockBusy(p) \/ LockUnsupported(p)
               \/ VerifyInode(p) \/ VerifyFails(p)
               \/ ResumeOpen(p) \/ ResumeRead(p) \/ ResumeCorrupt(p)
        PROVE  Apart(p) /\ HeldOpen(p)'
    BY <2>1, RunStepHeldOpen
  <2>2. ASSUME \/ \E record \in Records : Write(p, record) \/ WriteFails(p, record)
               \/ UnrecordedCall(p) \/ Close(p) \/ CloseMute(p) \/ CloseDeaf(p)
        PROVE  Apart(p) /\ HeldOpen(p)'
    BY <2>2, RunStepHeldOpen
  <2>3. ASSUME \/ \E r \in Runs : GcOpen(p, r) \/ GcCheck(p, r) \/ GcUnlink(p, r)
               \/ GcRetain(p) \/ GcPass(p) \/ GcCorrupt(p) \/ GcError(p)
               \/ GcScanned(p) \/ GcChecked(p) \/ GcUnlinked(p)
        PROVE  Apart(p) /\ HeldOpen(p)'
    BY <2>3, GcStepHeldOpen
  <2> QED
    BY <1>2, <2>1, <2>2, <2>3, EndingHeldOpen DEF Step
<1>3. ASSUME NEW p \in Procs, Crash(p) PROVE Apart(p) /\ HeldOpen(p)'
  BY <1>3, EndingHeldOpen
<1>4. ASSUME (\E i \in Inodes : Age(i)) \/ UNCHANGED vars PROVE \A p \in Procs : HeldOpen(p)'
  BY <1>4 DEF Age, vars, fileVars, gcVars, HeldOpen, KeptInodes
<1> QED
  BY <1>1, <1>2, <1>3, <1>4, ApartIsEnough DEF Next, Finished

\* Whatever path a process takes out of _open_append, resume or gc_journals, errors and
\* crashes included, it leaves no lock behind.
THEOREM NoLockIsLeftBehind == Spec => []LocksAreHeldOpen
<1>1. Init => AllHeldOpen
  BY ConstantsOK DEF Init, AllHeldOpen, HeldOpen
<1>2. AllHeldOpen => LocksAreHeldOpen
  BY DEF AllHeldOpen, HeldOpen, LocksAreHeldOpen, Closed
<1> QED
  BY <1>1, <1>2, NextHeldOpen, TypeCorrect, OwnershipHolds, PTL DEF Spec

-----------------------------------------------------------------------------
(* A failed preflight.                                                     *)

Preflight == Scanning \cup {"idle", "check", "abort"}

KeepsAll == \A p \in Collectors : pc[p] \in Preflight => removed[p] = {}

\* Only the unlinking at the end leaves the preflight, and nothing comes back to it.
LEMMA PreflightSteps ==
  ASSUME TypeOK, Ownership, [Next]_vars, NEW p \in Collectors
  PROVE  /\ pc'[p] \in Preflight => pc[p] \in Preflight
         /\ pc'[p] \in Preflight => removed'[p] = removed[p]
<1> USE DEF Preflight, Scanning
<1>1. p \in Procs /\ p \in Gcs /\ p \notin Writers /\ p \notin Resumers /\ p \notin Inspectors
  BY ConstantsOK DEF Procs, Gcs
<1>2. pc[p] \in Labels \ (Owning \cup {"repair", "open", "deaf"})
  BY <1>1 DEF TypeOK, Ownership, Roles
<1>3. ASSUME NEW q \in Procs, NEW label, Goto(q, label), q # p \/ pc[p] \in Preflight \/ label \notin Preflight,
             removed' = removed
      PROVE  (pc'[p] \in Preflight => pc[p] \in Preflight) /\ removed'[p] = removed[p]
  BY <1>1, <1>3 DEF Goto, TypeOK
<1>4. ASSUME NEW q \in Procs, Begin(q)
      PROVE  (pc'[p] \in Preflight => pc[p] \in Preflight) /\ removed'[p] = removed[p]
  <2>1. pc[q] = "idle" /\ removed' = removed /\ \E label : Goto(q, label)
    BY <1>4 DEF Begin, Claim, ClaimFails, Resume, GcStart, gcVars
  <2> QED
    BY <1>3, <2>1
<1>5. ASSUME NEW q \in Procs, pc[q] \in Preflight, removed' = removed, \E label : Goto(q, label)
      PROVE  (pc'[p] \in Preflight => pc[p] \in Preflight) /\ removed'[p] = removed[p]
  BY <1>3, <1>5
<1>6. ASSUME NEW q \in Procs,
             \/ LockGranted(q) \/ LockBusy(q) \/ LockUnsupported(q)
             \/ VerifyInode(q) \/ VerifyFails(q)
             \/ \E r \in Runs : GcOpen(q, r)
             \/ GcRetain(q) \/ GcPass(q) \/ GcCorrupt(q) \/ GcScanned(q) \/ GcChecked(q)
      PROVE  (pc'[p] \in Preflight => pc[p] \in Preflight) /\ removed'[p] = removed[p]
  <2>1. removed' = removed /\ pc[q] \in Preflight /\ \E label : Goto(q, label)
    BY <1>6
       DEF LockGranted, LockBusy, LockUnsupported, VerifyInode, VerifyFails, GcOpen, Refuse,
           GcRetain, GcPass, GcCorrupt, GcScanned, GcChecked, gcVars
  <2> QED
    BY <1>5, <2>1
<1>7. ASSUME NEW q \in Procs,
             \/ ResumeOpen(q) \/ ResumeRead(q) \/ ResumeCorrupt(q)
             \/ \E record \in Records : Write(q, record) \/ WriteFails(q, record)
             \/ Close(q) \/ CloseMute(q) \/ CloseDeaf(q)
      PROVE  (pc'[p] \in Preflight => pc[p] \in Preflight) /\ removed'[p] = removed[p]
  <2>1. removed' = removed /\ q # p /\ \E label : Goto(q, label)
    BY <1>2, <1>7
       DEF ResumeOpen, ResumeRead, ResumeCorrupt, Write, WriteFails, Close, CloseMute, CloseDeaf,
           gcVars, Owning
  <2> QED
    BY <1>3, <2>1
<1>8. ASSUME NEW q \in Procs, GcError(q) \/ GcUnlinked(q) \/ GcRelease(q) \/ Crash(q)
      PROVE  (pc'[p] \in Preflight => pc[p] \in Preflight) /\ removed'[p] = removed[p]
  <2>1. removed' = removed /\ \E label : Goto(q, label) /\ (pc[q] \in Preflight \/ label \notin Preflight)
    BY <1>8 DEF GcError, GcUnlinked, GcRelease, Crash, gcVars
  <2> QED
    BY <1>3, <2>1
<1>9. ASSUME NEW q \in Procs, UnrecordedCall(q) \/ \E r \in Runs : GcCheck(q, r)
      PROVE  (pc'[p] \in Preflight => pc[p] \in Preflight) /\ removed'[p] = removed[p]
  BY <1>9 DEF UnrecordedCall, GcCheck, gcVars
<1>10. ASSUME NEW q \in Procs, NEW r \in Runs, GcUnlink(q, r)
       PROVE  /\ pc'[p] \in Preflight => pc[p] \in Preflight
              /\ pc'[p] \in Preflight => removed'[p] = removed[p]
  BY <1>1, <1>10 DEF GcUnlink, TypeOK
<1>11. ASSUME (\E i \in Inodes : Age(i)) \/ UNCHANGED vars
       PROVE  (pc'[p] \in Preflight => pc[p] \in Preflight) /\ removed'[p] = removed[p]
  BY <1>11 DEF Age, vars, gcVars
<1>12. ASSUME NEW q \in Procs, Step(q)
       PROVE  /\ pc'[p] \in Preflight => pc[p] \in Preflight
              /\ pc'[p] \in Preflight => removed'[p] = removed[p]
  BY <1>6, <1>7, <1>8, <1>9, <1>10, <1>12 DEF Step
<1> QED
  BY <1>4, <1>8, <1>11, <1>12 DEF Next, Finished

\* gc --apply that gives up in its preflight has deleted nothing.
THEOREM FailedPreflightIsHarmless == Spec => []FailedPreflightKeepsAll
<1>1. Init => KeepsAll
  BY DEF Init, KeepsAll, Procs, Gcs
<1>2. TypeOK /\ Ownership /\ KeepsAll /\ [Next]_vars => KeepsAll'
  BY PreflightSteps DEF KeepsAll
<1>3. KeepsAll => FailedPreflightKeepsAll
  BY DEF KeepsAll, FailedPreflightKeepsAll, Preflight
<1> QED
  BY <1>1, <1>2, <1>3, TypeCorrect, OwnershipHolds, PTL DEF Spec

-----------------------------------------------------------------------------
(***************************************************************************)
(* What the journals contain.  There are two levels: what holds whatever a *)
(* journal held before (no record is lost, corrupt content is left alone), *)
(* and what holds when earlier runs left sound journals (every journal     *)
(* stays well formed).                                                     *)
(***************************************************************************)

Bodies == Records \cup {Torn, Scalar, Blank}

LEMMA LinesHoldBodies ==
  /\ Lines = LinesOver(Bodies) /\ Torn \in Bodies
  /\ \A record \in Records : record \in Bodies /\ IsRecord(record)
  /\ \A body \in Bodies : IsRecord(body) \/ body \in {Torn, Scalar, Blank}
BY DEF Lines, LinesOver, Bodies, Records, IsRecord, RecordTypes, Header, Call, Result

LEMMA RecordsToWrite ==
  ASSUME TypeOK, NEW p \in Procs, NEW record \in NextRecords(p)
  PROVE  record \in Records
<1>1. CASE record \in {Header, Result}
  BY <1>1 DEF Records
<1>2. CASE record \notin {Header, Result}
  <2>1. record = Call(seq[p]) /\ seq[p] \in 0..MaxCalls
    BY <1>2 DEF NextRecords, TypeOK
  <2> QED
    BY <2>1 DEF Records
<1> QED
  BY <1>1, <1>2

-----------------------------------------------------------------------------
(* What every step does to the files, and what it leaves alone.            *)

\* A fresh run that has claimed its file and has not written its header.
Fresh(p) == p \in Writers /\ pc[p] \in {"lock", "verify", "header"}

\* A run that has made no call yet.
Early(p) ==
  \/ p \in Writers /\ pc[p] \in {"idle", "lock", "verify", "header"}
  \/ p \in Resumers /\ pc[p] \in {"idle", "open", "lock", "verify", "repair"}

\* A run stays where it is, perhaps after a call it does not record.
Stays(p) ==
  /\ pc'[p] = pc[p] /\ fd'[p] = fd[p] /\ due'[p] = due[p]
  /\ \/ seq'[p] = seq[p]
     \/ pc[p] \in {"mute", "deaf"}
     \/ pc[p] = "calls" /\ seq[p] < Recorded(p) /\ seq'[p] = seq[p] + 1

\* Nothing p does is about the content of a file.
Quiet(p) ==
  /\ kept'[p] \subseteq kept[p]
  /\ p \in Writers => fd'[p] \in {fd[p], None}
  /\ \/ Stays(p)
     \/ Fresh(p) /\ Fresh(p)' /\ fd'[p] = fd[p] /\ seq'[p] = seq[p]
     \/ ~Fresh(p)' /\ pc'[p] \notin Owning /\ (Early(p)' => Early(p) /\ seq'[p] = seq[p])

Still == text' = text /\ \A p \in Procs : Quiet(p)

\* The same for everybody but p.
Alone(p) ==
  \A q \in Procs \ {p} :
    pc'[q] = pc[q] /\ fd'[q] = fd[q] /\ due'[q] = due[q] /\ seq'[q] = seq[q] /\ kept'[q] = kept[q]

\* The file p has open gets the content u.
Rewrites(p, u) ==
  /\ text' = [text EXCEPT ![fd[p]] = u]
  /\ Alone(p) /\ dir' = dir
  /\ kept'[p] \subseteq kept[p] /\ fd'[p] \in {fd[p], None}

\* Only p moves, and not to where it would own a file.
LEMMA AloneIsStill ==
  ASSUME TypeOK, NEW p \in Procs, text' = text, Alone(p), Quiet(p)
  PROVE  Still
<1>1. ASSUME NEW q \in Procs, q # p PROVE Quiet(q)
  BY <1>1 DEF Alone, Quiet, Stays
<1> QED
  BY <1>1 DEF Still

LEMMA ClosingIsStill ==
  ASSUME TypeOK, NEW p \in Procs, NEW label \in {"done", "deaf", "scan", "abort", "release"},
         Goto(p, label), CloseFd(p), UNCHANGED <<text, seq, kept>>,
         \A q \in Procs \ {p} : due'[q] = due[q]
  PROVE  Still
<1>1. /\ pc' = [pc EXCEPT ![p] = label] /\ fd' = [fd EXCEPT ![p] = None]
      /\ text' = text /\ seq' = seq /\ kept' = kept
  BY DEF Goto, CloseFd
<1>2. Alone(p)
  BY <1>1 DEF Alone, TypeOK
<1>3. Quiet(p)
  BY <1>1 DEF Quiet, Fresh, Early, Owning, TypeOK
<1> QED
  BY <1>1, <1>2, <1>3, AloneIsStill

\* A step of p alone with an own position, descriptor and due record.
LEMMA MovingIsStill ==
  ASSUME TypeOK, NEW p \in Procs, NEW label, Goto(p, label), UNCHANGED <<text, seq, due>>,
         \A q \in Procs \ {p} : fd'[q] = fd[q], kept' = kept,
         p \in Writers => fd'[p] = fd[p],
         \/ Fresh(p) /\ fd'[p] = fd[p] /\ label \in {"lock", "verify", "header"}
         \/ p \notin Writers /\ label = "repair" /\ Early(p)
         \/ p \notin Writers /\ label \in {"lock", "verify", "open"} /\ (p \in Resumers => Early(p))
         \/ label \in {"done", "deaf", "scan", "inspect", "check", "unlink", "abort", "release"}
  PROVE  Still
<1>1. pc' = [pc EXCEPT ![p] = label] /\ text' = text /\ seq' = seq /\ due' = due
  BY DEF Goto
<1>2. Alone(p)
  BY <1>1 DEF Alone, TypeOK
<1>3. pc'[p] = label
  BY <1>1 DEF TypeOK
<1>4. Quiet(p)
  BY <1>1, <1>3, ConstantsOK DEF Quiet, Fresh, Early, Owning
<1> QED
  BY <1>1, <1>2, <1>4, AloneIsStill

\* Steps that leave every position, descriptor and count alone.
LEMMA StayingIsStill ==
  ASSUME UNCHANGED <<text, pc, fd, seq, due>>, \A q \in Procs : kept'[q] \subseteq kept[q]
  PROVE  Still
BY DEF Still, Quiet, Stays

-----------------------------------------------------------------------------
(* Most steps are still.                                                   *)

LEMMA BeginIsStill ==
  ASSUME TypeOK, HasFile, Roles, NEW p \in Procs, Begin(p)
  PROVE  Still \/ \E r \in Runs, i \in Inodes : Claim(p, r, i)
<1>1. ASSUME NEW r \in Runs, ClaimFails(p, r) PROVE Still
  BY <1>1, MovingIsStill DEF ClaimFails, fileVars, runVars, gcVars
<1>2. ASSUME NEW r \in Runs, Resume(p, r) PROVE Still
  <2>1. PICK label \in {"done", "open"} : Goto(p, label)
    BY <1>2 DEF Resume
  <2>2. Early(p) /\ p \notin Writers
    BY <1>2, ConstantsOK DEF Resume, Early
  <2> QED
    BY <1>2, <2>1, <2>2, MovingIsStill DEF Resume, fileVars, runVars, gcVars
<1>3. CASE GcStart(p)
  <2>1. PICK label \in {"abort", "scan"} : Goto(p, label)
    BY <1>3 DEF GcStart
  <2> QED
    BY <1>3, <2>1, MovingIsStill DEF GcStart, fileVars, runVars
<1> QED
  BY <1>1, <1>2, <1>3 DEF Begin

LEMMA RunStepIsStill ==
  ASSUME TypeOK, HasFile, Roles, NEW p \in Procs,
         \/ LockGranted(p) \/ LockBusy(p) \/ LockUnsupported(p)
         \/ VerifyInode(p) \/ VerifyFails(p)
         \/ ResumeOpen(p) \/ ResumeCorrupt(p)
         \/ UnrecordedCall(p) \/ Close(p) \/ CloseDeaf(p) \/ (CloseMute(p) /\ text' = text)
  PROVE  Still
<1>1. ASSUME Refuse(p) PROVE Still
  <2>1. Refused(p) \in {"deaf", "done", "scan"}
    BY DEF Refused
  <2> QED
    BY <1>1, <2>1, ClosingIsStill DEF Refuse, runVars, gcVars
<1>2. /\ Goto(p, "verify") => pc'[p] = "verify"
      /\ p \in Procs /\ (p \in Writers \/ p \in Resumers \/ p \in Gcs)
      /\ p \in Writers => p \notin Resumers /\ p \notin Gcs
  BY ConstantsOK DEF Procs, Goto, TypeOK
<1>3. ASSUME pc[p] = "lock", Goto(p, "verify"), UNCHANGED <<text, fd, runVars, gcVars>> PROVE Still
  <2>1. (p \in Writers => Fresh(p)) /\ (p \in Resumers => Early(p))
    BY <1>3 DEF Fresh, Early
  <2> QED
    BY <1>3, <2>1, MovingIsStill DEF runVars, gcVars
<1>4. CASE LockGranted(p)
  BY <1>3, <1>4 DEF LockGranted
<1>5. CASE LockBusy(p)
  BY <1>1, <1>5 DEF LockBusy
<1>6. CASE LockUnsupported(p)
  <2>1. CASE CloseFd(p) /\ Goto(p, "abort") /\ UNCHANGED <<dir, text, old, run, runVars, gcVars>>
    BY <2>1, ClosingIsStill DEF runVars, gcVars
  <2>2. CASE Goto(p, "verify") /\ UNCHANGED <<fileVars, run, fd, runVars, gcVars>>
    BY <1>3, <1>6, <2>2 DEF LockUnsupported, fileVars
  <2> QED
    BY <1>1, <1>6, <2>1, <2>2 DEF LockUnsupported
<1>7. CASE VerifyInode(p)
  <2>1. /\ pc[p] = "verify" /\ text' = text /\ fd' = fd /\ seq' = seq /\ due' = due /\ kept' = kept
    BY <1>7 DEF VerifyInode, fileVars, runVars, gcVars
  <2>2. CASE p \in Writers
    <3>1. Fresh(p) /\ Goto(p, "header")
      BY <1>2, <1>7, <2>2 DEF VerifyInode, Fresh
    <3> QED
      BY <2>1, <3>1, MovingIsStill
  <2>3. CASE p \in Resumers
    <3>1. Early(p) /\ Goto(p, "repair") /\ p \notin Writers
      BY <1>2, <1>7, <2>3 DEF VerifyInode, Early
    <3> QED
      BY <2>1, <3>1, MovingIsStill
  <2>4. CASE p \notin Writers /\ p \notin Resumers
    <3>1. Goto(p, "inspect")
      BY <1>7, <2>4 DEF VerifyInode
    <3> QED
      BY <2>1, <3>1, MovingIsStill
  <2> QED
    BY <2>2, <2>3, <2>4
<1>8. CASE VerifyFails(p)
  BY <1>1, <1>8 DEF VerifyFails
<1>9. CASE ResumeOpen(p)
  <2>1. PICK label \in {"done", "lock"} : Goto(p, label)
    BY <1>9 DEF ResumeOpen
  <2>2. Early(p) /\ p \notin Writers /\ \A q \in Procs \ {p} : fd'[q] = fd[q]
    BY <1>2, <1>9 DEF ResumeOpen, Early, TypeOK
  <2> QED
    BY <1>9, <2>1, <2>2, MovingIsStill DEF ResumeOpen, fileVars, runVars, gcVars
<1>10. CASE ResumeCorrupt(p) \/ Close(p)
  BY <1>10, ClosingIsStill DEF ResumeCorrupt, Close, runVars, gcVars
<1>11. CASE UnrecordedCall(p)
  <2>1. /\ text' = text /\ pc' = pc /\ fd' = fd /\ due' = due /\ kept' = kept
        /\ \A q \in Procs \ {p} : seq'[q] = seq[q]
        /\ seq'[p] = seq[p] + 1
        /\ pc[p] \in {"mute", "deaf"} \/ (pc[p] = "calls" /\ seq[p] < Recorded(p))
    BY <1>11 DEF UnrecordedCall, fileVars, gcVars, TypeOK
  <2>2. Alone(p) /\ Quiet(p)
    BY <2>1 DEF Alone, Quiet, Stays
  <2> QED
    BY <2>1, <2>2, AloneIsStill
<1>12. CASE CloseDeaf(p)
  BY <1>12, MovingIsStill DEF CloseDeaf, fileVars, runVars, gcVars
<1>13. CASE CloseMute(p) /\ text' = text
  <2>1. \A q \in Procs \ {p} : due'[q] = due[q]
    BY <1>13 DEF CloseMute, TypeOK
  <2> QED
    BY <1>13, <2>1, ClosingIsStill DEF CloseMute, gcVars
<1> QED
  BY <1>4, <1>5, <1>6, <1>7, <1>8, <1>9, <1>10, <1>11, <1>12, <1>13

LEMMA GcStepIsStill ==
  ASSUME TypeOK, HasFile, Roles, NEW p \in Procs,
         \/ \E r \in Runs : GcOpen(p, r) \/ GcCheck(p, r) \/ GcUnlink(p, r)
         \/ GcPass(p) \/ GcCorrupt(p) \/ GcError(p)
         \/ GcScanned(p) \/ GcChecked(p) \/ GcUnlinked(p) \/ GcRelease(p)
  PROVE  Still
<1>1. ASSUME NEW r \in Runs, GcOpen(p, r) PROVE Still
  <2>1. PICK label \in {"scan", "lock", "inspect"} : Goto(p, label)
    BY <1>1 DEF GcOpen
  <2>2. p \notin Writers /\ p \notin Resumers /\ \A q \in Procs \ {p} : fd'[q] = fd[q]
    BY <1>1, ConstantsOK DEF GcOpen, TypeOK
  <2> QED
    BY <1>1, <2>1, <2>2, MovingIsStill DEF GcOpen, fileVars, runVars
<1>2. ASSUME NEW r \in Runs, GcCheck(p, r) \/ GcUnlink(p, r) PROVE Still
  BY <1>2, StayingIsStill DEF GcCheck, GcUnlink, fileVars, runVars
<1>3. CASE GcPass(p) \/ GcCorrupt(p)
  BY <1>3, ClosingIsStill DEF GcPass, GcCorrupt, runVars, gcVars
<1>4. CASE GcError(p)
  <2>1. PICK label \in {"abort", "scan", "release"} : Goto(p, label)
    BY <1>4 DEF GcError
  <2> QED
    BY <1>4, <2>1, ClosingIsStill DEF GcError, runVars, gcVars
<1>5. CASE GcScanned(p) \/ GcChecked(p) \/ GcUnlinked(p)
  <2>1. PICK label \in {"check", "release", "unlink"} : Goto(p, label)
    BY <1>5 DEF GcScanned, GcChecked, GcUnlinked
  <2> QED
    BY <1>5, <2>1, MovingIsStill DEF GcScanned, GcChecked, GcUnlinked, fileVars, runVars, gcVars
<1>6. CASE GcRelease(p)
  <2>1. /\ text' = text /\ fd' = fd /\ seq' = seq /\ due' = due
        /\ pc' = [pc EXCEPT ![p] = "done"] /\ kept' = [kept EXCEPT ![p] = {}]
    BY <1>6 DEF GcRelease, Goto, runVars
  <2>2. Alone(p) /\ Quiet(p)
    BY <2>1 DEF Alone, Quiet, Fresh, Early, Owning, TypeOK
  <2> QED
    BY <2>1, <2>2, AloneIsStill
<1> QED
  BY <1>1, <1>2, <1>3, <1>4, <1>5, <1>6

-----------------------------------------------------------------------------
(* The steps that are not: a claim, a collector that retains a file, and   *)
(* a process that changes the content of the file it has open.             *)

RewritesTo(p, u) ==
  \/ ResumeRead(p) /\ u = Repair(text[fd[p]])
  \/ \E record \in NextRecords(p) : Write(p, record) /\ u = Put(text[fd[p]], Whole(record))
  \/ \E record \in NextRecords(p) :
       /\ pc[p] \in {"header", "calls"} /\ u \in Interrupted(text[fd[p]], record)
       /\ WriteFails(p, record) \/ Crash(p)
  \/ CloseMute(p) /\ u = Completed(text[fd[p]], due[p])

LEMMA CrashIsStill ==
  ASSUME TypeOK, HasFile, NEW p \in Procs, Crash(p)
  PROVE  Still \/ \E u : RewritesTo(p, u) /\ Rewrites(p, u)
<1>1. /\ fd' = [fd EXCEPT ![p] = None] /\ kept' = [kept EXCEPT ![p] = {}]
      /\ due' = [due EXCEPT ![p] = None] /\ pc' = [pc EXCEPT ![p] = "done"]
      /\ dir' = dir /\ seq' = seq
  BY DEF Crash, Goto
<1>2. Alone(p)
  BY <1>1 DEF Alone, TypeOK
<1>3. CASE text' = text
  <2>1. Quiet(p)
    BY <1>1 DEF Quiet, Fresh, Early, Owning, TypeOK
  <2> QED
    BY <1>2, <1>3, <2>1, AloneIsStill
<1>4. CASE text' # text
  <2>1. /\ pc[p] \in {"header", "calls"}
        /\ \E record \in NextRecords(p) :
             \E t \in Interrupted(text[fd[p]], record) : text' = [text EXCEPT ![fd[p]] = t]
    BY <1>4 DEF Crash
  <2>2. PICK record \in NextRecords(p) :
          \E t \in Interrupted(text[fd[p]], record) : text' = [text EXCEPT ![fd[p]] = t]
    BY <2>1
  <2>3. PICK u \in Interrupted(text[fd[p]], record) : text' = [text EXCEPT ![fd[p]] = u]
    BY <2>2
  <2>4. Rewrites(p, u)
    BY <1>1, <1>2, <2>3 DEF Rewrites, TypeOK
  <2>5. RewritesTo(p, u)
    BY <2>1 DEF RewritesTo
  <2> QED
    BY <2>4, <2>5
<1> QED
  BY <1>3, <1>4

LEMMA RewritingSteps ==
  ASSUME TypeOK, HasFile, NEW p \in Procs
  PROVE  /\ ResumeRead(p) => Rewrites(p, Repair(text[fd[p]]))
         /\ \A record : Write(p, record) => Rewrites(p, Put(text[fd[p]], Whole(record)))
         /\ \A record : WriteFails(p, record) =>
              \E u \in Interrupted(text[fd[p]], record) : Rewrites(p, u)
         /\ CloseMute(p) => text' = text \/ Rewrites(p, Completed(text[fd[p]], due[p]))
<1>1. ASSUME ResumeRead(p) PROVE Rewrites(p, Repair(text[fd[p]]))
  <2>1. /\ text' = [text EXCEPT ![fd[p]] = Repair(text[fd[p]])]
        /\ \A q \in Procs \ {p} : fd'[q] = fd[q] /\ pc'[q] = pc[q]
        /\ fd'[p] \in {fd[p], None}
        /\ dir' = dir /\ due' = due /\ seq' = seq /\ kept' = kept
    BY <1>1 DEF ResumeRead, CloseFd, Goto, TypeOK, runVars, gcVars
  <2> QED
    BY <2>1 DEF Rewrites, Alone
<1>2. ASSUME NEW record, Write(p, record) PROVE Rewrites(p, Put(text[fd[p]], Whole(record)))
  <2>1. /\ text' = [text EXCEPT ![fd[p]] = Put(text[fd[p]], Whole(record))]
        /\ \A q \in Procs \ {p} : pc'[q] = pc[q] /\ seq'[q] = seq[q]
        /\ dir' = dir /\ due' = due /\ fd' = fd /\ kept' = kept
    BY <1>2 DEF Write, Goto, SeqAfter, TypeOK, gcVars
  <2> QED
    BY <2>1 DEF Rewrites, Alone
<1>3. ASSUME NEW record, WriteFails(p, record)
      PROVE  \E u \in Interrupted(text[fd[p]], record) : Rewrites(p, u)
  <2>1. PICK u \in Interrupted(text[fd[p]], record) : text' = [text EXCEPT ![fd[p]] = u]
    BY <1>3 DEF WriteFails
  <2>2. /\ \A q \in Procs \ {p} : pc'[q] = pc[q] /\ seq'[q] = seq[q] /\ due'[q] = due[q]
        /\ dir' = dir /\ fd' = fd /\ kept' = kept
    BY <1>3 DEF WriteFails, Goto, SeqAfter, TypeOK, gcVars
  <2> QED
    BY <2>1, <2>2 DEF Rewrites, Alone
<1>4. ASSUME CloseMute(p), text' # text PROVE Rewrites(p, Completed(text[fd[p]], due[p]))
  <2>1. /\ text' = [text EXCEPT ![fd[p]] = Completed(text[fd[p]], due[p])]
        /\ \A q \in Procs \ {p} : fd'[q] = fd[q] /\ pc'[q] = pc[q] /\ due'[q] = due[q]
        /\ fd'[p] = None
        /\ dir' = dir /\ seq' = seq /\ kept' = kept
    BY <1>4 DEF CloseMute, CloseFd, Goto, TypeOK, gcVars
  <2> QED
    BY <2>1 DEF Rewrites, Alone
<1> QED
  BY <1>1, <1>2, <1>3, <1>4

LEMMA StepKinds ==
  ASSUME TypeOK, HasFile, Roles, [Next]_vars
  PROVE  \/ Still
         \/ \E p \in Procs, r \in Runs, i \in Inodes : Claim(p, r, i)
         \/ \E p \in Procs : GcRetain(p)
         \/ \E p \in Procs : \E u : RewritesTo(p, u) /\ Rewrites(p, u)
<1>1. ASSUME NEW p \in Procs, Begin(p)
      PROVE  Still \/ \E r \in Runs, i \in Inodes : Claim(p, r, i)
  BY <1>1, BeginIsStill
<1>2. ASSUME NEW p \in Procs, Step(p)
      PROVE  Still \/ GcRetain(p) \/ \E u : RewritesTo(p, u) /\ Rewrites(p, u)
  <2>1. ASSUME \/ LockGranted(p) \/ LockBusy(p) \/ LockUnsupported(p)
               \/ VerifyInode(p) \/ VerifyFails(p)
               \/ ResumeOpen(p) \/ ResumeCorrupt(p)
               \/ UnrecordedCall(p) \/ Close(p) \/ CloseDeaf(p) \/ (CloseMute(p) /\ text' = text)
        PROVE  Still
    BY <2>1, RunStepIsStill
  <2>2. ASSUME \E r \in Runs : GcOpen(p, r) \/ GcCheck(p, r) \/ GcUnlink(p, r) PROVE Still
    BY <2>2, GcStepIsStill
  <2>3. ASSUME \/ GcPass(p) \/ GcCorrupt(p) \/ GcError(p)
               \/ GcScanned(p) \/ GcChecked(p) \/ GcUnlinked(p) \/ GcRelease(p)
        PROVE  Still
    BY <2>3, GcStepIsStill
  <2>4. ASSUME ResumeRead(p) PROVE \E u : RewritesTo(p, u) /\ Rewrites(p, u)
    BY <2>4, RewritingSteps DEF RewritesTo
  <2>5. ASSUME NEW record \in Records, Write(p, record)
        PROVE  \E u : RewritesTo(p, u) /\ Rewrites(p, u)
    <3>1. record \in NextRecords(p)
      BY <2>5 DEF Write
    <3> QED
      BY <2>5, <3>1, RewritingSteps DEF RewritesTo
  <2>6. ASSUME NEW record \in Records, WriteFails(p, record)
        PROVE  \E u : RewritesTo(p, u) /\ Rewrites(p, u)
    <3>1. record \in NextRecords(p) /\ pc[p] \in {"header", "calls"}
      BY <2>6 DEF WriteFails
    <3>2. PICK u \in Interrupted(text[fd[p]], record) : Rewrites(p, u)
      BY <2>6, RewritingSteps
    <3> QED
      BY <2>6, <3>1, <3>2 DEF RewritesTo
  <2>7. ASSUME CloseMute(p), text' # text PROVE \E u : RewritesTo(p, u) /\ Rewrites(p, u)
    BY <2>7, RewritingSteps DEF RewritesTo
  <2> QED
    BY <1>2, <2>1, <2>2, <2>3, <2>4, <2>5, <2>6, <2>7 DEF Step
<1>3. ASSUME NEW p \in Procs, Crash(p)
      PROVE  Still \/ \E u : RewritesTo(p, u) /\ Rewrites(p, u)
  BY <1>3, CrashIsStill
<1>4. ASSUME (\E i \in Inodes : Age(i)) \/ UNCHANGED vars PROVE Still
  BY <1>4, StayingIsStill DEF Age, vars, fileVars, runVars, gcVars
<1> QED
  BY <1>1, <1>2, <1>3, <1>4 DEF Next, Finished

-----------------------------------------------------------------------------
(* Whatever the journals held before: the inductive invariant.             *)

\* Only the last line of a file can lack its line feed.
FilesTidy == \A i \in Inodes : Tidy(text[i])

\* No step makes a file corrupt, and a corrupt one stays where it was found.
CorruptIsLinked == \A i \in Inodes : Corrupt(text[i]) => Linked(i)

\* O_EXCL keeps the files of the fresh runs apart.
WritersApart == \A p, q \in Writers : fd[p] = fd[q] /\ fd[p] # None => p = q

KeptIsClean == \A p \in Procs : \A item \in kept[p] : ~Corrupt(text[item[2]])

\* What a process may rely on about the file it has open: it is empty before the
\* header, one that another line can be added to while calls are recorded, and after
\* a failed write still one that the rest of the buffer completes.
Content(p) ==
  /\ Fresh(p) => text[fd[p]] = <<>>
  /\ pc[p] \in {"calls", "sealed", "mute"} => ~Corrupt(text[fd[p]])
  /\ pc[p] = "calls" => Appendable(text[fd[p]])
  /\ pc[p] = "mute" => Awaits(text[fd[p]], due[p])
  /\ p \in Resumers => pc[p] # "header" /\ (Owns(p) => RecordsOf(text[fd[p]]) # <<>>)

Contents ==
  /\ FilesTidy /\ CorruptIsLinked /\ WritersApart /\ KeptIsClean
  /\ \A p \in Procs : Content(p)

LEMMA InitContents == Init => Contents
<1> SUFFICES ASSUME Init PROVE Contents
  OBVIOUS
<1>1. PICK left \in SUBSET Runs, place \in [Runs -> Inodes], seed \in [Runs -> Seeds] :
        Seeded(left, place, seed)
  BY DEF Init
<1>2. ASSUME NEW i \in Inodes
      PROVE  text[i] = <<>> \/ (text[i] \in Seeds /\ Linked(i))
  <2>1. CASE \E r \in left : place[r] = i
    <3>1. PICK r \in left : place[r] = i
      BY <2>1
    <3>2. text[i] = seed[CHOOSE q \in left : place[q] = i] /\ dir[r] = i /\ r \in Runs
      BY <1>1, <2>1, <3>1 DEF Seeded
    <3>3. (CHOOSE q \in left : place[q] = i) \in Runs
      BY <2>1
    <3> QED
      BY <3>2, <3>3 DEF Linked
  <2>2. CASE ~\E r \in left : place[r] = i
    BY <1>1, <2>2 DEF Seeded
  <2> QED
    BY <2>1, <2>2
<1>3. FilesTidy
  BY <1>2, SeedsTidy, EmptyFile DEF FilesTidy, Tidy
<1>4. CorruptIsLinked
  BY <1>2, EmptyFile DEF CorruptIsLinked
<1>5. \A p \in Procs : pc[p] = "idle" /\ fd[p] = None /\ kept[p] = {}
  BY DEF Init
<1>6. WritersApart /\ KeptIsClean /\ \A p \in Procs : Content(p)
  BY <1>5 DEF WritersApart, KeptIsClean, Content, Fresh, Owns, Owning, Procs
<1> QED
  BY <1>3, <1>4, <1>6 DEF Contents

\* Nobody else appends to the file of a process that appends or repairs, and no
\* collector retains it.
LEMMA Private ==
  ASSUME TypeOK, Ownership, NEW p \in Procs, Owns(p) \/ (pc[p] = "repair" /\ p \in Resumers)
  PROVE  /\ fd[p] \in Inodes
         /\ \A q \in Procs : Owns(q) /\ fd[q] = fd[p] => q = p
         /\ \A q \in Procs : \A item \in kept[q] : item[2] # fd[p]
<1>1. p \notin Gcs /\ p \notin Inspectors /\ pc[p] \in Secure /\ fd[p] \in Inodes
  BY DEF Ownership, Roles, HasFile, Owns, Owning, Secure, Gcs
<1>2. CASE LocksSupported
  <2>1. holder[fd[p]] = p
    BY <1>1, <1>2 DEF Ownership, HoldsLock
  <2>2. ASSUME NEW q \in Procs, Owns(q), fd[q] = fd[p] PROVE q = p
    <3>1. q \notin Gcs /\ q \notin Inspectors /\ pc[q] \in Secure
      BY <2>2 DEF Ownership, Roles, Owns, Owning, Secure, Gcs
    <3>2. holder[fd[q]] = q
      BY <1>2, <3>1 DEF Ownership, HoldsLock
    <3> QED
      BY <2>1, <2>2, <3>2
  <2>3. ASSUME NEW q \in Procs, NEW item \in kept[q] PROVE item[2] # fd[p]
    <3>1. holder[item[2]] = q /\ q \in Gcs
      BY DEF Ownership, KeptIsLocked, Gcs
    <3> QED
      BY <1>1, <2>1, <3>1
  <2> QED
    BY <1>1, <2>2, <2>3
<1>3. CASE ~LocksSupported
  <2>1. Owns(p)
    BY <1>3 DEF Ownership, Roles
  <2>2. \A q \in Procs : kept[q] = {}
    BY <1>3 DEF Ownership, KeptIsLocked
  <2> QED
    BY <1>1, <1>3, <2>1, <2>2 DEF Ownership, ApartWithoutLocks
<1> QED
  BY <1>2, <1>3

LEMMA RewriterOwns ==
  ASSUME NEW p \in Procs, NEW u, RewritesTo(p, u)
  PROVE  Owns(p) \/ (pc[p] = "repair" /\ p \in Resumers)
BY DEF RewritesTo, ResumeRead, Write, CloseMute, Owns, Owning

\* What can be appended to.
LEMMA WritableContent ==
  ASSUME Contents, TypeOK, Ownership, NEW p \in Procs, pc[p] \in {"header", "calls"}
  PROVE  ~Corrupt(text[fd[p]]) /\ Appendable(text[fd[p]])
<1>1. CASE pc[p] = "header"
  <2>1. p \in Writers
    BY <1>1 DEF Contents, Content, Ownership, Roles, Owning, Procs
  <2> QED
    BY <1>1, <2>1, EmptyFile DEF Contents, Content, Fresh
<1>2. CASE pc[p] = "calls"
  BY <1>2 DEF Contents, Content
<1> QED
  BY <1>1, <1>2

\* The content a file gets has all records of the one it had, and no error.
LEMMA RewrittenFile ==
  ASSUME TypeOK, Ownership, Contents, NEW p \in Procs, NEW u, RewritesTo(p, u)
  PROVE  /\ u \in Seq(Lines) /\ Tidy(u) /\ ~Corrupt(u) /\ ~Corrupt(text[fd[p]])
         /\ \/ SameRecords(text[fd[p]], u)
            \/ \E record \in Records : OneMoreRecord(text[fd[p]], u, record)
         /\ pc[p] = "repair" /\ text[fd[p]] = <<>> => u = <<>>
<1> DEFINE t == text[fd[p]]
<1>1. fd[p] \in Inodes /\ t \in Seq(LinesOver(Bodies)) /\ Tidy(t)
  BY RewriterOwns, Private, LinesHoldBodies DEF TypeOK, Contents, FilesTidy
<1>2. CASE ResumeRead(p) /\ u = Repair(t)
  <2>1. ~Corrupt(t)
    BY <1>2 DEF ResumeRead
  <2> HIDE DEF t
  <2>2. /\ u \in Seq(LinesOver(Bodies)) /\ Tidy(u) /\ ~Corrupt(u) /\ SameRecords(t, u)
    BY <1>1, <1>2, <2>1, LinesHoldBodies, RepairedFile
  <2> QED
    BY <2>1, <2>2, <1>2, LinesHoldBodies, EmptyFile DEF t
<1>3. ASSUME NEW record \in NextRecords(p), Write(p, record), u = Put(t, Whole(record))
      PROVE  /\ u \in Seq(Lines) /\ Tidy(u) /\ ~Corrupt(u) /\ ~Corrupt(t) /\ pc[p] # "repair"
             /\ OneMoreRecord(t, u, record) /\ record \in Records
  <2>1. ~Corrupt(t) /\ Appendable(t) /\ pc[p] # "repair"
    BY <1>3, WritableContent DEF Write
  <2>2. record \in Records /\ record \in Bodies /\ IsRecord(record)
    BY RecordsToWrite, LinesHoldBodies
  <2> HIDE DEF t
  <2> QED
    BY <1>1, <1>3, <2>1, <2>2, LinesHoldBodies, WholeWrite
<1>4. ASSUME NEW record \in NextRecords(p), pc[p] \in {"header", "calls"}, u \in Interrupted(t, record)
      PROVE  /\ u \in Seq(Lines) /\ Tidy(u) /\ ~Corrupt(u) /\ ~Corrupt(t) /\ pc[p] # "repair"
             /\ SameRecords(t, u) \/ (OneMoreRecord(t, u, record) /\ record \in Records)
  <2>1. ~Corrupt(t) /\ Appendable(t) /\ pc[p] # "repair"
    BY <1>4, WritableContent
  <2>2. record \in Records /\ record \in Bodies /\ IsRecord(record)
    BY RecordsToWrite, LinesHoldBodies
  <2> HIDE DEF t
  <2> QED
    BY <1>1, <1>4, <2>1, <2>2, LinesHoldBodies, InterruptedWrite
<1>5. CASE CloseMute(p) /\ u = Completed(t, due[p])
  <2>1. ~Corrupt(t) /\ Awaits(t, due[p]) /\ pc[p] # "repair"
    BY <1>5 DEF CloseMute, Contents, Content
  <2>2. due[p] \in Records /\ due[p] \in Bodies /\ IsRecord(due[p])
    BY <1>5, LinesHoldBodies DEF CloseMute, Ownership, HasFile
  <2> HIDE DEF t
  <2>3. /\ u \in Seq(LinesOver(Bodies)) /\ Tidy(u) /\ ~Corrupt(u)
        /\ SameRecords(t, u) \/ OneMoreRecord(t, u, due[p])
    BY <1>1, <1>5, <2>1, <2>2, LateFlush
  <2> QED
    BY <2>1, <2>2, <2>3, LinesHoldBodies DEF t
<1> QED
  BY <1>2, <1>3, <1>4, <1>5 DEF RewritesTo

\* What the process that changed the content relies on from then on.
LEMMA RewriterContent ==
  ASSUME TypeOK, Ownership, Contents, NEW p \in Procs, NEW u, RewritesTo(p, u), Rewrites(p, u)
  PROVE  Content(p)'
<1>1. /\ fd[p] \in Inodes /\ text'[fd[p]] = u
      /\ u \in Seq(Lines) /\ ~Corrupt(u) /\ ~Corrupt(text[fd[p]])
  BY RewriterOwns, Private, RewrittenFile DEF Rewrites, TypeOK
<1>2. pc'[p] = "done" => Content(p)'
  BY DEF Content, Fresh, Owns, Owning
<1>3. ASSUME ResumeRead(p), u = Repair(text[fd[p]]), pc'[p] # "done" PROVE Content(p)'
  <2>1. /\ pc'[p] = "calls" /\ fd'[p] = fd[p]
        /\ RecordsOf(text[fd[p]]) # <<>>
    BY <1>3 DEF ResumeRead, Goto, TypeOK
  <2>2. text[fd[p]] \in Seq(LinesOver(Bodies)) /\ Tidy(text[fd[p]])
    BY <1>1, LinesHoldBodies DEF TypeOK, Contents, FilesTidy
  <2>3. Appendable(u) /\ SameRecords(text[fd[p]], u)
    BY <1>1, <1>3, <2>2, LinesHoldBodies, RepairedFile
  <2> QED
    BY <1>1, <2>1, <2>3 DEF Content, Fresh, SameRecords
<1>4. ASSUME NEW record \in NextRecords(p), Write(p, record), u = Put(text[fd[p]], Whole(record))
      PROVE  Content(p)'
  <2>1. pc'[p] \in {"calls", "sealed"} /\ fd'[p] = fd[p]
    BY <1>4 DEF Write, Goto, TypeOK
  <2>2. text[fd[p]] \in Seq(LinesOver(Bodies)) /\ Tidy(text[fd[p]])
    BY <1>1, LinesHoldBodies DEF TypeOK, Contents, FilesTidy
  <2>3. record \in Bodies /\ IsRecord(record) /\ Appendable(text[fd[p]])
    BY <1>4, RecordsToWrite, LinesHoldBodies, WritableContent DEF Write
  <2>4. ~OpenTail(u) /\ OneMoreRecord(text[fd[p]], u, record)
    BY <1>1, <1>4, <2>2, <2>3, WholeWrite
  <2>5. RecordsOf(u) # <<>>
    <3>1. RecordsOf(text[fd[p]]) \in Seq(RecordsIn(Bodies))
      BY <2>2, RecordsOfType
    <3> QED
      BY <2>4, <3>1 DEF OneMoreRecord
  <2> QED
    BY <1>1, <2>1, <2>4, <2>5 DEF Content, Fresh, Appendable
<1>5. ASSUME NEW record \in NextRecords(p), u \in Interrupted(text[fd[p]], record),
             WriteFails(p, record)
      PROVE  Content(p)'
  <2>1. /\ pc'[p] = "mute" /\ fd'[p] = fd[p] /\ due'[p] = record
        /\ pc[p] \in {"header", "calls"}
    BY <1>5 DEF WriteFails, Goto, TypeOK
  <2>2. text[fd[p]] \in Seq(LinesOver(Bodies)) /\ Tidy(text[fd[p]])
    BY <1>1, LinesHoldBodies DEF TypeOK, Contents, FilesTidy
  <2>3. record \in Bodies /\ IsRecord(record) /\ Appendable(text[fd[p]])
    BY <2>1, RecordsToWrite, LinesHoldBodies, WritableContent
  <2>4. /\ Awaits(u, record)
        /\ SameRecords(text[fd[p]], u) \/ OneMoreRecord(text[fd[p]], u, record)
    BY <1>1, <1>5, <2>2, <2>3, LinesHoldBodies, InterruptedWrite
  <2>5. p \in Resumers => RecordsOf(u) # <<>>
    <3>1. RecordsOf(text[fd[p]]) \in Seq(RecordsIn(Bodies))
      BY <2>2, RecordsOfType
    <3>2. p \in Resumers => RecordsOf(text[fd[p]]) # <<>>
      BY <2>1 DEF Contents, Content, Owns, Owning
    <3> QED
      BY <2>4, <3>1, <3>2 DEF OneMoreRecord, SameRecords
  <2> QED
    BY <1>1, <2>1, <2>4, <2>5 DEF Content, Fresh
<1>6. CASE Crash(p) \/ CloseMute(p)
  BY <1>2, <1>6 DEF Crash, CloseMute, Goto, TypeOK
<1> QED
  BY <1>2, <1>3, <1>4, <1>5, <1>6 DEF RewritesTo

\* Nobody else notices.
LEMMA OthersKeepContent ==
  ASSUME TypeOK, Ownership, Contents, NEW p \in Procs, NEW u, RewritesTo(p, u), Rewrites(p, u),
         NEW q \in Procs, q # p
  PROVE  Content(q)'
<1>1. /\ pc'[q] = pc[q] /\ fd'[q] = fd[q] /\ due'[q] = due[q]
      /\ text' = [text EXCEPT ![fd[p]] = u]
  BY DEF Rewrites, Alone
<1>2. CASE fd[q] # fd[p]
  <2>1. text'[fd[q]] = text[fd[q]]
    BY <1>1, <1>2 DEF TypeOK
  <2> QED
    BY <1>1, <2>1 DEF Contents, Content, Fresh, Owns
<1>3. CASE fd[q] = fd[p]
  <2>1. ~Owns(q) /\ fd[p] \in Inodes /\ (Owns(p) \/ (pc[p] = "repair" /\ p \in Resumers))
    BY <1>3, RewriterOwns, Private
  <2>2. ASSUME Fresh(q) PROVE text'[fd[q]] = <<>>
    <3>1. text[fd[p]] = <<>> /\ q \in Writers /\ fd[p] # None
      BY <1>3, <2>1, <2>2, ConstantsOK DEF Contents, Content, Fresh
    <3>2. CASE pc[p] = "repair"
      BY <1>1, <1>3, <2>1, <3>1, <3>2, RewrittenFile DEF TypeOK
    <3>3. CASE pc[p] # "repair"
      <4>1. Owns(p) /\ p \notin Gcs
        BY <2>1, <3>3 DEF Ownership, Roles, Owns
      <4>2. CASE p \in Writers
        BY <1>3, <3>1, <4>2 DEF Contents, WritersApart
      <4>3. CASE p \in Resumers
        <5>1. RecordsOf(text[fd[p]]) # <<>>
          BY <4>1, <4>3 DEF Contents, Content
        <5> QED
          BY <3>1, <5>1, RecordsOfEmpty
      <4> QED
        BY <4>1, <4>2, <4>3 DEF Procs
    <3> QED
      BY <3>2, <3>3
  <2> QED
    BY <1>1, <2>1, <2>2 DEF Contents, Content, Fresh, Owns, Owning
<1> QED
  BY <1>2, <1>3

\* What is corrupt after a step was so before; and it was not unlinked.
LEMMA CorruptStaysLinked ==
  ASSUME TypeOK, Ownership, Contents, [Next]_vars, NEW i \in Inodes, Corrupt(text[i])
  PROVE  Linked(i)'
<1>1. PICK r \in Runs : dir[r] = i
  BY DEF Contents, CorruptIsLinked, Linked
<1>2. dir'[r] = dir[r]
  <2> SUFFICES ASSUME dir'[r] # dir[r] PROVE FALSE
    OBVIOUS
  <2>1. dir[r] # None
    BY <1>1, ConstantsOK
  <2>2. \E p \in Procs : \E item \in kept[p] : dir[r] = item[2]
    BY <2>1, UnlinkIsOfKept
  <2> QED
    BY <1>1, <2>2 DEF Contents, KeptIsClean
<1> QED
  BY <1>1, <1>2 DEF Linked

LEMMA RewritingKeepsContents ==
  ASSUME TypeOK, Ownership, Contents, [Next]_vars,
         NEW p \in Procs, NEW u, RewritesTo(p, u), Rewrites(p, u)
  PROVE  Contents'
<1>1. /\ fd[p] \in Inodes /\ Tidy(u) /\ ~Corrupt(u) /\ ~Corrupt(text[fd[p]])
      /\ \A i \in Inodes : text'[i] = IF i = fd[p] THEN u ELSE text[i]
  BY RewriterOwns, Private, RewrittenFile DEF Rewrites, TypeOK
<1>2. FilesTidy'
  BY <1>1 DEF Contents, FilesTidy
<1>3. CorruptIsLinked'
  BY <1>1, CorruptStaysLinked DEF CorruptIsLinked
<1>4. WritersApart'
  BY ConstantsOK DEF Contents, WritersApart, Rewrites, Alone, Procs
<1>5. KeptIsClean'
  <2> SUFFICES ASSUME NEW q \in Procs, NEW item \in kept'[q] PROVE ~Corrupt(text'[item[2]])
    BY DEF KeptIsClean
  <2>1. item \in kept[q]
    BY DEF Rewrites, Alone
  <2>2. item[2] \in Inodes /\ ~Corrupt(text[item[2]])
    BY <2>1 DEF TypeOK, Contents, KeptIsClean
  <2> QED
    BY <1>1, <2>2
<1>6. \A q \in Procs : Content(q)'
  BY RewriterContent, OthersKeepContent
<1> QED
  BY <1>2, <1>3, <1>4, <1>5, <1>6 DEF Contents

LEMMA StillKeepsContents ==
  ASSUME TypeOK, Ownership, Contents, [Next]_vars, Still
  PROVE  Contents'
<1>1. text' = text /\ \A p \in Procs : Quiet(p)
  BY DEF Still
<1>2. FilesTidy'
  BY <1>1 DEF Contents, FilesTidy
<1>3. CorruptIsLinked'
  BY <1>1, CorruptStaysLinked DEF CorruptIsLinked
<1>4. WritersApart'
  BY <1>1 DEF Contents, WritersApart, Quiet, Procs
<1>5. KeptIsClean'
  BY <1>1 DEF Contents, KeptIsClean, Quiet
<1>6. ASSUME NEW p \in Procs PROVE Content(p)'
  <2>1. Quiet(p) /\ Content(p)
    BY <1>1 DEF Contents
  <2>2. CASE Stays(p)
    BY <1>1, <2>1, <2>2 DEF Stays, Content, Fresh, Owns
  <2>3. CASE Fresh(p) /\ Fresh(p)' /\ fd'[p] = fd[p]
    BY <1>1, <2>1, <2>3, ConstantsOK DEF Content, Fresh
  <2>4. CASE ~Fresh(p)' /\ pc'[p] \notin Owning
    BY <2>4 DEF Content, Owns, Owning
  <2> QED
    BY <2>1, <2>2, <2>3, <2>4 DEF Quiet
<1> QED
  BY <1>2, <1>3, <1>4, <1>5, <1>6 DEF Contents

LEMMA ClaimKeepsContents ==
  ASSUME TypeOK, Ownership, Contents, [Next]_vars,
         NEW p \in Procs, NEW r \in Runs, NEW i \in Inodes, Claim(p, r, i)
  PROVE  Contents'
<1>1. /\ p \in Writers /\ p \notin Resumers /\ i # None
      /\ \A q \in Procs : fd[q] # i /\ \A item \in kept[q] : item[2] # i
      /\ text' = [text EXCEPT ![i] = <<>>] /\ fd' = [fd EXCEPT ![p] = i]
      /\ kept' = kept /\ due' = due
      /\ pc'[p] \in {"lock", "header"} /\ \A q \in Procs \ {p} : pc'[q] = pc[q]
  BY ConstantsOK DEF Claim, Unreferenced, KeptInodes, Goto, TypeOK, runVars, gcVars
<1>2. FilesTidy'
  BY <1>1, EmptyFile DEF Contents, FilesTidy, TypeOK
<1>3. CorruptIsLinked'
  BY <1>1, EmptyFile, CorruptStaysLinked DEF CorruptIsLinked, TypeOK
<1>4. WritersApart'
  BY <1>1 DEF Contents, WritersApart, TypeOK, Procs
<1>5. KeptIsClean'
  <2> SUFFICES ASSUME NEW q \in Procs, NEW item \in kept[q] PROVE ~Corrupt(text'[item[2]])
    BY <1>1 DEF KeptIsClean
  <2> QED
    BY <1>1 DEF Contents, KeptIsClean, TypeOK
<1>6. ASSUME NEW q \in Procs, q # p PROVE Content(q)'
  <2>1. /\ pc'[q] = pc[q] /\ fd'[q] = fd[q] /\ due'[q] = due[q]
        /\ fd[q] # i
    BY <1>1, <1>6 DEF TypeOK
  <2>2. text'[fd[q]] = text[fd[q]]
    BY <1>1, <2>1 DEF TypeOK
  <2> QED
    BY <2>1, <2>2 DEF Contents, Content, Fresh, Owns
<1>7. Content(p)'
  BY <1>1 DEF Content, TypeOK
<1> QED
  BY <1>2, <1>3, <1>4, <1>5, <1>6, <1>7 DEF Contents

LEMMA RetainingKeepsContents ==
  ASSUME TypeOK, Ownership, Contents, [Next]_vars, NEW p \in Procs, GcRetain(p)
  PROVE  Contents'
<1>1. /\ p \in Collectors /\ p \notin Writers /\ p \notin Resumers
      /\ pc' = [pc EXCEPT ![p] = "scan"] /\ fd' = [fd EXCEPT ![p] = None]
      /\ text' = text /\ due' = due
      /\ kept' = [kept EXCEPT ![p] = @ \cup {<<run[p], fd[p]>>}]
      /\ ~Corrupt(text[fd[p]])
  BY ConstantsOK DEF GcRetain, Goto, Gcs, fileVars, runVars
<1>2. FilesTidy' /\ WritersApart'
  BY <1>1 DEF Contents, FilesTidy, WritersApart, TypeOK, Procs
<1>3. CorruptIsLinked'
  BY <1>1, CorruptStaysLinked DEF CorruptIsLinked
<1>4. KeptIsClean'
  BY <1>1 DEF Contents, KeptIsClean, TypeOK
<1>5. ASSUME NEW q \in Procs PROVE Content(q)'
  BY <1>1 DEF Contents, Content, Fresh, Owns, Owning, TypeOK
<1> QED
  BY <1>2, <1>3, <1>4, <1>5 DEF Contents

LEMMA NextContents == TypeOK /\ Ownership /\ Contents /\ [Next]_vars => Contents'
<1> SUFFICES ASSUME TypeOK, Ownership, Contents, [Next]_vars PROVE Contents'
  OBVIOUS
<1>1. HasFile /\ Roles
  BY DEF Ownership
<1>2. ASSUME NEW p \in Procs, NEW r \in Runs, NEW i \in Inodes, Claim(p, r, i) PROVE Contents'
  BY <1>2, ClaimKeepsContents
<1>3. ASSUME NEW p \in Procs, GcRetain(p) PROVE Contents'
  BY <1>3, RetainingKeepsContents
<1>4. ASSUME NEW p \in Procs, NEW u, RewritesTo(p, u), Rewrites(p, u) PROVE Contents'
  BY <1>4, RewritingKeepsContents
<1> QED
  BY <1>1, <1>2, <1>3, <1>4, StepKinds, StillKeepsContents

\* What a step can do to a file that something refers to.
LEMMA OnlyAppended ==
  ASSUME TypeOK, Ownership, Contents, [Next]_vars, NEW i \in Inodes
  PROVE  \/ text'[i] = text[i]
         \/ Unreferenced(i)
         \/ ~Corrupt(text[i]) /\ SameRecords(text[i], text'[i])
         \/ /\ ~Corrupt(text[i])
            /\ \E record \in Records : OneMoreRecord(text[i], text'[i], record)
<1>1. HasFile /\ Roles
  BY DEF Ownership
<1>2. ASSUME NEW p \in Procs, NEW r \in Runs, NEW j \in Inodes, Claim(p, r, j)
      PROVE  text'[i] = text[i] \/ Unreferenced(i)
  BY <1>2 DEF Claim, TypeOK
<1>3. ASSUME Still \/ \E p \in Procs : GcRetain(p) PROVE text'[i] = text[i]
  BY <1>3 DEF Still, GcRetain, fileVars
<1>4. ASSUME NEW p \in Procs, NEW u, RewritesTo(p, u), Rewrites(p, u)
      PROVE  \/ text'[i] = text[i]
             \/ /\ ~Corrupt(text[i])
                /\ \/ SameRecords(text[i], text'[i])
                   \/ \E record \in Records : OneMoreRecord(text[i], text'[i], record)
  <2>1. fd[p] \in Inodes /\ text' = [text EXCEPT ![fd[p]] = u]
    BY <1>4, RewriterOwns, Private DEF Rewrites
  <2>2. CASE i = fd[p]
    <3>1. text'[i] = u
      BY <2>1, <2>2 DEF TypeOK
    <3> QED
      BY <1>4, <2>2, <3>1, RewrittenFile
  <2>3. CASE i # fd[p]
    BY <2>1, <2>3 DEF TypeOK
  <2> QED
    BY <2>2, <2>3
<1> QED
  BY <1>1, <1>2, <1>3, <1>4, StepKinds

LEMMA PrefixOfAppend ==
  ASSUME NEW S, NEW s \in Seq(S), NEW e \in S
  PROVE  IsPrefix(s, s) /\ IsPrefix(s, Append(s, e))
<1>1. Len(s) \in Nat /\ Len(Append(s, e)) = Len(s) + 1
  OBVIOUS
<1>2. SubSeq(s, 1, Len(s)) = SubSeq(Append(s, e), 1, Len(s))
  BY <1>1
<1> QED
  BY <1>1, <1>2 DEF IsPrefix

LEMMA GrowingStep ==
  TypeOK /\ Ownership /\ Contents /\ [Next]_vars =>
    \A i \in Inodes : ~Unreferenced(i) => IsPrefix(RecordsOf(text[i]), RecordsOf(text[i])')
<1> SUFFICES ASSUME TypeOK, Ownership, Contents, [Next]_vars, NEW i \in Inodes, ~Unreferenced(i)
             PROVE  IsPrefix(RecordsOf(text[i]), RecordsOf(text'[i]))
  OBVIOUS
<1>1. RecordsOf(text[i]) \in Seq(RecordsIn(Bodies))
  BY LinesHoldBodies, RecordsOfType DEF TypeOK
<1>2. Header \in RecordsIn(Bodies)
  BY LinesHoldBodies DEF RecordsIn, Records
<1>3. CASE text'[i] = text[i] \/ SameRecords(text[i], text'[i])
  BY <1>1, <1>2, <1>3, PrefixOfAppend DEF SameRecords
<1>4. ASSUME NEW record \in Records, OneMoreRecord(text[i], text'[i], record)
      PROVE  IsPrefix(RecordsOf(text[i]), RecordsOf(text'[i]))
  <2>1. record \in RecordsIn(Bodies)
    BY LinesHoldBodies DEF RecordsIn
  <2> QED
    BY <1>1, <1>4, <2>1, PrefixOfAppend DEF OneMoreRecord
<1> QED
  BY <1>3, <1>4, OnlyAppended

LEMMA UntouchedStep ==
  TypeOK /\ Ownership /\ Contents /\ [Next]_vars =>
    \A i \in Inodes : Corrupt(text[i]) => text'[i] = text[i] /\ (Linked(i) => Linked(i)')
<1> SUFFICES ASSUME TypeOK, Ownership, Contents, [Next]_vars, NEW i \in Inodes, Corrupt(text[i])
             PROVE  text'[i] = text[i] /\ Linked(i)'
  OBVIOUS
<1>1. Linked(i)'
  BY CorruptStaysLinked
<1>2. ~Unreferenced(i)
  BY DEF Contents, CorruptIsLinked, Unreferenced
<1> QED
  BY <1>1, <1>2, OnlyAppended

\* What the processes rely on about the content of the files they have open holds in
\* every state, whatever the journals held before.
THEOREM ContentsHold == Spec => []Contents
<1>1. TypeOK /\ Ownership /\ Contents /\ [Next]_vars => Contents'
  BY NextContents
<1> QED
  BY <1>1, InitContents, TypeCorrect, OwnershipHolds, PTL DEF Spec

\* No repair of resume, no failed or interrupted write and no late flush loses a
\* record that a journal once had, whatever it held, and however many runs there are.
THEOREM RecordsAreNeverLost == Spec => RecordsOnlyGrow
<1>1. TypeOK /\ Ownership /\ Contents /\ [Next]_vars =>
        [\A i \in Inodes : ~Unreferenced(i) =>
           IsPrefix(RecordsOf(text[i]), RecordsOf(text[i])')]_vars
  BY GrowingStep
<1> QED
  BY <1>1, TypeCorrect, OwnershipHolds, ContentsHold, PTL DEF Spec, RecordsOnlyGrow

\* A journal that a reader reports as corrupt is as it was found, for good: resume does
\* not repair it, no run appends to it, and no gc unlinks it.
THEOREM CorruptJournalsStay == Spec => CorruptIsUntouched
<1>1. TypeOK /\ Ownership /\ Contents /\ [Next]_vars =>
        [\A i \in Inodes : Corrupt(text[i]) =>
           text'[i] = text[i] /\ (Linked(i) => Linked(i)')]_vars
  BY UntouchedStep
<1> QED
  BY <1>1, TypeCorrect, OwnershipHolds, ContentsHold, PTL DEF Spec, CorruptIsUntouched

-----------------------------------------------------------------------------
(* When earlier runs left sound journals: the inductive invariant.         *)

\* One header, then calls numbered from 0 (and results).
Numbered(t) ==
  /\ \A k \in DOMAIN RecordsOf(t) : RecordsOf(t)[k] = Header <=> k = 1
  /\ \A k \in DOMAIN CallsOf(t) : CallsOf(t)[k] = Call(k - 1)

SoundSeeds == \A t \in Seeds : ~Corrupt(t) /\ Numbered(t)

FilesSound == \A i \in Inodes : ~Corrupt(text[i]) /\ Numbered(text[i])

\* A run counts its calls as its journal does, replayed ones aside; and what is still
\* buffered is the record that comes next.
Counted(p) ==
  /\ Early(p) => seq[p] = 0
  /\ pc[p] = "calls" =>
       /\ RecordsOf(text[fd[p]]) # <<>> /\ seq[p] <= Recorded(p)
       /\ p \in Writers => seq[p] = Recorded(p)
  /\ pc[p] = "sealed" /\ p \in Writers =>
       seq[p] = Recorded(p) /\ Last(RecordsOf(text[fd[p]])) = Result
  /\ pc[p] = "mute" => Numbered(Completed(text[fd[p]], due[p]))

Sound == FilesSound /\ \A p \in Procs : Counted(p)

\* The record that may follow in a file.
Fits(t, record) ==
  \/ record = Header /\ RecordsOf(t) = <<>> /\ CallsOf(t) = <<>>
  \/ RecordsOf(t) # <<>> /\ record \in {Result, Call(Len(CallsOf(t)))}

LEMMA NumberedNext ==
  ASSUME NEW t \in Seq(Lines), Numbered(t), NEW record, Fits(t, record),
         NEW u, OneMoreRecord(t, u, record)
  PROVE  Numbered(u)
<1>1. RecordsOf(t) \in Seq(RecordsIn(Bodies)) /\ CallsOf(t) \in Seq(CallsIn(RecordsIn(Bodies)))
  BY LinesHoldBodies, RecordsOfType, CallsOfType
<1> DEFINE records == RecordsOf(t)
           calls   == CallsOf(t)
<1>2. /\ Len(records) \in Nat /\ DOMAIN records = 1..Len(records)
      /\ Len(calls) \in Nat /\ DOMAIN calls = 1..Len(calls)
      /\ records = <<>> <=> Len(records) = 0
  BY <1>1
<1>3. /\ RecordsOf(u) = Append(records, record)
      /\ CallsOf(u) = IF record.type = "call" THEN Append(calls, record) ELSE calls
  BY DEF OneMoreRecord
<1>4. ASSUME NEW k \in DOMAIN RecordsOf(u) PROVE RecordsOf(u)[k] = Header <=> k = 1
  <2>1. k \in 1..(Len(records) + 1)
    BY <1>1, <1>3, <1>4
  <2>2. CASE k \in 1..Len(records)
    BY <1>1, <1>2, <1>3, <2>2 DEF Numbered
  <2>3. CASE k = Len(records) + 1
    <3>1. RecordsOf(u)[k] = record
      BY <1>1, <1>3, <2>3
    <3>2. record = Header <=> Len(records) = 0
      BY <1>2 DEF Fits, Header, Result, Call
    <3> QED
      BY <1>2, <2>3, <3>1, <3>2
  <2> QED
    BY <1>2, <2>1, <2>2, <2>3
<1>5. ASSUME NEW k \in DOMAIN CallsOf(u) PROVE CallsOf(u)[k] = Call(k - 1)
  <2>1. CASE record.type # "call"
    BY <1>3, <1>5, <2>1 DEF Numbered
  <2>2. CASE record.type = "call"
    <3>1. record = Call(Len(calls)) /\ CallsOf(u) = Append(calls, record)
      BY <1>3, <2>2 DEF Fits, Header, Result, Call
    <3>2. k \in 1..(Len(calls) + 1)
      BY <1>1, <1>5, <3>1
    <3>3. CASE k \in 1..Len(calls)
      BY <1>1, <1>2, <3>1, <3>3 DEF Numbered
    <3>4. CASE k = Len(calls) + 1
      <4>1. CallsOf(u)[k] = record /\ k - 1 = Len(calls)
        BY <1>1, <1>2, <3>1, <3>4
      <4> QED
        BY <3>1, <4>1
    <3> QED
      BY <1>2, <3>2, <3>3, <3>4
  <2> QED
    BY <2>1, <2>2
<1> QED
  BY <1>4, <1>5 DEF Numbered

LEMMA EmptyIsNumbered == Numbered(<<>>)
BY RecordsOfEmpty, CallsOfEmpty DEF Numbered

LEMMA InitSound == SoundSeeds /\ Init => Sound
<1> SUFFICES ASSUME SoundSeeds, Init PROVE Sound
  OBVIOUS
<1>1. PICK left \in SUBSET Runs, place \in [Runs -> Inodes], seed \in [Runs -> Seeds] :
        Seeded(left, place, seed)
  BY DEF Init
<1>2. ASSUME NEW i \in Inodes PROVE text[i] = <<>> \/ text[i] \in Seeds
  <2>1. CASE \E r \in left : place[r] = i
    <3>1. (CHOOSE q \in left : place[q] = i) \in Runs
      BY <2>1
    <3> QED
      BY <1>1, <2>1, <3>1 DEF Seeded
  <2>2. CASE ~\E r \in left : place[r] = i
    BY <1>1, <2>2 DEF Seeded
  <2> QED
    BY <2>1, <2>2
<1>3. FilesSound
  BY <1>2, EmptyFile, EmptyIsNumbered DEF FilesSound, SoundSeeds
<1>4. \A p \in Procs : Counted(p)
  BY DEF Init, Counted
<1> QED
  BY <1>3, <1>4 DEF Sound

LEMMA RecordedCalls ==
  ASSUME NEW t \in Seq(Lines)
  PROVE  /\ RecordsOf(t) \in Seq(RecordsIn(Bodies))
         /\ CallsOf(t) \in Seq(CallsIn(RecordsIn(Bodies))) /\ Len(CallsOf(t)) \in Nat
BY LinesHoldBodies, RecordsOfType, CallsOfType

LEMMA NextRecordFits ==
  ASSUME TypeOK, Ownership, Contents, Sound, NEW p \in Procs, pc[p] \in {"header", "calls"},
         NEW record \in NextRecords(p)
  PROVE  Fits(text[fd[p]], record)
<1>1. fd[p] \in Inodes /\ text[fd[p]] \in Seq(Lines) /\ seq[p] \in Nat /\ Recorded(p) \in Nat
  BY RecordedCalls DEF Ownership, HasFile, Secure, Owning, TypeOK, Recorded
<1>2. CASE pc[p] = "header"
  <2>1. p \in Writers
    BY <1>2 DEF Contents, Content, Ownership, Roles, Owning, Procs
  <2>2. text[fd[p]] = <<>>
    BY <1>2, <2>1 DEF Contents, Content, Fresh
  <2> QED
    BY <1>2, <2>2, RecordsOfEmpty, CallsOfEmpty DEF NextRecords, Fits
<1>3. CASE pc[p] = "calls"
  <2>1. RecordsOf(text[fd[p]]) # <<>> /\ seq[p] <= Recorded(p)
    BY <1>3 DEF Sound, Counted
  <2>2. CASE record = Result
    BY <2>1, <2>2 DEF Fits
  <2>3. CASE record # Result
    <3>1. record = Call(seq[p]) /\ seq[p] >= Recorded(p)
      BY <1>3, <2>3 DEF NextRecords
    <3>2. seq[p] = Recorded(p)
      BY <1>1, <2>1, <3>1
    <3> QED
      BY <2>1, <3>1, <3>2 DEF Fits, Recorded
  <2> QED
    BY <2>2, <2>3
<1> QED
  BY <1>2, <1>3

\* A journal stays well formed under each step that changes it.
LEMMA RewrittenIsNumbered ==
  ASSUME TypeOK, Ownership, Contents, Sound, NEW p \in Procs, NEW u, RewritesTo(p, u)
  PROVE  Numbered(u)
<1> DEFINE t == text[fd[p]]
<1>1. fd[p] \in Inodes /\ t \in Seq(Lines) /\ Tidy(t) /\ ~Corrupt(t) /\ Numbered(t)
  BY RewriterOwns, Private DEF TypeOK, Contents, FilesTidy, Sound, FilesSound
<1>2. ASSUME SameRecords(t, u) PROVE Numbered(u)
  BY <1>1, <1>2 DEF SameRecords, Numbered
<1>3. CASE ResumeRead(p) /\ u = Repair(t)
  <2> HIDE DEF t
  <2>1. SameRecords(t, u)
    BY <1>1, <1>3, LinesHoldBodies, RepairedFile
  <2> QED
    BY <1>2, <2>1
<1>4. ASSUME NEW record \in NextRecords(p), Write(p, record), u = Put(t, Whole(record))
      PROVE  Numbered(u)
  <2>1. Fits(t, record) /\ Appendable(t)
    BY <1>4, NextRecordFits, WritableContent DEF Write
  <2>2. record \in Bodies /\ IsRecord(record)
    BY RecordsToWrite, LinesHoldBodies
  <2> HIDE DEF t
  <2>3. OneMoreRecord(t, u, record)
    BY <1>1, <1>4, <2>1, <2>2, LinesHoldBodies, WholeWrite
  <2> QED
    BY <1>1, <2>1, <2>3, NumberedNext
<1>5. ASSUME NEW record \in NextRecords(p), pc[p] \in {"header", "calls"}, u \in Interrupted(t, record)
      PROVE  Numbered(u)
  <2>1. Fits(t, record) /\ Appendable(t)
    BY <1>5, NextRecordFits, WritableContent
  <2>2. record \in Bodies /\ IsRecord(record)
    BY RecordsToWrite, LinesHoldBodies
  <2> HIDE DEF t
  <2>3. SameRecords(t, u) \/ OneMoreRecord(t, u, record)
    BY <1>1, <1>5, <2>1, <2>2, LinesHoldBodies, InterruptedWrite
  <2> QED
    BY <1>1, <1>2, <2>1, <2>3, NumberedNext
<1>6. CASE CloseMute(p) /\ u = Completed(t, due[p])
  BY <1>6 DEF CloseMute, Sound, Counted
<1> QED
  BY <1>3, <1>4, <1>5, <1>6 DEF RewritesTo

LEMMA RewriterCount ==
  ASSUME TypeOK, Ownership, Contents, Sound,
         NEW p \in Procs, NEW u, RewritesTo(p, u), Rewrites(p, u)
  PROVE  Counted(p)'
<1>1. /\ fd[p] \in Inodes /\ text'[fd[p]] = u
      /\ text[fd[p]] \in Seq(Lines) /\ Tidy(text[fd[p]]) /\ ~Corrupt(text[fd[p]])
      /\ seq[p] \in Nat /\ Recorded(p) = Len(CallsOf(text[fd[p]])) /\ Recorded(p) \in Nat
  BY RewriterOwns, Private, RecordedCalls
     DEF Rewrites, TypeOK, Contents, FilesTidy, Sound, FilesSound, Recorded
<1>2. pc'[p] = "done" => Counted(p)'
  BY DEF Counted, Early
<1>3. ASSUME ResumeRead(p), u = Repair(text[fd[p]]), pc'[p] # "done" PROVE Counted(p)'
  <2>1. /\ pc'[p] = "calls" /\ fd'[p] = fd[p] /\ seq' = seq /\ p \notin Writers
        /\ RecordsOf(text[fd[p]]) # <<>> /\ Early(p)
    BY <1>3, ConstantsOK DEF ResumeRead, Goto, TypeOK, Early, runVars
  <2>2. SameRecords(text[fd[p]], u)
    BY <1>1, <1>3, LinesHoldBodies, RepairedFile
  <2>3. Recorded(p)' = Recorded(p) /\ seq'[p] = 0
    BY <1>1, <2>1, <2>2 DEF Recorded, SameRecords, Sound, Counted
  <2> QED
    BY <1>1, <2>1, <2>2, <2>3 DEF Counted, Early, SameRecords
<1>4. ASSUME NEW record \in NextRecords(p), Write(p, record), u = Put(text[fd[p]], Whole(record))
      PROVE  Counted(p)'
  <2>1. /\ pc'[p] = (IF record = Result THEN "sealed" ELSE "calls") /\ fd'[p] = fd[p]
        /\ seq' = SeqAfter(p, record) /\ pc[p] \in {"header", "calls"}
    BY <1>4 DEF Write, Goto, TypeOK
  <2>2. record \in Bodies /\ IsRecord(record) /\ Appendable(text[fd[p]])
    BY <2>1, RecordsToWrite, LinesHoldBodies, WritableContent
  <2>3. OneMoreRecord(text[fd[p]], u, record)
    BY <1>1, <1>4, <2>2, LinesHoldBodies, WholeWrite
  <2>4. /\ RecordsOf(text[fd[p]]) \in Seq(RecordsIn(Bodies)) /\ record \in RecordsIn(Bodies)
        /\ CallsOf(text[fd[p]]) \in Seq(CallsIn(RecordsIn(Bodies)))
    BY <1>1, <2>2, RecordedCalls DEF RecordsIn
  <2>5. RecordsOf(u) # <<>> /\ Last(RecordsOf(u)) = record
    BY <2>3, <2>4 DEF OneMoreRecord, Last
  <2>6. /\ Recorded(p)' = Recorded(p) + (IF record.type = "call" THEN 1 ELSE 0)
        /\ seq'[p] = seq[p] + (IF record.type = "call" THEN 1 ELSE 0)
    <3>1. Recorded(p)' = Len(CallsOf(u))
      BY <1>1, <2>1 DEF Recorded
    <3>2. CASE record.type = "call"
      <4>1. record \in CallsIn(RecordsIn(Bodies))
        BY <2>4, <3>2 DEF CallsIn
      <4> QED
        BY <1>1, <2>1, <2>3, <2>4, <3>1, <3>2, <4>1 DEF OneMoreRecord, SeqAfter, TypeOK
    <3>3. CASE record.type # "call"
      BY <1>1, <2>1, <2>3, <3>1, <3>3 DEF OneMoreRecord, SeqAfter, TypeOK
    <3> QED
      BY <3>2, <3>3
  <2>7. CASE pc[p] = "header"
    <3>1. p \in Writers
      BY <2>7 DEF Contents, Content, Ownership, Roles, Owning, Procs
    <3>2. text[fd[p]] = <<>> /\ seq[p] = 0
      BY <2>7, <3>1 DEF Contents, Content, Fresh, Sound, Counted, Early
    <3>3. record = Header /\ Recorded(p) = 0
      BY <1>1, <1>4, <2>7, <3>2, CallsOfEmpty DEF NextRecords
    <3>4. pc'[p] = "calls" /\ seq'[p] = 0 /\ Recorded(p)' = 0
      BY <2>1, <2>6, <3>2, <3>3 DEF Header, Result
    <3> QED
      BY <1>1, <2>1, <2>5, <3>4 DEF Counted, Early
  <2>8. CASE pc[p] = "calls"
    <3>1. seq[p] <= Recorded(p) /\ (p \in Writers => seq[p] = Recorded(p))
      BY <2>8 DEF Sound, Counted
    <3>2. seq'[p] <= Recorded(p)' /\ (p \in Writers => seq'[p] = Recorded(p)')
      BY <1>1, <2>6, <3>1
    <3> QED
      BY <1>1, <2>1, <2>5, <3>2 DEF Counted, Early
  <2> QED
    BY <2>1, <2>7, <2>8
<1>5. ASSUME NEW record \in NextRecords(p), u \in Interrupted(text[fd[p]], record),
             WriteFails(p, record)
      PROVE  Counted(p)'
  <2>1. /\ pc'[p] = "mute" /\ fd'[p] = fd[p] /\ due'[p] = record
        /\ pc[p] \in {"header", "calls"}
    BY <1>5 DEF WriteFails, Goto, TypeOK
  <2>2. record \in Bodies /\ IsRecord(record) /\ Appendable(text[fd[p]])
    BY <2>1, RecordsToWrite, LinesHoldBodies, WritableContent
  <2>3. OneMoreRecord(text[fd[p]], Completed(u, record), record)
    BY <1>1, <1>5, <2>2, LinesHoldBodies, InterruptedWrite
  <2>4. Numbered(text[fd[p]]) /\ Fits(text[fd[p]], record)
    BY <1>1, <2>1, NextRecordFits DEF Sound, FilesSound
  <2>5. Numbered(Completed(u, record))
    BY <1>1, <2>3, <2>4, NumberedNext
  <2> QED
    BY <1>1, <2>1, <2>5 DEF Counted, Early
<1>6. CASE Crash(p) \/ CloseMute(p)
  BY <1>2, <1>6 DEF Crash, CloseMute, Goto, TypeOK
<1> QED
  BY <1>2, <1>3, <1>4, <1>5, <1>6 DEF RewritesTo

LEMMA RewritingKeepsSound ==
  ASSUME TypeOK, Ownership, Contents, Sound,
         NEW p \in Procs, NEW u, RewritesTo(p, u), Rewrites(p, u)
  PROVE  Sound'
<1>1. /\ fd[p] \in Inodes /\ ~Corrupt(u) /\ Numbered(u)
      /\ \A i \in Inodes : text'[i] = IF i = fd[p] THEN u ELSE text[i]
  BY RewriterOwns, Private, RewrittenFile, RewrittenIsNumbered DEF Rewrites, TypeOK
<1>2. FilesSound'
  BY <1>1 DEF Sound, FilesSound
<1>3. ASSUME NEW q \in Procs, q # p PROVE Counted(q)'
  <2>1. pc'[q] = pc[q] /\ fd'[q] = fd[q] /\ due'[q] = due[q] /\ seq'[q] = seq[q]
    BY <1>3 DEF Rewrites, Alone
  <2>2. Owns(q) => fd[q] \in Inodes /\ text'[fd[q]] = text[fd[q]]
    BY <1>1, <1>3, RewriterOwns, Private
  <2> QED
    BY <2>1, <2>2 DEF Sound, Counted, Early, Recorded, Owns, Owning
<1> QED
  BY <1>2, <1>3, RewriterCount DEF Sound

LEMMA StillKeepsSound ==
  ASSUME TypeOK, HasFile, Sound, Still
  PROVE  Sound'
<1>1. text' = text /\ \A p \in Procs : Quiet(p)
  BY DEF Still
<1>2. FilesSound'
  BY <1>1 DEF Sound, FilesSound
<1>3. ASSUME NEW p \in Procs PROVE Counted(p)'
  <2>1. Quiet(p) /\ Counted(p)
    BY <1>1 DEF Sound
  <2>2. CASE Stays(p)
    <3>1. Recorded(p)' = Recorded(p) /\ (Early(p)' <=> Early(p))
      BY <1>1, <2>2 DEF Stays, Recorded, Early
    <3>2. CASE seq'[p] = seq[p]
      BY <1>1, <2>1, <2>2, <3>1, <3>2 DEF Stays, Counted
    <3>3. CASE pc[p] \in {"mute", "deaf"}
      BY <1>1, <2>1, <2>2, <3>1, <3>3 DEF Stays, Counted, Early
    <3>4. CASE pc[p] = "calls" /\ seq[p] < Recorded(p) /\ seq'[p] = seq[p] + 1
      <4>1. seq[p] \in Nat /\ Recorded(p) \in Nat
        BY <3>4, RecordedCalls DEF TypeOK, HasFile, Secure, Owning, Recorded
      <4>2. p \notin Writers /\ seq'[p] <= Recorded(p)
        BY <2>1, <3>4, <4>1 DEF Counted
      <4> QED
        BY <1>1, <2>1, <2>2, <3>1, <3>4, <4>2 DEF Stays, Counted, Early
    <3> QED
      BY <2>2, <3>2, <3>3, <3>4 DEF Stays
  <2>3. CASE Fresh(p) /\ Fresh(p)' /\ fd'[p] = fd[p] /\ seq'[p] = seq[p]
    BY <2>1, <2>3, ConstantsOK DEF Counted, Fresh, Early
  <2>4. CASE ~Fresh(p)' /\ pc'[p] \notin Owning /\ (Early(p)' => Early(p) /\ seq'[p] = seq[p])
    BY <2>1, <2>4 DEF Counted, Owning
  <2> QED
    BY <2>1, <2>2, <2>3, <2>4 DEF Quiet
<1> QED
  BY <1>2, <1>3 DEF Sound

LEMMA ClaimKeepsSound ==
  ASSUME TypeOK, Sound, NEW p \in Procs, NEW r \in Runs, NEW i \in Inodes, Claim(p, r, i)
  PROVE  Sound'
<1>1. /\ p \in Writers /\ p \notin Resumers /\ pc[p] = "idle"
      /\ \A q \in Procs : fd[q] # i
      /\ text' = [text EXCEPT ![i] = <<>>] /\ fd' = [fd EXCEPT ![p] = i]
      /\ due' = due /\ seq' = seq
      /\ pc'[p] \in {"lock", "header"} /\ \A q \in Procs \ {p} : pc'[q] = pc[q]
  BY ConstantsOK DEF Claim, Unreferenced, Goto, TypeOK, runVars
<1>2. FilesSound'
  BY <1>1, EmptyFile, EmptyIsNumbered DEF Sound, FilesSound, TypeOK
<1>3. ASSUME NEW q \in Procs, q # p PROVE Counted(q)'
  <2>1. /\ pc'[q] = pc[q] /\ fd'[q] = fd[q] /\ fd[q] # i
    BY <1>1, <1>3 DEF TypeOK
  <2>2. text'[fd[q]] = text[fd[q]]
    BY <1>1, <2>1 DEF TypeOK
  <2> QED
    BY <1>1, <2>1, <2>2 DEF Sound, Counted, Early, Recorded
<1>4. Counted(p)'
  BY <1>1 DEF Sound, Counted, Early
<1> QED
  BY <1>2, <1>3, <1>4 DEF Sound

LEMMA RetainingKeepsSound ==
  ASSUME TypeOK, Sound, NEW p \in Procs, GcRetain(p)
  PROVE  Sound'
<1>1. /\ pc' = [pc EXCEPT ![p] = "scan"] /\ fd' = [fd EXCEPT ![p] = None]
      /\ text' = text /\ due' = due /\ seq' = seq
  BY DEF GcRetain, Goto, fileVars, runVars
<1>2. ASSUME NEW q \in Procs PROVE Counted(q)'
  BY <1>1 DEF Sound, Counted, Early, Recorded, TypeOK
<1> QED
  BY <1>1, <1>2 DEF Sound, FilesSound

LEMMA NextSound == TypeOK /\ Ownership /\ Contents /\ Sound /\ [Next]_vars => Sound'
<1> SUFFICES ASSUME TypeOK, Ownership, Contents, Sound, [Next]_vars PROVE Sound'
  OBVIOUS
<1>1. HasFile /\ Roles
  BY DEF Ownership
<1>2. ASSUME NEW p \in Procs, NEW r \in Runs, NEW i \in Inodes, Claim(p, r, i) PROVE Sound'
  BY <1>2, ClaimKeepsSound
<1>3. ASSUME NEW p \in Procs, GcRetain(p) PROVE Sound'
  BY <1>3, RetainingKeepsSound
<1>4. ASSUME NEW p \in Procs, NEW u, RewritesTo(p, u), Rewrites(p, u) PROVE Sound'
  BY <1>4, RewritingKeepsSound
<1> QED
  BY <1>1, <1>2, <1>3, <1>4, StepKinds, StillKeepsSound

LEMMA SoundIsWellFormed == Sound => JournalsWellFormed
BY DEF Sound, FilesSound, Numbered, Counted, JournalsWellFormed, Procs

\* When earlier runs left sound journals (such as CleanSeeds of MCJournalStore: empty or
\* torn claims, crashes after and within a call, a finished run), every journal stays
\* one header and then calls 0, 1, 2, ..., whoever crashes, resumes, repairs and
\* flushes in whatever order; and a run that recorded its result has all its calls.
THEOREM JournalsStayWellFormed == SoundSeeds => (Spec => []JournalsWellFormed)
<1> SUFFICES ASSUME SoundSeeds PROVE Spec => []JournalsWellFormed
  OBVIOUS
<1>1. Init => Sound
  BY InitSound
<1>2. TypeOK /\ Ownership /\ Contents /\ Sound /\ [Next]_vars => Sound'
  BY NextSound
<1> QED
  BY <1>1, <1>2, SoundIsWellFormed, TypeCorrect, OwnershipHolds, ContentsHold, PTL DEF Spec
================================================================================
