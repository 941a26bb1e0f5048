--------------------------- MODULE JournaledRun_proofs -------------------------
(***************************************************************************)
(* Proofs about JournaledRun, for any settings, answers, agents, rounds    *)
(* and number of invocations: a resumed debate asks what the journal holds *)
(* and pays for none of it, the journal explains the debate, a recorded    *)
(* verdict is reached again without a call, and a run can be gone on with  *)
(* by its identifier alone.                                                *)
(***************************************************************************)
EXTENDS JournaledRun, Debate_proofs, JournalFile_proofs

-----------------------------------------------------------------------------
(* The journal file of one run.                                            *)

N == AgentsCount

Prompts       == [round : Nat, agent : Nat, positions : Seq(Stances)]
CallRecords   == [type : {"call"}, seq : Nat, prompt : Prompts, answer : Responses]
ResultRecords == [type : {"result"}, status : {"unanimous", "no_consensus", "aborted"}]

\* What a line of a journal with a given header may hold.
BodiesOf(header) == {Torn, Scalar, Blank, header} \cup CallRecords \cup ResultRecords

FilesOf(header) == Seq(LinesOver(BodiesOf(header)))

IsHeader(header) == header.type = "header"

\* The stances of a round, and whether they agree.
Agreed(stances) ==
  \A a \in 1..N : Norm[stances[a]] = Norm[stances[1]] /\ Norm[stances[a]] # EmptyNorm

\* Those recorded of the round that ends with record number `last`.
Shown(records, last) == [a \in 1..N |-> records[last - N + a].answer.stance]

\* The k-th record is the call of that round and agent, numbered k - 1, which shows
\* the stances recorded of the round before; a round follows no agreement.
Placed(records, k) ==
  LET prompt == records[k].prompt IN
  /\ records[k].seq = k - 1
  /\ prompt.round \in 0..MaxRounds /\ prompt.agent \in 1..N
  /\ k = prompt.round * N + prompt.agent
  /\ prompt.round = 0 => prompt.positions = <<>>
  /\ prompt.round # 0 => /\ prompt.positions = Shown(records, prompt.round * N)
                         /\ ~Agreed(prompt.positions)

InSequence(records) == \A k \in DOMAIN records : Placed(records, k)

\* The header comes first.
Headed(header, t) ==
  /\ RecordsOf(t) # <<>> => RecordsOf(t)[1] = header
  /\ RecordsOf(t) = <<>> => CallsOf(t) = <<>>

Journal(header, t) ==
  /\ t \in FilesOf(header) /\ Tidy(t) /\ ~Corrupt(t)
  /\ Headed(header, t) /\ InSequence(CallsOf(t))

\* A record that may come next.
Fits(header, t, record) ==
  /\ record \in BodiesOf(header) /\ IsRecord(record)
  /\ \/ record = header /\ RecordsOf(t) = <<>>
     \/ record.type = "result" /\ RecordsOf(t) # <<>>
     \/ record.type = "call" /\ RecordsOf(t) # <<>> /\ InSequence(Append(CallsOf(t), record))

LEMMA RecordsHaveTypes ==
  ASSUME NEW header, IsHeader(header)
  PROVE  /\ IsRecord(header) /\ Torn \in BodiesOf(header) /\ header \in BodiesOf(header)
         /\ \A body \in BodiesOf(header) :
              /\ IsRecord(body) \/ body \in {Torn, Scalar, Blank}
              /\ body.type = "call" => body \in CallRecords
              /\ body.type = "header" => body = header
BY DEF IsHeader, IsRecord, RecordTypes, BodiesOf, Torn, Scalar, Blank, CallRecords, ResultRecords

LEMMA CallsAreCalls ==
  ASSUME NEW header, IsHeader(header), NEW t \in FilesOf(header)
  PROVE  /\ CallsOf(t) \in Seq(CallRecords) /\ Len(CallsOf(t)) \in Nat
         /\ RecordsOf(t) \in Seq(RecordsIn(BodiesOf(header)))
<1>1. /\ CallsOf(t) \in Seq(CallsIn(RecordsIn(BodiesOf(header))))
      /\ RecordsOf(t) \in Seq(RecordsIn(BodiesOf(header)))
  BY CallsOfType, RecordsOfType DEF FilesOf
<1>2. CallsIn(RecordsIn(BodiesOf(header))) \subseteq CallRecords
  BY RecordsHaveTypes DEF CallsIn, RecordsIn
<1> QED
  BY <1>1, <1>2

\* One more record keeps the header first and the calls in sequence.
LEMMA OneMoreFits ==
  ASSUME NEW header, IsHeader(header), NEW t, Journal(header, t), NEW record,
         Fits(header, t, record), NEW u, OneMoreRecord(t, u, record)
  PROVE  Headed(header, u) /\ InSequence(CallsOf(u)) /\ RecordsOf(u) # <<>>
<1>1. /\ RecordsOf(u) = Append(RecordsOf(t), record)
      /\ CallsOf(u) = IF record.type = "call" THEN Append(CallsOf(t), record) ELSE CallsOf(t)
  BY DEF OneMoreRecord
<1>2. /\ RecordsOf(t) \in Seq(RecordsIn(BodiesOf(header)))
      /\ record \in RecordsIn(BodiesOf(header))
  BY CallsAreCalls DEF Journal, Fits, RecordsIn
<1>3. RecordsOf(u) # <<>> /\ (RecordsOf(t) # <<>> => RecordsOf(u)[1] = RecordsOf(t)[1])
      /\ (RecordsOf(t) = <<>> => RecordsOf(u)[1] = record)
  <2> DEFINE r == RecordsOf(t)
  <2>1. r \in Seq(RecordsIn(BodiesOf(header))) /\ RecordsOf(u) = Append(r, record)
    BY <1>1, <1>2
  <2> HIDE DEF r
  <2>2. RecordsOf(u) # <<>> /\ (r # <<>> => RecordsOf(u)[1] = r[1])
        /\ (r = <<>> => RecordsOf(u)[1] = record)
    BY <1>2, <2>1
  <2> QED
    BY <2>2 DEF r
<1>4. Headed(header, t) /\ InSequence(CallsOf(t))
  BY DEF Journal
<1>5. RecordsOf(t) = <<>> => record = header
  BY DEF Fits
<1>6. Headed(header, u)
  BY <1>3, <1>4, <1>5 DEF Headed
<1>7. InSequence(CallsOf(u))
  BY <1>1, <1>4 DEF Fits, IsHeader
<1> QED
  BY <1>3, <1>6, <1>7

LEMMA SameFits ==
  ASSUME NEW header, NEW t, Journal(header, t), NEW u, SameRecords(t, u)
  PROVE  Headed(header, u) /\ InSequence(CallsOf(u))
BY DEF Journal, Headed, SameRecords

-----------------------------------------------------------------------------
(* Writes, flushes and repairs of a run's journal.                         *)

\* The calls of a file, or these and one more.
AtMostOneMore(t, u, record) ==
  \/ CallsOf(u) = CallsOf(t)
  \/ record.type = "call" /\ CallsOf(u) = Append(CallsOf(t), record)

\* What a failed write left in the buffer may still reach the file.
Awaiting(header, t, record) ==
  /\ record \in BodiesOf(header) /\ IsRecord(record) /\ Awaits(t, record)
  /\ Headed(header, Completed(t, record)) /\ InSequence(CallsOf(Completed(t, record)))
  /\ AtMostOneMore(t, Completed(t, record), record)

LEMMA WholeKeepsJournal ==
  ASSUME NEW header, IsHeader(header), NEW t, Journal(header, t), Appendable(t),
         NEW record, Fits(header, t, record), NEW u, u = Put(t, Whole(record))
  PROVE  Journal(header, u) /\ Appendable(u) /\ RecordsOf(u) # <<>> /\ OneMoreRecord(t, u, record)
<1>1. /\ u \in FilesOf(header) /\ Tidy(u) /\ ~Corrupt(u) /\ ~OpenTail(u)
      /\ OneMoreRecord(t, u, record)
  <2>1. record \in BodiesOf(header) /\ IsRecord(record)
    BY DEF Fits
  <2> QED
    BY <2>1, WholeWrite DEF Journal, FilesOf
<1>2. Headed(header, u) /\ InSequence(CallsOf(u)) /\ RecordsOf(u) # <<>>
  BY <1>1, OneMoreFits
<1> QED
  BY <1>1, <1>2 DEF Journal, Appendable

LEMMA InterruptedKeepsJournal ==
  ASSUME NEW header, IsHeader(header), NEW t, Journal(header, t), Appendable(t),
         NEW record, Fits(header, t, record), NEW u \in Interrupted(t, record)
  PROVE  Journal(header, u) /\ Awaiting(header, u, record) /\ AtMostOneMore(t, u, record)
<1>1. record \in BodiesOf(header) /\ IsRecord(record) /\ Torn \in BodiesOf(header)
  BY RecordsHaveTypes DEF Fits
<1>2. /\ u \in FilesOf(header) /\ Tidy(u) /\ ~Corrupt(u) /\ Awaits(u, record)
      /\ SameRecords(t, u) \/ OneMoreRecord(t, u, record)
      /\ OneMoreRecord(t, Completed(u, record), record)
  BY <1>1, InterruptedWrite DEF Journal, FilesOf
<1>3. Headed(header, Completed(u, record)) /\ InSequence(CallsOf(Completed(u, record)))
  BY <1>2, OneMoreFits
<1>4. Headed(header, u) /\ InSequence(CallsOf(u))
  BY <1>2, OneMoreFits, SameFits
<1>5. AtMostOneMore(t, u, record) /\ AtMostOneMore(u, Completed(u, record), record)
  BY <1>2 DEF AtMostOneMore, SameRecords, OneMoreRecord
<1> QED
  BY <1>1, <1>2, <1>3, <1>4, <1>5 DEF Journal, Awaiting

LEMMA FlushKeepsJournal ==
  ASSUME NEW header, IsHeader(header), NEW t, Journal(header, t),
         NEW record, Awaiting(header, t, record)
  PROVE  Journal(header, Completed(t, record))
<1>1. /\ Completed(t, record) \in FilesOf(header) /\ Tidy(Completed(t, record))
      /\ ~Corrupt(Completed(t, record))
  BY LateFlush DEF Journal, Awaiting, FilesOf
<1> QED
  BY <1>1 DEF Journal, Awaiting

LEMMA RepairKeepsJournal ==
  ASSUME NEW header, IsHeader(header), NEW t, Journal(header, t)
  PROVE  /\ Journal(header, Repair(t)) /\ Appendable(Repair(t)) /\ SameRecords(t, Repair(t))
<1>1. \A body \in BodiesOf(header) : IsRecord(body) \/ body \in {Torn, Scalar, Blank}
  BY RecordsHaveTypes
<1>2. /\ Repair(t) \in FilesOf(header) /\ Tidy(Repair(t)) /\ ~Corrupt(Repair(t))
      /\ Appendable(Repair(t)) /\ SameRecords(t, Repair(t))
  BY <1>1, RepairedFile DEF Journal, FilesOf
<1> QED
  BY <1>2, SameFits DEF Journal

LEMMA NoFileIsJournal ==
  ASSUME NEW header
  PROVE  Journal(header, <<>>) /\ RecordsOf(<<>>) = <<>> /\ CallsOf(<<>>) = <<>>
<1>1. RecordsOf(<<>>) = <<>> /\ CallsOf(<<>>) = <<>>
  BY RecordsOfEmpty, CallsOfEmpty
<1>2. InSequence(<<>>) /\ <<>> \in FilesOf(header)
  BY DEF InSequence, FilesOf
<1> QED
  BY <1>1, <1>2, EmptyFile DEF Journal, Headed

-----------------------------------------------------------------------------
(* The file of an invocation.                                              *)

FileInv ==
  /\ Journal(Header, text)
  /\ stage \in {"debate", "close", "down"} /\ journal \in {"unopened", "writing", "mute"}
  /\ stage # "down" /\ journal = "unopened" => text = <<>>
  /\ stage = "debate" /\ journal = "writing" => Appendable(text) /\ RecordsOf(text) # <<>>
  /\ stage = "down" \/ journal # "mute" => due = {}
  /\ \A record \in due : Awaiting(Header, text, record)

LEMMA HeaderIsHeader == IsHeader(Header)
BY DEF IsHeader, Header

LEMMA OpenedFile ==
  ASSUME FileInv, stage = "debate", journal # "mute"
  PROVE  /\ Journal(Header, Opened) /\ Appendable(Opened) /\ RecordsOf(Opened) # <<>>
         /\ CallsOf(Opened) = CallsOf(text)
<1>1. CASE journal = "writing"
  BY <1>1 DEF FileInv, Opened
<1>2. CASE journal = "unopened"
  <2> DEFINE header == Header
  <2>1. text = <<>> /\ IsHeader(header)
    BY <1>2, HeaderIsHeader DEF FileInv
  <2>2. Opened = Put(<<>>, Whole(header))
    BY <1>2, <2>1 DEF Opened, Put, OpenTail
  <2> HIDE DEF header
  <2>3. Journal(header, <<>>) /\ Appendable(<<>>) /\ RecordsOf(<<>>) = <<>> /\ CallsOf(<<>>) = <<>>
    BY NoFileIsJournal, EmptyFile
  <2>4. Fits(header, <<>>, header)
    BY <2>1, <2>3, RecordsHaveTypes DEF Fits
  <2>5. /\ Journal(header, Opened) /\ Appendable(Opened) /\ RecordsOf(Opened) # <<>>
        /\ OneMoreRecord(<<>>, Opened, header)
    BY <2>1, <2>2, <2>3, <2>4, WholeKeepsJournal
  <2>6. CallsOf(Opened) = CallsOf(text)
    BY <2>1, <2>5 DEF OneMoreRecord, IsHeader
  <2> QED
    BY <2>5, <2>6 DEF header
<1> QED
  BY <1>1, <1>2 DEF FileInv

\* What is known after an append, whole or failed or ignored.
Appended(record) ==
  /\ Journal(Header, text') /\ journal' \in {"writing", "mute"}
  /\ journal' = "writing" =>
       /\ journal # "mute" /\ Appendable(text') /\ RecordsOf(text') # <<>> /\ due' = {}
       /\ CallsOf(text') = IF record.type = "call" THEN Append(CallsOf(text), record)
                           ELSE CallsOf(text)
  /\ \A entry \in due' : Awaiting(Header, text', entry)
  /\ AtMostOneMore(text, text', record)

LEMMA AppendKeepsFile ==
  ASSUME FileInv, stage = "debate", NEW record, journal # "mute" => Fits(Header, Opened, record),
         JournalAppend(record)
  PROVE  Appended(record)
<1> DEFINE header == Header
<1>1. IsHeader(header) /\ Journal(header, text)
  BY HeaderIsHeader DEF FileInv
<1>2. journal # "mute" =>
        /\ Journal(header, Opened) /\ Appendable(Opened) /\ RecordsOf(Opened) # <<>>
        /\ CallsOf(Opened) = CallsOf(text) /\ Fits(header, Opened, record) /\ due = {}
  BY OpenedFile DEF FileInv
<1>3. journal = "unopened" => text = <<>>
  BY DEF FileInv
<1>4. \A entry \in due : Awaiting(header, text, entry)
  BY DEF FileInv
<1>5. ASSUME AppendWorks(record) PROVE Appended(record)
  <2>1. journal # "mute" /\ text' = Put(Opened, Whole(record)) /\ journal' = "writing" /\ due' = due
    BY <1>5 DEF AppendWorks
  <2> HIDE DEF header
  <2>2. /\ Journal(header, text') /\ Appendable(text') /\ RecordsOf(text') # <<>>
        /\ OneMoreRecord(Opened, text', record)
    BY <1>1, <1>2, <2>1, WholeKeepsJournal
  <2>3. CallsOf(text') = IF record.type = "call" THEN Append(CallsOf(text), record)
                         ELSE CallsOf(text)
    BY <1>2, <2>1, <2>2 DEF OneMoreRecord
  <2> QED
    BY <1>2, <2>1, <2>2, <2>3 DEF Appended, AtMostOneMore, header
<1>6. ASSUME AppendFails(record) PROVE Appended(record)
  <2>1. journal # "mute" /\ journal' = "mute"
    BY <1>6 DEF AppendFails
  <2>2. CASE text' \in Interrupted(Opened, record) /\ due' = {record}
    <3> HIDE DEF header
    <3>1. /\ Journal(header, text') /\ Awaiting(header, text', record)
          /\ AtMostOneMore(Opened, text', record)
      BY <1>1, <1>2, <2>1, <2>2, InterruptedKeepsJournal
    <3>2. AtMostOneMore(text, text', record)
      BY <1>2, <2>1, <3>1 DEF AtMostOneMore
    <3> QED
      BY <2>1, <2>2, <3>1, <3>2 DEF Appended, header
  <2>3. CASE journal = "unopened" /\ text' \in Interrupted(text, Header) /\ due' = {Header}
    <3>1. text = <<>> /\ due' = {header} /\ text' \in Interrupted(text, header)
      BY <1>3, <2>3
    <3> HIDE DEF header
    <3>2. Journal(header, <<>>) /\ Appendable(<<>>) /\ RecordsOf(<<>>) = <<>>
      BY NoFileIsJournal, EmptyFile
    <3>3. Fits(header, text, header)
      BY <1>1, <3>1, <3>2, RecordsHaveTypes DEF Fits
    <3>4. /\ Journal(header, text') /\ Awaiting(header, text', header)
          /\ AtMostOneMore(text, text', header)
      BY <1>1, <3>1, <3>2, <3>3, InterruptedKeepsJournal
    <3>5. CallsOf(text') = CallsOf(text)
      BY <1>1, <3>4 DEF AtMostOneMore, IsHeader
    <3> QED
      BY <2>1, <3>1, <3>4, <3>5 DEF Appended, AtMostOneMore, header
  <2>4. CASE UNCHANGED <<text, due>>
    BY <1>1, <1>4, <2>1, <2>4 DEF Appended, AtMostOneMore
  <2> QED
    BY <1>6, <2>2, <2>3, <2>4 DEF AppendFails
<1>7. ASSUME AppendIgnored PROVE Appended(record)
  BY <1>1, <1>4, <1>7 DEF AppendIgnored, Appended, AtMostOneMore, file
<1> QED
  BY <1>5, <1>6, <1>7 DEF JournalAppend

-----------------------------------------------------------------------------
(* The calls of a debate, one after the other.                             *)

\* A call is known by its round and its agent.
LEMMA PlaceIsUnique ==
  ASSUME NEW r \in Nat, NEW q \in Nat, NEW a \in 1..N, NEW b \in 1..N,
         r * N + a = q * N + b
  PROVE  r = q /\ a = b
<1>1. N \in Nat /\ r * N \in Nat /\ q * N \in Nat
  BY CountsAreNaturals DEF N
<1>2. \A x \in Nat, y \in Nat : x < y => x * N + N <= y * N
  <2> SUFFICES ASSUME NEW x \in Nat, NEW y \in Nat, x < y PROVE x * N + N <= y * N
    OBVIOUS
  <2>1. x + 1 <= y /\ x + 1 \in Nat
    OBVIOUS
  <2>2. (x + 1) * N <= y * N
    BY <1>1, <2>1, FewerAnswers
  <2>3. (x + 1) * N = x * N + N
    BY <1>1
  <2> QED
    BY <2>2, <2>3
<1>3. ~(r < q)
  <2>1. r < q => r * N + N <= q * N
    BY <1>2
  <2> QED
    BY <1>1, <2>1
<1>4. ~(q < r)
  <2>1. q < r => q * N + N <= r * N
    BY <1>2
  <2> QED
    BY <1>1, <2>1
<1>5. r = q
  BY <1>3, <1>4
<1> QED
  BY <1>1, <1>5

\* The positions of the closed rounds and of the open one.
Closed     == FlattenSeq(transcript)
Positioned == Closed \o results

\* N positions a round, and those of the last one at the end.
Layout ==
  /\ Len(Closed) = Len(transcript) * N
  /\ transcript # <<>> => \A a \in 1..N : Closed[Len(Closed) - N + a] = current[a]

\* The calls that have returned an answer.
AnswersIn == Len(Positioned) + (IF pc = "returned" THEN 1 ELSE 0)

LEMMA PositionedType ==
  ASSUME DebateInv
  PROVE  /\ Closed \in Seq(Positional) /\ results \in Seq(Positional)
         /\ Positioned \in Seq(Positional)
         /\ Len(Closed) \in Nat /\ Len(results) \in Nat
         /\ Len(Positioned) = Len(Closed) + Len(results)
<1>1. Closed \in Seq(Positional) /\ results \in Seq(Positional)
  BY FlattenType DEF DebateInv, Typed, Closed
<1> QED
  BY <1>1, ConcatProperties DEF Positioned

\* What a step that is not a call does to the positions.
EngineEffect ==
  \/ Positioned' = Positioned /\ pc' # "returned" /\ (pc = "returned" => pc' = "done")
  \/ UNCHANGED <<pc, raw, results, transcript, round>>
  \/ /\ pc = "returned" /\ pc' = "accepted" /\ results' # <<>>
     /\ Positioned' = Append(Positioned, Position(Len(results) + 1, raw))

LEMMA SamePositions ==
  ASSUME Layout, UNCHANGED <<transcript, current, results>>
  PROVE  Layout' /\ Positioned' = Positioned
BY DEF Layout, Positioned, Closed

LEMMA EngineKeepsLayout ==
  ASSUME DebateInv, Layout, Engine \/ Tick
  PROVE  Layout' /\ EngineEffect
<1>1. CASE Tick
  BY <1>1, SamePositions DEF Tick, debate, EngineEffect
<1>2. CASE CheckBefore \/ CheckAfter \/ JudgeRound \/ NextRound \/ Agree \/ Disagree
  <2>1. UNCHANGED <<transcript, current, results>> /\ pc # "returned" /\ pc' # "returned"
    BY <1>2
       DEF CheckBefore, CheckAfter, JudgeRound, NextRound, Agree, Disagree, Abort, Finish, Goto
  <2> QED
    BY <2>1, SamePositions DEF EngineEffect
<1>3. CASE TakeLateAnswer
  <2>1. UNCHANGED <<transcript, current, results>> /\ pc' = "done"
    BY <1>3 DEF TakeLateAnswer, Abort, Finish, Goto
  <2> QED
    BY <2>1, SamePositions DEF EngineEffect
<1>4. CASE TakeAnswer
  <2>1. CASE Acceptable(Len(results) + 1, raw)
    <3> DEFINE new == Position(Len(results) + 1, raw)
    <3>1. /\ UNCHANGED <<transcript, current>> /\ pc = "returned" /\ pc' = "accepted"
          /\ results' = Append(results, new)
      BY <1>4, <2>1 DEF TakeAnswer, Goto
    <3>2. /\ Closed \in Seq(Positional) /\ results \in Seq(Positional) /\ new \in Positional
      <4>1. Len(results) + 1 \in 1..AgentsCount /\ raw \in ResponseType
        BY <3>1, PositionedType, CountsAreNaturals DEF DebateInv, Typed, OpenRound, Gathering
      <4> QED
        BY <4>1, PositionType, PositionedType
    <3>3. Layout'
      BY <3>1 DEF Layout, Closed
    <3>4. Positioned' = Append(Positioned, new) /\ results' # <<>>
      <4>1. Positioned' = Closed \o Append(results, new)
        BY <3>1 DEF Positioned, Closed
      <4>2. Closed \o Append(results, new) = Append(Closed \o results, new)
        <5> HIDE DEF new
        <5>1. \A c \in Seq(Positional), r \in Seq(Positional) :
                c \o Append(r, new) = Append(c \o r, new)
          BY <3>2
        <5> QED
          BY <3>2, <5>1
      <4>3. Append(results, new) # <<>>
        <5> HIDE DEF new
        <5> QED
          BY <3>2
      <4> QED
        BY <3>1, <4>1, <4>2, <4>3 DEF Positioned
    <3> QED
      BY <3>1, <3>3, <3>4 DEF EngineEffect
  <2>2. CASE ~Acceptable(Len(results) + 1, raw)
    <3>1. UNCHANGED <<transcript, current, results>> /\ pc' = "done"
      BY <1>4, <2>2 DEF TakeAnswer, Raise, Goto
    <3> QED
      BY <3>1, SamePositions DEF EngineEffect
  <2> QED
    BY <2>1, <2>2
<1>5. CASE CloseRound
  <2>1. /\ pc = "close" /\ pc' = "judge" /\ current' = results /\ results' = <<>>
        /\ transcript' = Append(transcript, results)
    BY <1>5 DEF CloseRound, Goto
  <2>2. /\ transcript \in Seq(Seq(Positional)) /\ results \in Seq(Positional)
        /\ Len(results) = N /\ N \in Nat /\ Len(transcript) \in Nat
    BY <2>1, CountsAreNaturals DEF DebateInv, Typed, OpenRound, Gathering, N
  <2>3. Closed' = Closed \o results
    BY <2>1, <2>2, FlattenAppend DEF Closed
  <2>4. /\ Closed \in Seq(Positional) /\ Len(Closed) = Len(transcript) * N
        /\ Len(Closed') = Len(Closed) + N /\ Len(Closed) \in Nat
        /\ \A a \in 1..N : Closed'[Len(Closed) + a] = results[a]
    <3>1. Closed \in Seq(Positional) /\ Len(Closed) = Len(transcript) * N /\ Len(Closed) \in Nat
      BY PositionedType DEF Layout
    <3>2. /\ Len(Closed \o results) = Len(Closed) + Len(results)
          /\ \A i \in 1..(Len(Closed) + Len(results)) : (Closed \o results)[i] =
               IF i <= Len(Closed) THEN Closed[i] ELSE results[i - Len(Closed)]
      BY <2>2, <3>1, ConcatProperties
    <3>3. ASSUME NEW a \in 1..N PROVE Closed'[Len(Closed) + a] = results[a]
      <4>1. /\ Len(Closed) + a \in 1..(Len(Closed) + Len(results))
            /\ ~(Len(Closed) + a <= Len(Closed)) /\ (Len(Closed) + a) - Len(Closed) = a
        BY <2>2, <3>1
      <4> QED
        BY <2>3, <3>2, <4>1
    <3> QED
      BY <2>2, <2>3, <3>1, <3>2, <3>3
  <2>5. Len(transcript') = Len(transcript) + 1
    BY <2>1, <2>2
  <2>6. Len(Closed') = Len(transcript') * N
    <3>1. (Len(transcript) + 1) * N = Len(transcript) * N + N
      BY <2>2
    <3> QED
      BY <2>4, <2>5, <3>1
  <2>7. \A a \in 1..N : Closed'[Len(Closed') - N + a] = current'[a]
    <3>1. Len(Closed') - N = Len(Closed)
      BY <2>2, <2>4
    <3> QED
      BY <2>1, <2>4, <3>1
  <2>8. N' = N
    BY DEF N
  <2>9. Positioned' = Positioned
    <3>1. Closed \o results \in Seq(Positional)
      BY <2>2, <2>4, ConcatProperties
    <3>2. (Closed \o results) \o <<>> = Closed \o results
      BY <3>1, ConcatEmptySeq
    <3> QED
      BY <2>1, <2>3, <3>2 DEF Positioned
  <2> QED
    BY <2>1, <2>6, <2>7, <2>8, <2>9 DEF Layout, EngineEffect
<1> QED
  BY <1>1, <1>2, <1>3, <1>4, <1>5 DEF Engine

-----------------------------------------------------------------------------
(* Records in their places.                                                *)

LEMMA RoundsFit ==
  ASSUME NEW r \in Nat, r # 0
  PROVE  N \in Nat /\ r * N \in Nat /\ N <= r * N
<1>1. N \in Nat
  BY CountsAreNaturals DEF N
<1>2. 1 * N <= r * N /\ 1 * N = N /\ r * N \in Nat
  <2>1. 1 <= r
    OBVIOUS
  <2> QED
    BY <1>1, <2>1, FewerAnswers
<1> QED
  BY <1>1, <1>2

\* A further record does not change what the earlier ones show.
LEMMA ShownOfMore ==
  ASSUME NEW records \in Seq(CallRecords), NEW record, NEW r \in Nat, r # 0,
         r * N <= Len(records)
  PROVE  Shown(Append(records, record), r * N) = Shown(records, r * N)
<1>1. N \in Nat /\ r * N \in Nat /\ N <= r * N /\ Len(records) \in Nat
  BY RoundsFit
<1>2. ASSUME NEW a \in 1..N
      PROVE  Append(records, record)[r * N - N + a] = records[r * N - N + a]
  <2> DEFINE k == r * N - N + a
  <2>1. k \in 1..Len(records)
    <3> DEFINE m == r * N
    <3>1. m \in Nat /\ N <= m /\ m <= Len(records) /\ k = m - N + a
      BY <1>1
    <3> HIDE DEF m, k
    <3> QED
      BY <1>1, <3>1
  <2> HIDE DEF k
  <2>2. Append(records, record)[k] = records[k]
    BY <2>1
  <2> QED
    BY <2>2 DEF k
<1> QED
  BY <1>2 DEF Shown

LEMMA OneMoreInSequence ==
  ASSUME NEW records \in Seq(CallRecords), InSequence(records), NEW record \in CallRecords,
         Placed(Append(records, record), Len(records) + 1)
  PROVE  InSequence(Append(records, record))
<1> DEFINE more == Append(records, record)
<1>1. DOMAIN more = 1..(Len(records) + 1) /\ Len(records) \in Nat
      /\ \A k \in 1..Len(records) : more[k] = records[k]
  OBVIOUS
<1>2. ASSUME NEW k \in 1..Len(records) PROVE Placed(more, k)
  <2> DEFINE prompt == records[k].prompt
  <2>1. Placed(records, k) /\ more[k] = records[k]
    BY <1>1 DEF InSequence
  <2>2. /\ prompt.round \in Nat /\ prompt.agent \in 1..N
        /\ k = prompt.round * N + prompt.agent
    BY <2>1, CountsAreNaturals DEF Placed
  <2>3. prompt.round * N \in Nat /\ prompt.round * N <= Len(records)
    <3>1. N \in Nat /\ prompt.round * N \in Nat
      BY <2>2, CountsAreNaturals DEF N
    <3> HIDE DEF prompt
    <3> QED
      BY <1>1, <2>2, <3>1
  <2>4. prompt.round # 0 => Shown(more, prompt.round * N) = Shown(records, prompt.round * N)
    <3> HIDE DEF prompt
    <3> QED
      BY <2>2, <2>3, ShownOfMore
  <2> HIDE DEF more
  <2> QED
    BY <2>1, <2>4 DEF Placed
<1> HIDE DEF more
<1>3. \A k \in DOMAIN more : k \in 1..Len(records) \/ k = Len(records) + 1
  BY <1>1
<1> QED
  BY <1>2, <1>3 DEF InSequence, more

-----------------------------------------------------------------------------
(* The debate and the journal.                                             *)

Recorded == CallsOf(text)

\* The answers recorded up to a call.
AnswersOf(records, upto) == [k \in 1..upto |-> records[k].answer]

\* The journal explains the accepted positions and the answer that has come in.
Explained ==
  /\ Len(Positioned) <= Len(Recorded)
  /\ \A k \in DOMAIN Positioned :
       /\ Positioned[k].stance = Recorded[k].answer.stance
       /\ Positioned[k].agent = Recorded[k].prompt.agent
  /\ pc = "returned" =>
       /\ seq \in DOMAIN Recorded
       /\ Recorded[seq].answer.stance = raw.stance
       /\ Recorded[seq].prompt.agent = Len(results) + 1

\* It accounts for what this invocation and those before it paid.
Paid == seq <= Len(Recorded) /\ billed + replayed = TokensOf(AnswersOf(Recorded, seq))

\* How far the debate, the replay and the journal have come.
Counted ==
  /\ seq \in Nat /\ replayed \in Nat /\ replaying \in BOOLEAN /\ loaded \in Seq(CallRecords)
  /\ pc # "done" => seq = AnswersIn
  /\ replaying => journal = "writing" /\ loaded = Recorded /\ seq <= Len(loaded)
  /\ ~replaying => Len(loaded) <= seq /\ Len(Recorded) <= seq
  /\ ~replaying /\ journal # "mute" => Len(Recorded) = seq

Sync == AccountInv /\ Layout /\ Counted /\ (journal # "mute" => Explained /\ Paid)

LEMMA RecordedType ==
  ASSUME FileInv
  PROVE  Recorded \in Seq(CallRecords) /\ Len(Recorded) \in Nat /\ InSequence(Recorded)
<1> DEFINE header == Header
<1>1. IsHeader(header) /\ Journal(header, text)
  BY HeaderIsHeader DEF FileInv
<1> HIDE DEF header
<1> QED
  BY <1>1, CallsAreCalls DEF Recorded, Journal

\* The call in question is that of the next agent of the open round.
LEMMA CallPlace ==
  ASSUME Sync, pc = "call"
  PROVE  /\ round \in 0..MaxRounds /\ Len(results) + 1 \in 1..N /\ round * N \in Nat
         /\ Len(Closed) = round * N /\ seq = Len(Positioned)
         /\ seq = round * N + Len(results)
<1>1. /\ round \in 0..MaxRounds /\ results \in Seq(Positional)
      /\ Len(transcript) = round /\ Len(results) < N
  BY DEF Sync, AccountInv, DebateInv, Typed, OpenRound, Gathering, N
<1>2. /\ Len(Closed) = round * N /\ seq = Len(Positioned) + 0
  BY <1>1 DEF Sync, Layout, Counted, AnswersIn
<1>3. /\ Len(Closed) \in Nat /\ Len(results) \in Nat
      /\ Len(Positioned) = Len(Closed) + Len(results)
  BY PositionedType DEF Sync, AccountInv
<1>4. N \in Nat
  BY CountsAreNaturals DEF N
<1> QED
  BY <1>1, <1>2, <1>3, <1>4

\* While the journal works, the prompt shows what it holds of the round before.
LEMMA PromptShows ==
  ASSUME Sync, FileInv, pc = "call", journal # "mute"
  PROVE  /\ Prompt \in Prompts /\ Prompt.round = round /\ Prompt.agent = Len(results) + 1
         /\ round * N <= Len(Recorded)
         /\ round = 0 => Prompt.positions = <<>>
         /\ round # 0 => /\ Prompt.positions = Shown(Recorded, round * N)
                         /\ ~Agreed(Prompt.positions)
<1>1. /\ round \in 0..MaxRounds /\ Len(results) + 1 \in 1..N /\ Len(Closed) = round * N
      /\ round \in Nat
  BY CallPlace, CountsAreNaturals
<1>2. /\ current \in Seq(Positional) /\ transcript \in Seq(Seq(Positional))
      /\ Len(transcript) = round
  BY DEF Sync, AccountInv, DebateInv, Typed, OpenRound, Gathering
<1>3. Prompt \in Prompts /\ Prompt.round = round /\ Prompt.agent = Len(results) + 1
      /\ Prompt.positions = [k \in DOMAIN current |-> current[k].stance]
  <2>1. [k \in DOMAIN current |-> current[k].stance] \in Seq(Stances)
    <3>1. /\ DOMAIN current = 1..Len(current) /\ Len(current) \in Nat
          /\ \A k \in DOMAIN current : current[k] \in Positional
      BY <1>2
    <3>2. \A k \in DOMAIN current : current[k].stance \in Stances
      BY <3>1 DEF Positional
    <3>3. [k \in DOMAIN current |-> current[k].stance] \in [1..Len(current) -> Stances]
      BY <3>1, <3>2
    <3> QED
      BY <3>1, <3>3, SeqDef
  <2>2. Len(results) + 1 \in Nat
    BY <1>1, CountsAreNaturals DEF N
  <2> QED
    BY <1>1, <2>1, <2>2 DEF Prompt, Prompts
<1>4. /\ Len(Positioned) <= Len(Recorded)
      /\ \A k \in DOMAIN Positioned : Positioned[k].stance = Recorded[k].answer.stance
  BY DEF Sync, Explained
<1>5. /\ Closed \in Seq(Positional) /\ results \in Seq(Positional)
      /\ Positioned \in Seq(Positional) /\ Len(Positioned) = Len(Closed) + Len(results)
      /\ Len(Closed) \in Nat /\ Len(results) \in Nat /\ Len(Recorded) \in Nat
  BY PositionedType, RecordedType DEF Sync, AccountInv
<1>6. round * N <= Len(Recorded)
  BY <1>1, <1>4, <1>5
<1>7. CASE round = 0
  <2>1. transcript = <<>>
    BY <1>2, <1>7, EmptySeq
  <2>2. current = <<>>
    BY <2>1 DEF Sync, AccountInv, DebateInv, CurrentIsLast
  <2>3. Prompt.positions = <<>>
    BY <1>3, <2>2
  <2> QED
    BY <1>3, <1>6, <1>7, <2>3
<1>8. CASE round # 0
  <2>1. transcript # <<>>
    BY <1>1, <1>2, <1>8, EmptySeq
  <2>2. Len(current) = N /\ ~Unanimous(current)
    BY <2>1 DEF Sync, AccountInv, DebateInv, CurrentIsLast, Gathering, N
  <2>3. DOMAIN current = 1..N /\ N \in Nat /\ N >= 2
    BY <1>2, <2>2, CountsAreNaturals DEF N
  <2>4. ASSUME NEW a \in 1..N
        PROVE  current[a].stance = Recorded[round * N - N + a].answer.stance
    <3> DEFINE k == round * N - N + a
    <3>1. k \in 1..Len(Closed)
      <4> DEFINE m == round * N
      <4>1. m \in Nat /\ N <= m /\ N \in Nat /\ Len(Closed) = m /\ k = m - N + a
        BY <1>1, <1>8, RoundsFit
      <4> HIDE DEF m, k
      <4> QED
        BY <4>1
    <3>2. current[a] = Closed[k]
      BY <1>1, <2>1 DEF Sync, Layout
    <3> HIDE DEF k
    <3>3. Positioned[k] = Closed[k] /\ k \in DOMAIN Positioned
      <4>1. k \in 1..(Len(Closed) + Len(results)) /\ k <= Len(Closed)
        BY <1>5, <3>1
      <4>2. (Closed \o results)[k] = Closed[k]
        BY <1>5, <4>1, ConcatProperties
      <4>3. DOMAIN Positioned = 1..Len(Positioned)
        BY <1>5
      <4> QED
        BY <1>5, <4>1, <4>2, <4>3 DEF Positioned
    <3>4. Positioned[k].stance = Recorded[k].answer.stance
      BY <1>4, <3>3
    <3> QED
      BY <3>2, <3>3, <3>4 DEF k
  <2>5. Prompt.positions = Shown(Recorded, round * N)
    BY <1>3, <2>3, <2>4 DEF Shown
  <2>6. ~Agreed(Prompt.positions)
    <3>1. ASSUME Agreed(Prompt.positions) PROVE Unanimous(current)
      <4>1. \A a \in 1..N : Prompt.positions[a] = current[a].stance
        BY <1>3, <2>3
      <4>2. 1 \in 1..N /\ current # <<>>
        BY <2>3, EmptySeq
      <4> QED
        BY <2>3, <3>1, <4>1, <4>2 DEF Agreed, Unanimous, SameStance
    <3> QED
      BY <2>2, <3>1
  <2> QED
    BY <1>3, <1>6, <1>8, <2>5, <2>6
<1> QED
  BY <1>7, <1>8

\* The record in the place of the call has the same prompt ...
LEMMA PromptIsRecorded ==
  ASSUME Sync, FileInv, pc = "call", journal # "mute", seq < Len(Recorded)
  PROVE  Recorded[seq + 1].seq = seq /\ Recorded[seq + 1].prompt = Prompt
<1> DEFINE record == Recorded[seq + 1]
<1>1. seq + 1 \in DOMAIN Recorded /\ seq \in Nat
  BY RecordedType DEF Sync, Counted
<1>2. record \in CallRecords /\ Placed(Recorded, seq + 1)
  BY <1>1, RecordedType DEF InSequence
<1>3. /\ record.seq = seq
      /\ record.prompt.round \in Nat /\ record.prompt.agent \in 1..N
      /\ seq + 1 = record.prompt.round * N + record.prompt.agent
      /\ record.prompt.round = 0 => record.prompt.positions = <<>>
      /\ record.prompt.round # 0 =>
           record.prompt.positions = Shown(Recorded, record.prompt.round * N)
  BY <1>1, <1>2, CountsAreNaturals DEF Placed
<1>4. /\ round \in Nat /\ Len(results) + 1 \in 1..N /\ round * N \in Nat
      /\ seq = round * N + Len(results) /\ Len(results) \in Nat
  BY CallPlace, CountsAreNaturals, PositionedType DEF Sync, AccountInv
<1>5. round = record.prompt.round /\ Len(results) + 1 = record.prompt.agent
  <2> DEFINE r == record.prompt.round
             b == record.prompt.agent
             a == Len(results) + 1
  <2>1. round * N + a = r * N + b
    BY <1>3, <1>4
  <2>2. r \in Nat /\ b \in 1..N /\ a \in 1..N /\ round \in Nat
    BY <1>3, <1>4
  <2> HIDE DEF r, b, a
  <2>3. round = r /\ a = b
    BY <2>1, <2>2, PlaceIsUnique
  <2> QED
    BY <2>3 DEF r, b, a
<1>6. /\ Prompt \in Prompts /\ Prompt.round = round /\ Prompt.agent = Len(results) + 1
      /\ round = 0 => Prompt.positions = <<>>
      /\ round # 0 => Prompt.positions = Shown(Recorded, round * N)
  BY PromptShows
<1>7. record.prompt \in Prompts
  BY <1>2 DEF CallRecords
<1>8. record.prompt.positions = Prompt.positions
  BY <1>3, <1>5, <1>6
<1>9. record.prompt = Prompt
  <2> DEFINE p == record.prompt
             q == Prompt
  <2>1. p \in Prompts /\ q \in Prompts /\ p.round = q.round /\ p.agent = q.agent
        /\ p.positions = q.positions
    BY <1>5, <1>6, <1>7, <1>8
  <2> HIDE DEF p, q
  <2>2. p = q
    BY <2>1 DEF Prompts
  <2> QED
    BY <2>2 DEF p, q
<1> QED
  BY <1>3, <1>9

\* ... so that a replay ends only where the journal does.
LEMMA LiveIsBeyond ==
  ASSUME Sync, FileInv, pc = "call", ~ReplayMatch
  PROVE  /\ Len(Recorded) <= seq /\ Len(loaded) <= seq
         /\ journal # "mute" => Len(Recorded) = seq
<1>1. CASE replaying
  <2>1. journal = "writing" /\ loaded = Recorded /\ seq <= Len(loaded)
    BY <1>1 DEF Sync, Counted
  <2>2. ~(seq < Len(Recorded))
    BY <1>1, <2>1, PromptIsRecorded DEF ReplayMatch
  <2>3. Len(Recorded) \in Nat /\ seq \in Nat
    BY RecordedType DEF Sync, Counted
  <2> QED
    BY <2>1, <2>2, <2>3
<1>2. CASE ~replaying
  BY <1>2 DEF Sync, Counted
<1> QED
  BY <1>1, <1>2 DEF Sync, Counted

\* A call beyond the journal is not in it.
LEMMA BeyondIsNew ==
  ASSUME Sync, FileInv, pc = "call", Len(Recorded) <= seq, NEW k \in DOMAIN Recorded
  PROVE  Recorded[k].prompt # Prompt
<1>1. Placed(Recorded, k) /\ k \in 1..Len(Recorded) /\ Len(Recorded) \in Nat
  BY RecordedType DEF InSequence
<1>2. k = Recorded[k].prompt.round * N + Recorded[k].prompt.agent
  BY <1>1 DEF Placed
<1>3. seq = round * N + Len(results) /\ round * N \in Nat /\ Len(results) \in Nat
  BY CallPlace, PositionedType DEF Sync, AccountInv
<1>4. ASSUME Recorded[k].prompt = Prompt PROVE FALSE
  <2>1. Recorded[k].prompt.round = round /\ Recorded[k].prompt.agent = Len(results) + 1
    BY <1>4 DEF Prompt
  <2>2. k = round * N + (Len(results) + 1)
    BY <1>2, <2>1
  <2>3. seq \in Nat /\ k <= seq
    BY <1>1, <1>3
  <2> QED
    BY <1>3, <2>2, <2>3
<1> QED
  BY <1>4

\* What is recorded of a live call fits into the journal.
LEMMA CallFits ==
  ASSUME Sync, FileInv, stage = "debate", pc = "call", ~ReplayMatch, journal # "mute",
         NEW response \in Responses
  PROVE  /\ Fits(Header, Opened, CallRecord(response))
         /\ CallRecord(response) \in CallRecords
         /\ InSequence(Append(Recorded, CallRecord(response)))
<1> DEFINE record == CallRecord(response)
           more == Append(Recorded, record)
           header == Header
<1>1. /\ Prompt \in Prompts /\ Prompt.round = round /\ Prompt.agent = Len(results) + 1
      /\ round * N <= Len(Recorded)
      /\ round = 0 => Prompt.positions = <<>>
      /\ round # 0 => Prompt.positions = Shown(Recorded, round * N) /\ ~Agreed(Prompt.positions)
  BY PromptShows
<1>2. seq \in Nat /\ Len(Recorded) = seq
  BY LiveIsBeyond DEF Sync, Counted
<1>3. /\ round \in 0..MaxRounds /\ Len(results) + 1 \in 1..N /\ round * N \in Nat
      /\ seq = round * N + Len(results) /\ round \in Nat /\ Len(results) \in Nat
  BY CallPlace, CountsAreNaturals, PositionedType DEF Sync, AccountInv
<1>4. record \in CallRecords /\ record.type = "call" /\ record.seq = seq /\ record.prompt = Prompt
  BY <1>1, <1>2 DEF CallRecord, CallRecords
<1>5. Recorded \in Seq(CallRecords) /\ InSequence(Recorded)
  BY RecordedType
<1>6. InSequence(more)
  <2> HIDE DEF record
  <2>1. more[Len(Recorded) + 1] = record
    BY <1>4, <1>5
  <2>2. round # 0 => Shown(more, round * N) = Shown(Recorded, round * N)
    <3> HIDE DEF more
    <3> QED
      BY <1>1, <1>3, <1>5, ShownOfMore DEF more
  <2>3. /\ record.seq = (Len(Recorded) + 1) - 1
        /\ Len(Recorded) + 1 = round * N + (Len(results) + 1)
    BY <1>2, <1>3, <1>4
  <2>4. Placed(more, Len(Recorded) + 1)
    <3> HIDE DEF more
    <3> QED
      BY <1>1, <1>3, <1>4, <2>1, <2>2, <2>3 DEF Placed
  <2> QED
    BY <1>4, <1>5, <2>4, OneMoreInSequence
<1>7. /\ IsHeader(header) /\ RecordsOf(Opened) # <<>> /\ CallsOf(Opened) = Recorded
  BY HeaderIsHeader, OpenedFile DEF Recorded
<1>8. record \in BodiesOf(header) /\ IsRecord(record)
  BY <1>4 DEF BodiesOf, IsRecord, RecordTypes
<1>9. Fits(header, Opened, record)
  BY <1>4, <1>6, <1>7, <1>8 DEF Fits
<1> QED
  BY <1>4, <1>6, <1>9 DEF header

-----------------------------------------------------------------------------
(* The steps of an invocation.                                             *)

\* The invariant of the file says the same of a file under the same header.
LEMMA FileInvNext ==
  ASSUME UNCHANGED origin, Journal(Header, text'),
         stage' \in {"debate", "close", "down"}, journal' \in {"unopened", "writing", "mute"},
         stage' # "down" /\ journal' = "unopened" => text' = <<>>,
         stage' = "debate" /\ journal' = "writing" => Appendable(text') /\ RecordsOf(text') # <<>>,
         stage' = "down" \/ journal' # "mute" => due' = {},
         \A record \in due' : Awaiting(Header, text', record)
  PROVE  FileInv'
<1>1. Header' = Header
  BY DEF Header
<1> QED
  BY <1>1 DEF FileInv

\* The engine and the clock.
LEMMA EngineStep ==
  ASSUME Sync, FileInv, DebateStep, UNCHANGED origin
  PROVE  Sync' /\ FileInv' /\ stage' = "debate"
<1>1. /\ stage = "debate" /\ UNCHANGED <<stage, text, journal, due, loaded, replaying, seq, replayed>>
      /\ Engine \/ Tick
  BY DEF DebateStep, file, llm
<1>2. pc # "done" /\ UNCHANGED billed
  BY <1>1
     DEF Engine, CheckBefore, TakeLateAnswer, TakeAnswer, CheckAfter, CloseRound, JudgeRound,
         NextRound, Agree, Disagree, Tick, history
<1>3. AccountInv'
  BY <1>1, MovesAccount DEF Sync, Moves
<1>4. Layout' /\ EngineEffect
  BY <1>1, EngineKeepsLayout DEF Sync, AccountInv
<1>5. Recorded' = Recorded
  BY <1>1 DEF Recorded
<1>6. /\ Positioned \in Seq(Positional) /\ Len(Positioned) \in Nat
      /\ seq = AnswersIn
  BY <1>2, PositionedType DEF Sync, AccountInv, Counted
<1>7. pc' # "done" => seq = AnswersIn'
  <2>1. CASE Positioned' = Positioned /\ pc' # "returned" /\ (pc = "returned" => pc' = "done")
    BY <1>6, <2>1 DEF AnswersIn
  <2>2. CASE UNCHANGED <<pc, raw, results, transcript, round>>
    BY <1>6, <2>2 DEF AnswersIn, Positioned, Closed
  <2>3. CASE /\ pc = "returned" /\ pc' = "accepted"
             /\ Positioned' = Append(Positioned, Position(Len(results) + 1, raw))
    <3>1. Len(Positioned') = Len(Positioned) + 1
      BY <1>6, <2>3
    <3> QED
      BY <1>6, <2>3, <3>1 DEF AnswersIn
  <2> QED
    BY <1>4, <2>1, <2>2, <2>3 DEF EngineEffect
<1>8. Counted'
  BY <1>1, <1>5, <1>7 DEF Sync, Counted
<1>9. ASSUME Explained PROVE Explained'
  <2>1. CASE Positioned' = Positioned /\ pc' # "returned"
    BY <1>5, <1>9, <2>1 DEF Explained
  <2>2. CASE UNCHANGED <<pc, raw, results, transcript, round>>
    BY <1>1, <1>5, <1>9, <2>2 DEF Explained, Positioned, Closed
  <2>3. CASE /\ pc = "returned" /\ pc' = "accepted"
             /\ Positioned' = Append(Positioned, Position(Len(results) + 1, raw))
    <3> DEFINE new == Position(Len(results) + 1, raw)
    <3>1. /\ seq = Len(Positioned) + 1 /\ seq \in 1..Len(Recorded) /\ Len(Recorded) \in Nat
          /\ new.stance = Recorded[seq].answer.stance
          /\ new.agent = Recorded[seq].prompt.agent
      BY <1>6, <1>9, <2>3, RecordedType DEF AnswersIn, Explained, Position
    <3> HIDE DEF new
    <3>2. Positioned' = Append(Positioned, new)
      BY <2>3 DEF new
    <3>3. /\ Len(Positioned') = Len(Positioned) + 1
          /\ \A k \in DOMAIN Positioned' :
               \/ k \in DOMAIN Positioned /\ Positioned'[k] = Positioned[k]
               \/ k = Len(Positioned) + 1 /\ Positioned'[k] = new
      BY <1>6, <3>2
    <3>4. Len(Positioned') <= Len(Recorded')
      BY <1>5, <3>1, <3>3
    <3>5. ASSUME NEW k \in DOMAIN Positioned'
          PROVE  /\ Positioned'[k].stance = Recorded'[k].answer.stance
                 /\ Positioned'[k].agent = Recorded'[k].prompt.agent
      <4>1. CASE k \in DOMAIN Positioned /\ Positioned'[k] = Positioned[k]
        BY <1>5, <1>9, <4>1 DEF Explained
      <4>2. CASE k = Len(Positioned) + 1 /\ Positioned'[k] = new
        BY <1>5, <3>1, <4>2
      <4> QED
        BY <3>3, <4>1, <4>2
    <3> QED
      BY <2>3, <3>4, <3>5 DEF Explained
  <2> QED
    BY <1>4, <2>1, <2>2, <2>3 DEF EngineEffect
<1>10. Paid => Paid'
  BY <1>1, <1>2, <1>5 DEF Paid
<1>11. Sync'
  BY <1>1, <1>3, <1>4, <1>8, <1>9, <1>10 DEF Sync
<1>12. FileInv'
  BY <1>1, FileInvNext DEF FileInv
<1> QED
  BY <1>1, <1>11, <1>12

LEMMA AnswersType ==
  ASSUME NEW records \in Seq(CallRecords), NEW upto \in Nat, upto <= Len(records)
  PROVE  AnswersOf(records, upto) \in Seq(Responses) /\ Len(AnswersOf(records, upto)) = upto
<1>1. \A k \in 1..upto : records[k] \in CallRecords
  OBVIOUS
<1>2. \A k \in 1..upto : records[k].answer \in Responses
  BY <1>1 DEF CallRecords
<1>3. AnswersOf(records, upto) \in [1..upto -> Responses]
  BY <1>2 DEF AnswersOf
<1> QED
  BY <1>3, SeqDef, LenProperties

\* The tokens of the answers up to a call and those of the call itself.
LEMMA OneMorePaid ==
  ASSUME NEW records \in Seq(CallRecords), NEW upto \in Nat, upto + 1 <= Len(records)
  PROVE  TokensOf(AnswersOf(records, upto + 1)) =
           TokensOf(AnswersOf(records, upto)) + records[upto + 1].answer.tokens
<1> DEFINE t == AnswersOf(records, upto)
           u == AnswersOf(records, upto + 1)
           p == records[upto + 1].answer
<1>1. /\ t \in Seq(Responses) /\ Len(t) = upto /\ u \in Seq(Responses) /\ Len(u) = upto + 1
  BY AnswersType
<1>2. p \in Responses
  <2>1. records[upto + 1] \in CallRecords
    OBVIOUS
  <2> QED
    BY <2>1 DEF CallRecords
<1>3. \A k \in 1..upto : u[k] = t[k]
  BY DEF AnswersOf
<1>4. u[upto + 1] = p
  BY DEF AnswersOf
<1> HIDE DEF t, u, p
<1>5. u = Append(t, p)
  <2>1. /\ Append(t, p) \in Seq(Responses) /\ Len(Append(t, p)) = upto + 1
        /\ Append(t, p)[upto + 1] = p /\ \A k \in 1..upto : Append(t, p)[k] = t[k]
    BY <1>1, <1>2
  <2>2. \A k \in 1..(upto + 1) : u[k] = Append(t, p)[k]
    BY <1>3, <1>4, <2>1
  <2> QED
    BY <1>1, <2>1, <2>2, SeqEqual
<1>6. Priced(Responses)
  BY PositionConstants DEF Priced, ResponseType
<1>7. TokensOf(Append(t, p)) = TokensOf(t) + p.tokens
  BY <1>1, <1>2, <1>6, TokensOfAppend
<1> QED
  BY <1>5, <1>7 DEF t, u, p

LEMMA SameAnswers ==
  ASSUME NEW records \in Seq(CallRecords), NEW record, NEW upto \in Nat, upto <= Len(records)
  PROVE  AnswersOf(Append(records, record), upto) = AnswersOf(records, upto)
<1>1. \A k \in 1..upto : Append(records, record)[k] = records[k]
  OBVIOUS
<1> QED
  BY <1>1 DEF AnswersOf

\* An answer of the adapter or of the journal reaches the engine.
LEMMA AnswerStep ==
  ASSUME Sync, NEW response \in ResponseType, AdapterReturns(response), seq' = seq + 1
  PROVE  /\ AccountInv' /\ Layout' /\ seq' = AnswersIn' /\ pc' = "returned" /\ raw' = response
         /\ Positioned' = Positioned /\ Len(Positioned) = seq /\ results' = results
         /\ seq \in Nat /\ billed' = billed + response.tokens /\ response.tokens \in Nat
         /\ billed \in Nat
<1>1. /\ pc = "call" /\ pc' = "returned" /\ raw' = response
      /\ UNCHANGED <<current, results, transcript>> /\ billed' = billed + response.tokens
  BY DEF AdapterReturns, Goto, debate
<1>2. AccountInv'
  BY MovesAccount DEF Sync, Moves
<1>3. Layout' /\ Positioned' = Positioned
  BY <1>1, SamePositions DEF Sync
<1>4. Len(Positioned) = seq /\ seq \in Nat
  BY <1>1, CallPlace DEF Sync, Counted
<1>5. seq' = AnswersIn'
  BY <1>1, <1>3, <1>4 DEF AnswersIn
<1>6. response.tokens \in Nat /\ billed \in Nat
  BY ResponseTokens DEF Sync, AccountInv, Sized
<1> QED
  BY <1>1, <1>2, <1>3, <1>4, <1>5, <1>6

\* The answer explained by the record numbered seq.
LEMMA AnswerIsExplained ==
  ASSUME Explained, Len(Positioned) = seq, seq \in Nat, Positioned' = Positioned,
         results' = results, pc' = "returned", seq' = seq + 1, Positioned \in Seq(Positional),
         NEW records, records \in Seq(CallRecords), Recorded' = records,
         Recorded \in Seq(CallRecords), seq + 1 <= Len(records),
         \A k \in 1..seq : records[k] = Recorded[k],
         records[seq + 1].answer.stance = raw'.stance,
         records[seq + 1].prompt.agent = Len(results) + 1
  PROVE  Explained'
<1>1. DOMAIN Positioned = 1..seq /\ DOMAIN records = 1..Len(records) /\ Len(records) \in Nat
  OBVIOUS
<1>2. Len(Positioned') <= Len(Recorded')
  BY <1>1
<1>3. \A k \in DOMAIN Positioned' :
        /\ Positioned'[k].stance = Recorded'[k].answer.stance
        /\ Positioned'[k].agent = Recorded'[k].prompt.agent
  BY <1>1 DEF Explained
<1>4. /\ seq' \in DOMAIN Recorded'
      /\ Recorded'[seq'].answer.stance = raw'.stance
      /\ Recorded'[seq'].prompt.agent = Len(results') + 1
  BY <1>1
<1> QED
  BY <1>2, <1>3, <1>4 DEF Explained

\* A recorded answer.
LEMMA ReplayStep ==
  ASSUME Sync, FileInv, ReplayCall, UNCHANGED origin
  PROVE  Sync' /\ FileInv' /\ stage' = "debate"
<1> DEFINE record == loaded[seq + 1]
           response == [record.answer EXCEPT !.tokens = 0]
<1>1. /\ stage = "debate" /\ ReplayMatch /\ AdapterReturns(response) /\ seq' = seq + 1
      /\ replayed' = replayed + record.answer.tokens
      /\ UNCHANGED <<stage, text, journal, due, loaded, replaying>>
  BY DEF ReplayCall, file
<1>2. /\ replaying /\ seq < Len(loaded) /\ record.prompt = Prompt
      /\ journal = "writing" /\ loaded = Recorded /\ replayed \in Nat
  BY <1>1 DEF ReplayMatch, Sync, Counted
<1>3. /\ Recorded \in Seq(CallRecords) /\ Len(Recorded) \in Nat /\ seq \in Nat
      /\ seq + 1 <= Len(Recorded) /\ record = Recorded[seq + 1]
  BY <1>2, RecordedType DEF Sync, Counted
<1>4. record \in CallRecords
  BY <1>3
<1>5. record.answer \in ResponseType
  BY <1>4, PositionConstants DEF CallRecords
<1>6. /\ response \in ResponseType /\ response.tokens = 0
      /\ response.stance = record.answer.stance /\ record.answer.tokens \in Nat
  BY <1>5 DEF ResponseType
<1> HIDE DEF response
<1>7. /\ AccountInv' /\ Layout' /\ seq' = AnswersIn' /\ pc' = "returned" /\ raw' = response
      /\ Positioned' = Positioned /\ Len(Positioned) = seq /\ results' = results
      /\ billed' = billed + response.tokens /\ billed \in Nat
  BY <1>1, <1>6, AnswerStep
<1>8. Recorded' = Recorded
  BY <1>1 DEF Recorded
<1>9. Counted'
  BY <1>1, <1>2, <1>3, <1>6, <1>7, <1>8 DEF Sync, Counted
<1>10. Explained'
  <2>1. record.prompt.agent = Len(results) + 1
    BY <1>2 DEF Prompt
  <2>2. Positioned \in Seq(Positional) /\ Explained
    BY <1>2, PositionedType DEF Sync, AccountInv
  <2> DEFINE records == Recorded
  <2>3. /\ records \in Seq(CallRecords) /\ Recorded' = records /\ seq + 1 <= Len(records)
        /\ records[seq + 1].answer.stance = raw'.stance
        /\ records[seq + 1].prompt.agent = Len(results) + 1
        /\ \A k \in 1..seq : records[k] = Recorded[k]
    BY <1>3, <1>6, <1>7, <1>8, <2>1
  <2> HIDE DEF records
  <2> QED
    BY <1>1, <1>3, <1>7, <2>2, <2>3, AnswerIsExplained
<1>11. Paid'
  <2>1. TokensOf(AnswersOf(Recorded, seq + 1)) =
          TokensOf(AnswersOf(Recorded, seq)) + record.answer.tokens
    BY <1>3, OneMorePaid
  <2>2. billed + replayed = TokensOf(AnswersOf(Recorded, seq))
    BY <1>2 DEF Sync, Paid
  <2>3. billed' + replayed' = (billed + replayed) + record.answer.tokens
    BY <1>1, <1>2, <1>6, <1>7
  <2>4. billed' + replayed' = TokensOf(AnswersOf(Recorded', seq'))
    BY <1>1, <1>8, <2>1, <2>2, <2>3
  <2> QED
    BY <1>1, <1>3, <1>8, <2>4 DEF Paid
<1>12. Sync'
  BY <1>7, <1>9, <1>10, <1>11 DEF Sync
<1>13. FileInv'
  BY <1>1, FileInvNext DEF FileInv
<1> QED
  BY <1>1, <1>12, <1>13

\* An answer of the adapter, recorded or not.
LEMMA LiveStep ==
  ASSUME Sync, FileInv, NEW response \in Responses, LiveCall(response), UNCHANGED origin
  PROVE  Sync' /\ FileInv' /\ stage' = "debate"
<1> DEFINE record == CallRecord(response)
           more == Append(Recorded, record)
<1>1. /\ stage = "debate" /\ ~ReplayMatch /\ AdapterReturns(response) /\ seq' = seq + 1
      /\ JournalAppend(record) /\ replaying' = FALSE /\ pc = "call"
      /\ UNCHANGED <<stage, loaded, replayed>>
  BY DEF LiveCall, AdapterReturns
<1>2. response \in ResponseType
  BY PositionConstants
<1>3. /\ AccountInv' /\ Layout' /\ seq' = AnswersIn' /\ pc' = "returned" /\ raw' = response
      /\ Positioned' = Positioned /\ Len(Positioned) = seq /\ results' = results
      /\ seq \in Nat /\ billed' = billed + response.tokens /\ response.tokens \in Nat
      /\ billed \in Nat
  BY <1>1, <1>2, AnswerStep
<1>4. /\ Len(Recorded) <= seq /\ Len(loaded) <= seq
      /\ journal # "mute" => Len(Recorded) = seq
  BY <1>1, LiveIsBeyond
<1>5. /\ Recorded \in Seq(CallRecords) /\ Len(Recorded) \in Nat
      /\ loaded \in Seq(CallRecords) /\ Len(loaded) \in Nat /\ replayed \in Nat
  BY RecordedType DEF Sync, Counted
<1>6. journal # "mute" =>
        /\ Fits(Header, Opened, record) /\ record \in CallRecords
  BY <1>1, CallFits
<1>7. Appended(record)
  BY <1>1, <1>6, AppendKeepsFile
<1>8. record.type = "call" /\ record.prompt.agent = Len(results) + 1 /\ record.answer = response
  BY DEF CallRecord, Prompt
<1>9. /\ Journal(Header, text') /\ journal' \in {"writing", "mute"}
      /\ journal' = "writing" =>
           /\ journal # "mute" /\ Appendable(text') /\ RecordsOf(text') # <<>> /\ due' = {}
           /\ Recorded' = more
      /\ \A entry \in due' : Awaiting(Header, text', entry)
      /\ Recorded' = Recorded \/ Recorded' = more
  BY <1>7, <1>8 DEF Appended, AtMostOneMore, Recorded
<1> HIDE DEF record
<1>10. Len(more) = Len(Recorded) + 1 /\ Len(Recorded') <= seq + 1
  <2>1. Len(more) = Len(Recorded) + 1
    BY <1>5
  <2> HIDE DEF more
  <2> QED
    BY <1>3, <1>4, <1>5, <1>9, <2>1
<1>11. Counted'
  <2>1. Len(loaded') <= seq'
    BY <1>1, <1>3, <1>4, <1>5
  <2>2. journal' # "mute" => Len(Recorded') = seq'
    BY <1>1, <1>4, <1>9, <1>10
  <2>3. Len(Recorded') <= seq' /\ seq' \in Nat
    BY <1>1, <1>3, <1>10
  <2>4. replayed' \in Nat /\ replaying' = FALSE /\ loaded' \in Seq(CallRecords)
    BY <1>1, <1>5
  <2> HIDE DEF more
  <2> QED
    BY <1>3, <2>1, <2>2, <2>3, <2>4 DEF Counted
<1>12. ASSUME journal' # "mute" PROVE Explained' /\ Paid'
  <2>1. /\ journal # "mute" /\ Recorded' = more /\ record \in CallRecords
        /\ Len(Recorded) = seq
    BY <1>4, <1>6, <1>9, <1>12
  <2>2. /\ more \in Seq(CallRecords) /\ Len(more) = seq + 1 /\ more[seq + 1] = record
        /\ \A k \in 1..seq : more[k] = Recorded[k]
    BY <1>5, <2>1
  <2>3. Positioned \in Seq(Positional) /\ Explained /\ Paid
    BY <2>1, PositionedType DEF Sync, AccountInv
  <2>4. AnswersOf(more, seq) = AnswersOf(Recorded, seq)
    BY <1>3, <1>5, <2>1, SameAnswers
  <2> HIDE DEF more
  <2>5. Explained'
    <3>1. /\ more[seq + 1].answer.stance = raw'.stance
          /\ more[seq + 1].prompt.agent = Len(results) + 1 /\ seq + 1 <= Len(more)
      BY <1>3, <1>8, <2>2
    <3> QED
      BY <1>1, <1>3, <1>5, <2>1, <2>2, <2>3, <3>1, AnswerIsExplained
  <2>6. Paid'
    <3>1. TokensOf(AnswersOf(more, seq + 1)) =
            TokensOf(AnswersOf(more, seq)) + response.tokens
      <4>1. seq + 1 <= Len(more) /\ more[seq + 1].answer = response
        BY <1>3, <1>8, <2>2
      <4>2. TokensOf(AnswersOf(more, seq + 1)) =
              TokensOf(AnswersOf(more, seq)) + more[seq + 1].answer.tokens
        BY <1>3, <2>2, <4>1, OneMorePaid
      <4> QED
        BY <4>1, <4>2
    <3>2. billed + replayed = TokensOf(AnswersOf(Recorded, seq))
      BY <2>3 DEF Paid
    <3>3. billed' + replayed' = (billed + replayed) + response.tokens
      BY <1>1, <1>3, <1>5
    <3>4. billed' + replayed' = TokensOf(AnswersOf(Recorded', seq'))
      BY <1>1, <2>1, <2>4, <3>1, <3>2, <3>3
    <3> QED
      BY <1>1, <1>3, <2>1, <2>2, <3>4 DEF Paid
  <2> QED
    BY <2>5, <2>6
<1>13. Sync'
  BY <1>3, <1>11, <1>12 DEF Sync
<1>14. FileInv'
  BY <1>1, <1>9, FileInvNext DEF FileInv
<1> QED
  BY <1>1, <1>13, <1>14

\* The debate ends by an exception; at most the header was written.
LEMMA RaisedStep ==
  ASSUME Sync, FileInv, stage = "debate", UNCHANGED <<origin, stage, loaded, seq, replayed, due>>,
         ~ReplayMatch, AdapterRaises, replaying' = FALSE,
         \/ UNCHANGED <<text, journal>>
         \/ journal # "mute" /\ text' = Opened /\ journal' = "writing"
  PROVE  Sync' /\ FileInv'
<1>1. /\ pc = "call" /\ pc' = "done" /\ UNCHANGED <<current, results, transcript, billed>>
  BY DEF AdapterRaises, Raise, Goto, debate
<1>2. AccountInv'
  BY MovesAccount DEF Sync, Moves
<1>3. Layout' /\ Positioned' = Positioned
  BY <1>1, SamePositions DEF Sync
<1>4. Recorded' = Recorded /\ (journal' = "mute" <=> journal = "mute")
  BY OpenedFile DEF Recorded
<1>5. /\ Len(Recorded) <= seq /\ Len(loaded) <= seq
      /\ journal # "mute" => Len(Recorded) = seq
  BY <1>1, LiveIsBeyond
<1>6. Counted'
  BY <1>1, <1>4, <1>5 DEF Sync, Counted
<1>7. journal' # "mute" => Explained' /\ Paid'
  BY <1>1, <1>3, <1>4 DEF Sync, Explained, Paid
<1>8. Sync'
  BY <1>2, <1>3, <1>6, <1>7 DEF Sync
<1>9. FileInv'
  <2>1. /\ Journal(Header, text') /\ \A record \in due' : Awaiting(Header, text', record)
        /\ journal' # "mute" => due' = {}
        /\ journal' \in {"unopened", "writing", "mute"}
        /\ journal' = "unopened" => text' = <<>>
        /\ journal' = "writing" => Appendable(text') /\ RecordsOf(text') # <<>>
    BY OpenedFile DEF FileInv
  <2> QED
    BY <2>1, FileInvNext
<1> QED
  BY <1>8, <1>9

\* A step that writes adds at most one call to the journal.
Grown == \E record : AtMostOneMore(text, text', record)

LEMMA HeaderFits ==
  ASSUME FileInv, stage = "debate", journal = "unopened"
  PROVE  Journal(Header, text) /\ Appendable(text) /\ Fits(Header, text, Header)
<1> DEFINE header == Header
<1>1. text = <<>> /\ IsHeader(header) /\ Journal(header, text)
  BY HeaderIsHeader DEF FileInv
<1> HIDE DEF header
<1>2. Appendable(text) /\ RecordsOf(text) = <<>>
  BY <1>1, NoFileIsJournal, EmptyFile
<1>3. Fits(header, text, header)
  BY <1>1, <1>2, RecordsHaveTypes DEF Fits
<1> QED
  BY <1>1, <1>2, <1>3 DEF header

LEMMA ResultFits ==
  ASSUME FileInv, stage = "debate", journal # "mute", Returned
  PROVE  Fits(Header, Opened, ResultRecord(result))
<1> DEFINE record == ResultRecord(result)
           header == Header
<1>1. record \in ResultRecords /\ record.type = "result"
  BY DEF ResultRecord, ResultRecords, Returned
<1>2. record \in BodiesOf(header) /\ IsRecord(record)
  BY <1>1 DEF BodiesOf, IsRecord, RecordTypes
<1>3. RecordsOf(Opened) # <<>>
  BY OpenedFile
<1> QED
  BY <1>1, <1>2, <1>3 DEF Fits

LEMMA ResultStep ==
  ASSUME FileInv, RecordResult, UNCHANGED origin
  PROVE  FileInv' /\ Recorded' = Recorded
<1>1. stage = "debate" /\ stage' = "close"
  BY DEF RecordResult
<1>2. CASE ~Returned
  <2>1. UNCHANGED <<text, journal, due>>
    BY <1>2 DEF RecordResult, file
  <2>2. FileInv'
    BY <1>1, <2>1, FileInvNext DEF FileInv
  <2> QED
    BY <2>1, <2>2 DEF Recorded
<1>3. CASE Returned
  <2> DEFINE record == ResultRecord(result)
  <2>1. JournalAppend(record)
    BY <1>3 DEF RecordResult
  <2>2. Appended(record)
    BY <1>1, <1>3, <2>1, ResultFits, AppendKeepsFile
  <2>3. record.type # "call"
    BY DEF ResultRecord
  <2>4. FileInv'
    BY <1>1, <2>2, FileInvNext DEF Appended
  <2> QED
    BY <2>2, <2>3, <2>4 DEF Appended, AtMostOneMore, Recorded
<1> QED
  BY <1>2, <1>3

LEMMA CloseStep ==
  ASSUME FileInv, CloseJournal, UNCHANGED origin
  PROVE  FileInv' /\ Grown
<1> DEFINE header == Header
<1>1. stage' = "down" /\ due' = {} /\ journal' = journal
  BY DEF CloseJournal
<1>2. IsHeader(header) /\ Journal(header, text) /\ \A record \in due : Awaiting(header, text, record)
  BY HeaderIsHeader DEF FileInv
<1>3. Journal(header, text') /\ Grown
  <2>1. CASE text' = text
    <3>1. \A record : AtMostOneMore(text, text', record)
      BY <2>1 DEF AtMostOneMore
    <3> QED
      BY <1>2, <2>1, <3>1 DEF Grown
  <2>2. ASSUME NEW record \in due, text' = Completed(text, record)
        PROVE  Journal(header, text') /\ Grown
    <3> HIDE DEF header
    <3>1. Journal(header, text')
      BY <1>2, <2>2, FlushKeepsJournal
    <3> QED
      BY <1>2, <2>2, <3>1 DEF Awaiting, Grown
  <2> QED
    BY <2>1, <2>2 DEF CloseJournal
<1>4. FileInv'
  BY <1>1, <1>3, FileInvNext DEF FileInv
<1> QED
  BY <1>3, <1>4

LEMMA CrashStep ==
  ASSUME FileInv, stage = "debate" => Sync, Crash, UNCHANGED origin
  PROVE  FileInv' /\ Grown
<1> DEFINE header == Header
<1>1. stage' = "down" /\ due' = {} /\ journal' = journal
  BY DEF Crash
<1>2. IsHeader(header) /\ Journal(header, text)
  BY HeaderIsHeader DEF FileInv
<1>3. ASSUME NEW t, NEW record, Journal(header, t), Appendable(t), Fits(header, t, record),
             CallsOf(t) = CallsOf(text), text' \in Interrupted(t, record)
      PROVE  Journal(header, text') /\ Grown
  <2> HIDE DEF header
  <2>1. Journal(header, text') /\ AtMostOneMore(t, text', record)
    BY <1>2, <1>3, InterruptedKeepsJournal
  <2>2. AtMostOneMore(text, text', record)
    BY <1>3, <2>1 DEF AtMostOneMore
  <2> QED
    BY <2>1, <2>2 DEF Grown
<1>4. Journal(header, text') /\ Grown
  <2>1. CASE text' = text
    <3>1. \A record : AtMostOneMore(text, text', record)
      BY <2>1 DEF AtMostOneMore
    <3> QED
      BY <1>2, <2>1, <3>1 DEF Grown
  <2>2. CASE stage = "debate" /\ journal = "unopened" /\ text' \in Interrupted(text, Header)
    BY <1>3, <2>2, HeaderFits
  <2>3. CASE /\ stage = "debate" /\ pc = "call" /\ ~ReplayMatch /\ journal # "mute"
             /\ \E response \in Responses : text' \in Interrupted(Opened, CallRecord(response))
    <3>1. PICK response \in Responses : text' \in Interrupted(Opened, CallRecord(response))
      BY <2>3
    <3>2. Fits(header, Opened, CallRecord(response))
      BY <2>3, CallFits
    <3>3. Journal(header, Opened) /\ Appendable(Opened) /\ CallsOf(Opened) = CallsOf(text)
      BY <2>3, OpenedFile
    <3> QED
      BY <1>3, <3>1, <3>2, <3>3
  <2>4. CASE /\ stage = "debate" /\ Returned /\ journal # "mute"
             /\ text' \in Interrupted(Opened, ResultRecord(result))
    <3>1. Fits(header, Opened, ResultRecord(result))
      BY <2>4, ResultFits
    <3>2. Journal(header, Opened) /\ Appendable(Opened) /\ CallsOf(Opened) = CallsOf(text)
      BY <2>4, OpenedFile
    <3> QED
      BY <1>3, <2>4, <3>1, <3>2
  <2> QED
    BY <2>1, <2>2, <2>3, <2>4 DEF Crash
<1>5. FileInv'
  BY <1>1, <1>4, FileInvNext DEF FileInv
<1> QED
  BY <1>4, <1>5

\* A resume repairs the file, which does not change its records, and starts the
\* debate over.
LEMMA ResumeStep ==
  ASSUME FileInv, NEW surface, NEW given, UNCHANGED origin, Resume(surface, given)
  PROVE  FileInv' /\ Sync' /\ Recorded' = Recorded
<1> DEFINE header == Header
<1>1. /\ stage = "down" /\ stage' = "debate" /\ journal' = "writing" /\ text' = Repair(text)
      /\ RecordsOf(text) # <<>> /\ due' = due /\ due = {}
  BY DEF Resume, Matches, FileInv
<1>2. IsHeader(header) /\ Journal(header, text)
  BY HeaderIsHeader DEF FileInv
<1>3. Journal(header, text') /\ Appendable(text') /\ SameRecords(text, text')
  <2> HIDE DEF header
  <2> QED
    BY <1>1, <1>2, RepairKeepsJournal
<1>4. RecordsOf(text') # <<>> /\ Recorded' = Recorded
  BY <1>1, <1>3 DEF SameRecords, Recorded
<1>5. FileInv'
  BY <1>1, <1>3, <1>4, FileInvNext
<1>6. Init' /\ pc' = "before"
  BY DEF Resume, Init
<1>7. AccountInv'
  <2>1. (Init => AccountInv)'
    BY InitAccount, PTL
  <2> QED
    BY <1>6, <2>1
<1>8. /\ transcript' = <<>> /\ results' = <<>> /\ seq' = 0 /\ replayed' = 0 /\ billed' = 0
      /\ loaded' = Recorded /\ replaying' = (loaded' # <<>>)
  BY DEF Resume, LoadCalls, Recorded
<1>9. Positioned' = <<>> /\ Closed' = <<>>
  <2>1. <<>> \o <<>> = <<>>
    BY ConcatEmptySeq
  <2> QED
    BY <1>8, <2>1, FlattenNone DEF Positioned, Closed
<1>10. Layout'
  <2>1. N' = N /\ N \in Nat /\ 0 * N = 0
    BY CountsAreNaturals DEF N
  <2>2. Len(<<>>) = 0
    OBVIOUS
  <2>3. Len(Closed') = 0 /\ Len(transcript') * N' = 0
    BY <1>8, <1>9, <2>1, <2>2
  <2> QED
    BY <1>8, <2>3 DEF Layout
<1>11. Recorded \in Seq(CallRecords) /\ Len(Recorded) \in Nat
  BY RecordedType
<1>12. Counted'
  <2>1. Len(<<>>) = 0 /\ (Recorded = <<>> => Len(Recorded) = 0)
    OBVIOUS
  <2>2. AnswersIn' = 0
    BY <1>6, <1>9, <2>1 DEF AnswersIn
  <2>3. replaying' \in BOOLEAN /\ (replaying' <=> Recorded # <<>>)
    BY <1>8, Zenon
  <2>4. seq' = 0 /\ replayed' = 0 /\ loaded' = Recorded /\ Recorded' = Recorded
    BY <1>4, <1>8
  <2> QED
    BY <1>1, <1>11, <2>1, <2>2, <2>3, <2>4 DEF Counted
<1>13. Explained' /\ Paid'
  <2>1. Len(<<>>) = 0 /\ DOMAIN <<>> = {}
    OBVIOUS
  <2>2. Explained'
    BY <1>4, <1>6, <1>9, <1>11, <2>1 DEF Explained
  <2>3. AnswersOf(Recorded', 0) = <<>>
    BY DEF AnswersOf
  <2> QED
    BY <1>4, <1>8, <1>11, <2>2, <2>3, TokensOfNone DEF Paid
<1>14. Sync'
  BY <1>7, <1>10, <1>12, <1>13 DEF Sync
<1> QED
  BY <1>4, <1>5, <1>14

LEMMA RefusedStep ==
  ASSUME FileInv, NEW surface, NEW given, UNCHANGED origin, ResumeRefused(surface, given)
  PROVE  FileInv' /\ Recorded' = Recorded /\ stage' = "down"
<1> DEFINE header == Header
<1>1. stage = "down" /\ text' = Repair(text) /\ UNCHANGED <<stage, journal, due>>
  BY DEF ResumeRefused
<1>2. IsHeader(header) /\ Journal(header, text)
  BY HeaderIsHeader DEF FileInv
<1>3. Journal(header, text') /\ SameRecords(text, text')
  <2> HIDE DEF header
  <2> QED
    BY <1>1, <1>2, RepairKeepsJournal
<1>4. FileInv'
  BY <1>1, <1>3, FileInvNext DEF FileInv
<1> QED
  BY <1>1, <1>3, <1>4 DEF SameRecords, Recorded

-----------------------------------------------------------------------------
(* The invariant of a run.                                                 *)

\* The settings of the run, which its header repeats, were put together from
\* arguments and accepted.
Founded ==
  \E surface \in Surfaces, given \in FreshArgs :
    /\ Givable(surface, given)
    /\ origin = SettingsOf(surface, given, Defaults)
    /\ Accepted(surface, origin)

RunInv == Founded /\ live \in Nat /\ FileInv /\ (stage = "debate" => Sync)

LEMMA InitRun == RunInit => RunInv
<1> SUFFICES ASSUME RunInit PROVE RunInv
  OBVIOUS
<1>1. /\ Init /\ stage = "debate" /\ text = <<>> /\ journal = "unopened" /\ due = {}
      /\ loaded = <<>> /\ replaying = FALSE /\ seq = 0 /\ replayed = 0 /\ live = 0
  BY DEF RunInit
<1>2. Founded
  BY DEF RunInit, Founded
<1>3. FileInv
  <2>1. Journal(Header, text)
    BY <1>1, NoFileIsJournal
  <2> QED
    BY <1>1, <2>1 DEF FileInv
<1>4. /\ pc = "before" /\ transcript = <<>> /\ results = <<>> /\ billed = 0
  BY <1>1 DEF Init
<1>5. Recorded = <<>> /\ Len(Recorded) = 0 /\ Recorded \in Seq(CallRecords)
  <2>1. Recorded = <<>>
    BY <1>1, NoFileIsJournal DEF Recorded
  <2>2. Len(<<>>) = 0 /\ <<>> \in Seq(CallRecords)
    OBVIOUS
  <2> QED
    BY <2>1, <2>2
<1>6. Positioned = <<>> /\ Closed = <<>>
  <2>1. <<>> \o <<>> = <<>>
    BY ConcatEmptySeq
  <2> QED
    BY <1>4, <2>1, FlattenNone DEF Positioned, Closed
<1>7. Layout
  <2>1. 0 * N = 0
    BY CountsAreNaturals DEF N
  <2> QED
    BY <1>4, <1>5, <1>6, <2>1 DEF Layout
<1>8. Counted
  <2>1. AnswersIn = 0
    BY <1>4, <1>6 DEF AnswersIn
  <2>2. loaded = Recorded /\ seq = 0 /\ replayed = 0
    BY <1>1, <1>5
  <2>3. replaying \in BOOLEAN /\ ~replaying
    BY <1>1, Zenon
  <2> QED
    BY <1>5, <2>1, <2>2, <2>3 DEF Counted
<1>9. Explained /\ Paid
  <2>1. AnswersOf(Recorded, 0) = <<>>
    BY DEF AnswersOf
  <2>2. Len(<<>>) = 0 /\ DOMAIN <<>> = {}
    OBVIOUS
  <2> QED
    BY <1>1, <1>4, <1>5, <1>6, <2>1, <2>2, TokensOfNone DEF Explained, Paid
<1>10. Sync
  BY <1>1, <1>7, <1>8, <1>9, InitAccount DEF Sync
<1> QED
  BY <1>1, <1>2, <1>3, <1>10 DEF RunInv

LEMMA RunStep == RunInv /\ [RunNext]_runVars => RunInv'
<1> SUFFICES ASSUME RunInv, [RunNext]_runVars PROVE RunInv'
  OBVIOUS
<1>1. FileInv /\ live \in Nat /\ (stage = "debate" => Sync) /\ Founded
  BY DEF RunInv
<1>2. ASSUME UNCHANGED origin PROVE Founded'
  BY <1>1, <1>2 DEF Founded
<1>3. CASE UNCHANGED runVars
  <2>1. UNCHANGED <<origin, stage, text, journal, due, live>>
    BY <1>3 DEF runVars, file, tally
  <2>2. FileInv'
    BY <1>1, <2>1, FileInvNext DEF FileInv
  <2>3. stage' = "debate" => Sync'
    BY <1>1, <1>3
       DEF runVars, vars, debate, history, file, llm, tally, Sync, AccountInv, DebateInv, Typed,
           CurrentIsLast, OpenRound, ClosedRound, Sized, TokenInv, Unbooked, TokensCountedOnce,
           Returned, Layout, Counted, Explained, Paid, Recorded, Positioned, Closed, AnswersIn,
           AnswersOf
  <2> QED
    BY <1>1, <1>2, <2>1, <2>2, <2>3 DEF RunInv
<1>4. ASSUME UNCHANGED origin, Invocation PROVE RunInv'
  <2>1. CASE DebateStep
    BY <1>1, <1>2, <1>4, <2>1, EngineStep DEF DebateStep, tally, RunInv
  <2>2. CASE ReplayCall
    BY <1>1, <1>2, <1>4, <2>2, ReplayStep DEF ReplayCall, tally, RunInv
  <2>3. CASE LiveCallRaises \/ LiveCallUnencodable
    <3>1. /\ stage = "debate" /\ ~ReplayMatch /\ AdapterRaises /\ replaying' = FALSE
          /\ UNCHANGED <<stage, due, loaded, seq, replayed>>
          /\ live' \in {live, live + 1}
          /\ \/ UNCHANGED <<text, journal>>
             \/ journal # "mute" /\ text' = Opened /\ journal' = "writing"
      BY <2>3 DEF LiveCallRaises, LiveCallUnencodable, file, tally
    <3>2. Sync' /\ FileInv'
      BY <1>1, <1>4, <3>1, RaisedStep
    <3>3. live' \in Nat
      BY <1>1, <3>1
    <3> QED
      BY <1>2, <1>4, <3>1, <3>2, <3>3 DEF RunInv
  <2>4. ASSUME NEW response \in Responses, LiveCall(response) PROVE RunInv'
    <3>1. stage = "debate" /\ live' = live + 1
      BY <2>4 DEF LiveCall
    <3>2. Sync' /\ FileInv'
      BY <1>1, <1>4, <2>4, <3>1, LiveStep
    <3>3. live' \in Nat
      BY <1>1, <3>1
    <3> QED
      BY <1>2, <1>4, <3>2, <3>3 DEF RunInv
  <2>5. CASE RecordResult
    BY <1>1, <1>2, <1>4, <2>5, ResultStep DEF RecordResult, RunInv
  <2>6. CASE CloseJournal
    BY <1>1, <1>2, <1>4, <2>6, CloseStep DEF CloseJournal, tally, RunInv
  <2>7. CASE Crash
    BY <1>1, <1>2, <1>4, <2>7, CrashStep DEF Crash, tally, RunInv
  <2> QED
    BY <1>4, <2>1, <2>2, <2>3, <2>4, <2>5, <2>6, <2>7 DEF Invocation
<1>5. ASSUME NEW surface, NEW given, UNCHANGED origin, Resume(surface, given) PROVE RunInv'
  BY <1>1, <1>2, <1>5, ResumeStep DEF Resume, RunInv
<1>6. ASSUME NEW surface, NEW given, UNCHANGED origin, ResumeRefused(surface, given) PROVE RunInv'
  BY <1>1, <1>2, <1>6, RefusedStep DEF ResumeRefused, RunInv
<1> QED
  BY <1>3, <1>4, <1>5, <1>6 DEF RunNext, Over

-----------------------------------------------------------------------------
(* What the invariant says.                                                *)

\* A replay goes through the whole journal before anything else is asked.
THEOREM ReplayGoesToTheEnd == RunSpec => []ReplayIsExact
<1>1. RunInv => ReplayIsExact
  <2> SUFFICES ASSUME RunInv, stage = "debate", ~replaying PROVE seq >= Len(loaded)
    BY DEF ReplayIsExact
  <2>1. Len(loaded) <= seq /\ seq \in Nat /\ loaded \in Seq(CallRecords)
    BY DEF RunInv, Sync, Counted
  <2> QED
    BY <2>1
<1> QED
  BY <1>1, InitRun, RunStep, PTL DEF RunSpec

\* While the journal works, its k-th call is that of the k-th accepted position.
THEOREM JournalExplains == RunSpec => []JournalExplainsTranscript
<1>1. RunInv => JournalExplainsTranscript
  BY DEF RunInv, Sync, Explained, JournalExplainsTranscript, Recorded, Positioned, Closed
<1> QED
  BY <1>1, InitRun, RunStep, PTL DEF RunSpec

\* What a result reports as spent and as replayed is together the cost of each call
\* of the debate, once.
THEOREM EveryCallIsPaidOnce == RunSpec => []ReplayedPlusSpent
<1>1. RunInv => ReplayedPlusSpent
  <2> SUFFICES ASSUME RunInv, stage = "debate", Returned, journal = "writing"
               PROVE  result.tokens + replayed = TokensOf([k \in 1..seq |-> CallsOf(text)[k].answer])
    BY DEF ReplayedPlusSpent
  <2>1. billed + replayed = TokensOf(AnswersOf(Recorded, seq)) /\ AccountInv
    BY DEF RunInv, Sync, Paid
  <2>2. result.tokens = billed
    BY <2>1 DEF AccountInv, TokenInv, DebateInv, Typed, TokensCountedOnce, Returned, Pending
  <2> QED
    BY <2>1, <2>2 DEF AnswersOf, Recorded
<1> QED
  BY <1>1, InitRun, RunStep, PTL DEF RunSpec

\* A step that makes a live call, whether or not its answer can be recorded.
LEMMA LiveSteps ==
  ASSUME RunInv, [RunNext]_runVars, live' > live
  PROVE  stage = "debate" /\ Sync /\ FileInv /\ pc = "call" /\ ~ReplayMatch
<1>1. live \in Nat
  BY DEF RunInv
<1>2. live' # live
  BY <1>1
<1>3. stage = "debate" /\ pc = "call" /\ ~ReplayMatch
  BY <1>2
     DEF RunNext, Invocation, runVars, tally, Over, DebateStep, ReplayCall, LiveCallRaises,
         LiveCallUnencodable, LiveCall, AdapterReturns, AdapterRaises, RecordResult,
         CloseJournal, Crash, Resume, ResumeRefused
<1> QED
  BY <1>3 DEF RunInv

\* No call that the journal records is made again.
THEOREM RecordedCallsAreFree == RunSpec => NoRebilling
<1>1. ASSUME RunInv, [RunNext]_runVars
      PROVE  [live' > live => \A k \in DOMAIN CallsOf(text) :
                                CallsOf(text)[k].prompt # Prompt]_runVars
  <2> SUFFICES ASSUME live' > live, NEW k \in DOMAIN Recorded
               PROVE  Recorded[k].prompt # Prompt
    BY DEF Recorded
  <2>1. Sync /\ FileInv /\ pc = "call" /\ ~ReplayMatch
    BY <1>1, LiveSteps
  <2>2. Len(Recorded) <= seq
    BY <2>1, LiveIsBeyond
  <2> QED
    BY <2>1, <2>2, BeyondIsNew
<1> QED
  BY <1>1, InitRun, RunStep, PTL DEF RunSpec, NoRebilling

-----------------------------------------------------------------------------
(* Going on with a run by its identifier.                                  *)

\* The texts of accepted settings are texts, and the question has no blanks around it.
LEMMA FoundedSettings ==
  ASSUME Founded
  PROVE  /\ origin = [question |-> origin.question, context |-> origin.context,
                      limits |-> origin.limits, models |-> origin.models,
                      adapter |-> origin.adapter, budget_tokens |-> origin.budget_tokens]
         /\ origin.question \in DOMAIN Strip /\ Strip[origin.question] = origin.question
         /\ origin.question # EmptyText
         /\ origin.context \in DOMAIN Strip /\ origin.limits # Null
<1>1. PICK surface \in Surfaces, given \in FreshArgs :
        /\ Givable(surface, given)
        /\ origin = SettingsOf(surface, given, Defaults)
        /\ Accepted(surface, origin)
  BY DEF Founded
<1>2. /\ {given.question, given.context} \subseteq DOMAIN Strip \cup {Absent, Null}
      /\ DOMAIN given = {"question", "context", "limits", "models", "adapter", "budget_tokens"}
      /\ Defaults.question \in DOMAIN Strip /\ Defaults.context \in DOMAIN Strip
      /\ Defaults.limits # Null
  BY <1>1, ArgsConstants DEF Bare
<1>3. \A t \in DOMAIN Strip : Strip[t] \in DOMAIN Strip /\ Strip[Strip[t]] = Strip[t]
  BY SettingsConstants
<1>4. EmptyText \in DOMAIN Strip /\ Null \notin DOMAIN Strip /\ Absent # Null
  BY SettingsConstants
<1>5. CASE surface = "cli"
  <2>1. origin = CliSettings(given, Defaults)
    BY <1>1, <1>5 DEF SettingsOf
  <2>2. given.question # Null /\ given.context # Null /\ given.limits # Null
    BY <1>1, <1>2, <1>5 DEF Givable
  <2>3. /\ Or(given.question, Defaults.question) \in DOMAIN Strip
        /\ Or(given.context, Defaults.context) \in DOMAIN Strip
        /\ Or(given.limits, Defaults.limits) # Null
    BY <1>2, <2>2 DEF Or
  <2>4. origin.question # EmptyText
    BY <1>1 DEF Accepted
  <2> QED
    BY <1>3, <2>1, <2>3, <2>4 DEF CliSettings
<1>6. CASE surface = "plugin"
  <2>1. origin = PluginSettings(given, Defaults)
    BY <1>1, <1>6 DEF SettingsOf
  <2>2. /\ Or(given.question, Defaults.question) \in DOMAIN Strip \cup {Null}
        /\ Or(given.context, Defaults.context) \in DOMAIN Strip \cup {Null}
    BY <1>2 DEF Or
  <2>3. origin.question # EmptyText /\ origin.limits # Null
    BY <1>1, <1>6 DEF Accepted
  <2>4. \A x \in DOMAIN Strip \cup {Null} :
          Text(x) = EmptyText \/ (Text(x) \in DOMAIN Strip /\ Strip[Text(x)] = Text(x))
    BY <1>3 DEF Text
  <2> QED
    BY <1>3, <1>4, <2>1, <2>2, <2>3, <2>4 DEF PluginSettings
<1> QED
  BY <1>1, <1>5, <1>6 DEF Surfaces

\* A run can be gone on with by its identifier alone.
THEOREM RunsCanBeResumed == RunSpec => []BareResumeIsAccepted
<1>1. RunInv => BareResumeIsAccepted
  <2> SUFFICES ASSUME RunInv, stage = "down", RecordsOf(text) # <<>>,
                      NEW saved, saved = RecordsOf(text)[1].settings
               PROVE  /\ Matches("cli", Bare)
                      /\ \/ Matches("plugin", Bare)
                         \/ saved.context # Strip[saved.context]
                         \/ saved.adapter \notin RealAdapters
    BY DEF BareResumeIsAccepted
  <2>1. saved = origin
    BY DEF RunInv, FileInv, Journal, Headed, Header
  <2>2. /\ saved = [question |-> saved.question, context |-> saved.context,
                    limits |-> saved.limits, models |-> saved.models,
                    adapter |-> saved.adapter, budget_tokens |-> saved.budget_tokens]
        /\ saved.question \in DOMAIN Strip /\ Strip[saved.question] = saved.question
        /\ saved.question # EmptyText
        /\ saved.context \in DOMAIN Strip /\ saved.limits # Null
    BY <2>1, FoundedSettings DEF RunInv
  <2>3. Null \notin DOMAIN Strip /\ Absent # Null
    BY SettingsConstants
  <2>4. SettingsOf("cli", Bare, saved) = saved
    BY <2>2 DEF SettingsOf, CliSettings, Bare, Or
  <2>5. Matches("cli", Bare)
    BY <2>2, <2>4 DEF Matches, Accepted
  <2>6. ASSUME saved.context = Strip[saved.context], saved.adapter \in RealAdapters
        PROVE  Matches("plugin", Bare)
    <3>1. SettingsOf("plugin", Bare, saved) = saved
      <4>1. /\ Text(Or(Bare.question, saved.question)) = saved.question
            /\ Text(Or(Bare.context, saved.context)) = saved.context
        BY <2>2, <2>3, <2>6 DEF Text, Or, Bare
      <4>2. /\ Or(Bare.limits, saved.limits) = saved.limits
            /\ Or(Bare.adapter, saved.adapter) = saved.adapter
            /\ Bare.models = Absent /\ Bare.budget_tokens = Absent
        BY DEF Or, Bare
      <4> QED
        BY <2>2, <2>3, <4>1, <4>2 DEF SettingsOf, PluginSettings, Or
    <3> QED
      BY <2>2, <2>6, <3>1 DEF Matches, Accepted
  <2> QED
    BY <2>5, <2>6
<1> QED
  BY <1>1, InitRun, RunStep, PTL DEF RunSpec

-----------------------------------------------------------------------------
(* Verdicts: a recorded verdict is a function of the journal.              *)

\* How a debate reached its verdict.
Concluded ==
  Conclusive =>
    /\ seq = Len(Positioned) /\ results = <<>> /\ Len(transcript) = round + 1
    /\ \/ /\ result.status = "unanimous" /\ Unanimous(current)
          /\ result.decision = current[1].stance
       \/ /\ result.status = "no_consensus" /\ ~Unanimous(current) /\ round = MaxRounds
          /\ result.decision = NoStance

\* The journal holds whole rounds after which there is none.
Full(records) ==
  \E r \in 0..MaxRounds :
    /\ Len(records) = (r + 1) * N
    /\ r = MaxRounds \/ Agreed(Shown(records, (r + 1) * N))

VerdictOf(records) ==
  LET last == Shown(records, Len(records)) IN
  IF Agreed(last) THEN [status |-> "unanimous", decision |-> last[1]]
  ELSE [status |-> "no_consensus", decision |-> NoStance]

SealInv ==
  /\ sealed # {} => Full(Recorded) /\ sealed = {VerdictOf(Recorded)}
  /\ stage = "debate" => Concluded
  /\ stage = "debate" /\ sealed # {} => replaying

LEMMA OpenIsNotConclusive ==
  ASSUME DebateInv, pc # "done"
  PROVE  ~Conclusive
BY DEF DebateInv, Typed, Pending, Conclusive

\* No record comes after a full journal.
LEMMA FullIsLast ==
  ASSUME NEW records \in Seq(CallRecords), Full(records), NEW record, NEW longer,
         longer = Append(records, record)
  PROVE  ~InSequence(longer)
<1>1. PICK r \in 0..MaxRounds : /\ Len(records) = (r + 1) * N
                                /\ r = MaxRounds \/ Agreed(Shown(records, (r + 1) * N))
  BY DEF Full
<1>2. N \in Nat /\ N >= 2 /\ r \in Nat /\ r + 1 \in Nat /\ MaxRounds \in Nat /\ r + 1 # 0
      /\ (r + 1) * N \in Nat
  BY CountsAreNaturals DEF N
<1> DEFINE k == (r + 1) * N + 1
           prompt == longer[k].prompt
<1>3. k \in DOMAIN longer
  <2>1. DOMAIN longer = 1..(Len(records) + 1)
    OBVIOUS
  <2> QED
    BY <1>1, <1>2, <2>1
<1>4. ASSUME InSequence(longer) PROVE FALSE
  <2>1. Placed(longer, k)
    BY <1>3, <1>4 DEF InSequence
  <2> HIDE DEF k
  <2>2. /\ prompt.round \in 0..MaxRounds /\ prompt.agent \in 1..N
        /\ k = prompt.round * N + prompt.agent
        /\ prompt.round # 0 => /\ prompt.positions = Shown(longer, prompt.round * N)
                               /\ ~Agreed(prompt.positions)
    BY <2>1 DEF Placed
  <2>3. prompt.round = r + 1
    <3> DEFINE q == prompt.round
               b == prompt.agent
               next == r + 1
    <3>1. q \in Nat /\ b \in 1..N /\ next \in Nat /\ 1 \in 1..N
      <4>1. q \in 0..MaxRounds /\ b \in 1..N
        BY <2>2
      <4>2. next \in Nat /\ 1 \in 1..N
        BY <1>2
      <4> HIDE DEF q, b, next
      <4> QED
        BY <4>1, <4>2, CountsAreNaturals
    <3>2. next * N + 1 = q * N + b
      BY <2>2 DEF k
    <3> HIDE DEF q, b, next
    <3>3. next = q
      BY <3>1, <3>2, PlaceIsUnique
    <3> QED
      BY <3>3 DEF q, next
  <2>4. r # MaxRounds
    BY <1>2, <2>2, <2>3
  <2>5. Shown(longer, (r + 1) * N) = Shown(records, (r + 1) * N)
    <3>1. (r + 1) * N <= Len(records)
      BY <1>1, <1>2
    <3> QED
      BY <1>2, <3>1, ShownOfMore
  <2> QED
    BY <1>1, <1>2, <2>2, <2>3, <2>4, <2>5
<1> QED
  BY <1>4

\* Nor is a call beyond it ever asked.
LEMMA NoCallBeyondFull ==
  ASSUME Sync, FileInv, pc = "call", ~ReplayMatch, Full(Recorded), replaying
  PROVE  FALSE
<1>1. journal # "mute" /\ Len(Recorded) = seq
  BY LiveIsBeyond DEF Sync, Counted
<1>2. PICK r \in 0..MaxRounds : /\ Len(Recorded) = (r + 1) * N
                                /\ r = MaxRounds \/ Agreed(Shown(Recorded, (r + 1) * N))
  BY DEF Full
<1>3. /\ round \in 0..MaxRounds /\ Len(results) + 1 \in 1..N
      /\ seq = round * N + Len(results)
      /\ round # 0 => Prompt.positions = Shown(Recorded, round * N) /\ ~Agreed(Prompt.positions)
  BY <1>1, CallPlace, PromptShows
<1>4. round = r + 1
  <2> DEFINE q == r + 1
             a == Len(results) + 1
  <2>1. /\ q \in Nat /\ round \in Nat /\ a \in 1..N /\ 1 \in 1..N /\ round * N \in Nat
        /\ q * N \in Nat /\ Len(results) \in Nat
    BY <1>3, CountsAreNaturals, PositionedType DEF N, Sync, AccountInv
  <2>2. round * N + a = q * N + 1
    <3> DEFINE m == round * N
    <3>1. seq = q * N /\ seq = m + Len(results) /\ m \in Nat
      BY <1>1, <1>2, <1>3, <2>1
    <3> HIDE DEF m
    <3>2. m + a = seq + 1
      BY <2>1, <3>1
    <3> QED
      BY <3>1, <3>2 DEF m
  <2> HIDE DEF q, a
  <2>3. round = q
    BY <2>1, <2>2, PlaceIsUnique
  <2> QED
    BY <2>3 DEF q
<1>5. r # MaxRounds /\ round # 0
  BY <1>3, <1>4, CountsAreNaturals
<1> QED
  BY <1>2, <1>3, <1>4, <1>5

\* A verdict under a working journal is that of the journal, which is then full.
LEMMA VerdictIsRecorded ==
  ASSUME Sync, FileInv, Concluded, Conclusive, journal # "mute"
  PROVE  Full(Recorded) /\ Verdict = VerdictOf(Recorded)
<1>1. /\ seq = Len(Positioned) /\ results = <<>> /\ Len(transcript) = round + 1
      /\ round \in 0..MaxRounds
      /\ \/ /\ result.status = "unanimous" /\ Unanimous(current)
            /\ result.decision = current[1].stance
         \/ /\ result.status = "no_consensus" /\ ~Unanimous(current) /\ round = MaxRounds
            /\ result.decision = NoStance
  BY DEF Concluded, Sync, AccountInv, DebateInv, Typed
<1>2. /\ N \in Nat /\ N >= 2 /\ round \in Nat /\ round + 1 \in Nat /\ round + 1 # 0
      /\ (round + 1) * N \in Nat /\ N <= (round + 1) * N
  BY <1>1, CountsAreNaturals, RoundsFit DEF N
<1> DEFINE last == (round + 1) * N
<1>3. /\ Len(Closed) = last /\ Len(Positioned) = last /\ seq = last
      /\ Closed \in Seq(Positional) /\ Positioned \in Seq(Positional)
  <2>1. Len(<<>>) = 0
    OBVIOUS
  <2>2. Len(Closed) = (round + 1) * N
    BY <1>1 DEF Sync, Layout
  <2> QED
    BY <1>1, <1>2, <2>1, <2>2, PositionedType DEF Sync, AccountInv
<1>4. transcript # <<>> /\ current \in Seq(Positional) /\ Len(current) = N
  <2>1. transcript # <<>>
    BY <1>1, <1>2, EmptySeq
  <2> QED
    BY <2>1 DEF Sync, AccountInv, DebateInv, Typed, CurrentIsLast, N
<1>5. /\ Len(Recorded) \in Nat /\ Recorded \in Seq(CallRecords) /\ InSequence(Recorded)
      /\ last <= Len(Recorded)
      /\ \A k \in DOMAIN Positioned : Positioned[k].stance = Recorded[k].answer.stance
  BY <1>3, RecordedType DEF Sync, Explained
<1>6. ASSUME NEW a \in 1..N PROVE Shown(Recorded, last)[a] = current[a].stance
  <2> DEFINE k == last - N + a
  <2>1. k \in 1..Len(Closed)
    <3>1. last \in Nat /\ N <= last
      BY <1>2
    <3> HIDE DEF last
    <3> QED
      BY <1>2, <1>3, <3>1
  <2>2. current[a] = Closed[k]
    BY <1>3, <1>4 DEF Sync, Layout
  <2>3. Positioned = Closed
    <3>1. Closed \o <<>> = Closed
      BY <1>3, ConcatEmptySeq
    <3> QED
      BY <1>1, <3>1 DEF Positioned
  <2>4. Shown(Recorded, last)[a] = Recorded[k].answer.stance
    BY DEF Shown
  <2> HIDE DEF k, last
  <2>5. k \in DOMAIN Positioned
    BY <1>3, <2>1, <2>3
  <2> QED
    BY <1>5, <2>2, <2>3, <2>4, <2>5
<1>7. Agreed(Shown(Recorded, last)) <=> Unanimous(current)
  <2>1. DOMAIN current = 1..N /\ 1 \in 1..N /\ current # <<>>
    BY <1>2, <1>4, EmptySeq
  <2> HIDE DEF last
  <2> QED
    BY <1>6, <2>1 DEF Agreed, Unanimous, SameStance
<1>8. Len(Recorded) = last
  <2> SUFFICES ASSUME last + 1 <= Len(Recorded) PROVE FALSE
    <3>1. last \in Nat
      BY <1>2
    <3> HIDE DEF last
    <3> QED
      BY <1>5, <3>1
  <2> DEFINE k == last + 1
             prompt == Recorded[k].prompt
  <2>1. k \in DOMAIN Recorded /\ k \in Nat
    <3>1. last \in Nat
      BY <1>2
    <3> HIDE DEF last
    <3> QED
      BY <1>5, <3>1
  <2>2. Placed(Recorded, k)
    BY <1>5, <2>1 DEF InSequence
  <2> HIDE DEF k
  <2>3. /\ prompt.round \in 0..MaxRounds /\ prompt.agent \in 1..N
        /\ k = prompt.round * N + prompt.agent
        /\ prompt.round # 0 => /\ prompt.positions = Shown(Recorded, prompt.round * N)
                               /\ ~Agreed(prompt.positions)
    BY <2>2 DEF Placed
  <2>4. prompt.round = round + 1
    <3> DEFINE q == prompt.round
               b == prompt.agent
               next == round + 1
    <3>1. q \in Nat /\ b \in 1..N /\ next \in Nat /\ 1 \in 1..N /\ next * N + 1 = q * N + b
      BY <1>2, <2>3, CountsAreNaturals DEF k
    <3> HIDE DEF q, b, next
    <3>2. next = q
      BY <3>1, PlaceIsUnique
    <3> QED
      BY <3>2 DEF q, next
  <2>5. round # MaxRounds
    BY <1>2, <2>3, <2>4, CountsAreNaturals
  <2> QED
    BY <1>1, <1>2, <1>7, <2>3, <2>4, <2>5
<1>9. Full(Recorded)
  BY <1>1, <1>7, <1>8 DEF Full
<1>10. Shown(Recorded, last)[1] = current[1].stance
  BY <1>2, <1>6
<1> HIDE DEF last
<1> QED
  BY <1>1, <1>7, <1>8, <1>9, <1>10 DEF VerdictOf, Verdict

\* The engine ends with a verdict in two places only.
LEMMA ConcludedStep ==
  ASSUME Sync, Sync', DebateStep
  PROVE  Concluded'
<1>1. (DebateInv /\ pc # "done" => ~Conclusive)'
  BY OpenIsNotConclusive, PTL
<1>2. DebateInv' /\ DebateInv /\ (Engine \/ Tick) /\ seq' = seq /\ seq \in Nat
  BY DEF DebateStep, llm, Sync, AccountInv, Counted
<1>3. CASE pc' # "done"
  BY <1>1, <1>2, <1>3 DEF Concluded
<1>4. CASE result'.status = "aborted" \/ result'.status = "protocol_error"
  BY <1>4 DEF Concluded, Conclusive
<1>5. CASE (Agree \/ Disagree) /\ ~expired
  <2>1. /\ pc \in {"agree", "finish"} /\ UNCHANGED <<round, current, results, transcript>>
        /\ \/ /\ pc = "agree" /\ result'.status = "unanimous"
              /\ result'.decision = current[1].stance
           \/ /\ pc = "finish" /\ result'.status = "no_consensus"
              /\ result'.decision = NoStance
    BY <1>5 DEF Agree, Disagree, Abort, Finish, Goto
  <2>2. /\ Len(transcript) = round + 1 /\ results = <<>>
        /\ pc = "agree" => Unanimous(current)
        /\ pc = "finish" => ~Unanimous(current) /\ round = MaxRounds
    BY <1>2, <2>1 DEF DebateInv, ClosedRound, Judging
  <2>3. seq = Len(Positioned)
    <3>1. seq = AnswersIn /\ Len(Positioned) \in Nat
      BY <1>2, <2>1, PositionedType DEF Sync, Counted
    <3> QED
      BY <2>1, <3>1 DEF AnswersIn
  <2>4. Positioned' = Positioned
    BY <2>1 DEF Positioned, Closed
  <2> QED
    BY <1>2, <2>1, <2>2, <2>3, <2>4 DEF Concluded
<1> QED
  BY <1>2, <1>3, <1>4, <1>5
     DEF Engine, CheckBefore, TakeLateAnswer, TakeAnswer, CheckAfter, CloseRound, JudgeRound,
         NextRound, Agree, Disagree, Tick, Abort, Finish, Raise, Goto

\* A full journal does not grow.
LEMMA FullStays ==
  ASSUME FileInv, FileInv', Full(Recorded), Grown
  PROVE  Recorded' = Recorded
<1>1. (FileInv => InSequence(Recorded))'
  BY RecordedType, PTL
<1>2. Recorded \in Seq(CallRecords) /\ InSequence(Recorded')
  BY <1>1, RecordedType
<1>3. PICK record : Recorded' = Recorded \/ Recorded' = Append(Recorded, record)
  BY DEF Grown, AtMostOneMore, Recorded
<1> QED
  BY <1>2, <1>3, FullIsLast

LEMMA FullIsNotEmpty ==
  ASSUME FileInv, Full(Recorded)
  PROVE  Recorded # <<>>
<1>1. PICK r \in 0..MaxRounds : Len(Recorded) = (r + 1) * N
  BY DEF Full
<1>2. N \in Nat /\ N >= 2 /\ N <= (r + 1) * N /\ (r + 1) * N \in Nat
  <2>1. r + 1 \in Nat /\ r + 1 # 0
    BY CountsAreNaturals
  <2> QED
    BY <2>1, CountsAreNaturals, RoundsFit DEF N
<1>3. Len(Recorded) # 0
  <2> DEFINE m == (r + 1) * N
  <2>1. m \in Nat /\ N <= m /\ Len(Recorded) = m
    BY <1>1, <1>2
  <2> HIDE DEF m
  <2> QED
    BY <1>2, <2>1
<1> QED
  BY <1>3

\* The seal under a file whose calls are the same.
LEMMA SameSeal ==
  ASSUME SealInv, Recorded' = Recorded, sealed' = sealed
  PROVE  sealed' # {} => Full(Recorded') /\ sealed' = {VerdictOf(Recorded')}
BY DEF SealInv

LEMMA SealStep == RunInv /\ RunInv' /\ SealInv /\ [RunNext]_runVars => SealInv'
<1> SUFFICES ASSUME RunInv, RunInv', SealInv, [RunNext]_runVars PROVE SealInv'
  OBVIOUS
<1>1. /\ FileInv /\ FileInv' /\ (stage = "debate" => Sync) /\ (stage' = "debate" => Sync')
      /\ stage = "debate" => Concluded
      /\ sealed # {} => Full(Recorded) /\ sealed = {VerdictOf(Recorded)}
      /\ stage = "debate" /\ sealed # {} => replaying
  BY DEF RunInv, SealInv
<1>2. CASE UNCHANGED runVars
  <2>1. /\ UNCHANGED <<pc, round, current, results, transcript, result, seq, sealed, stage,
                       replaying, text>>
    BY <1>2 DEF runVars, vars, debate, llm, file, tally
  <2>2. Recorded' = Recorded
    BY <2>1 DEF Recorded
  <2>3. stage' = "debate" => Concluded'
    BY <1>1, <2>1 DEF Concluded, Conclusive, Positioned, Closed
  <2> QED
    BY <1>1, <2>1, <2>2, <2>3 DEF SealInv
<1>3. CASE DebateStep
  <2>1. UNCHANGED <<stage, text, replaying, sealed>> /\ stage = "debate"
    BY <1>3 DEF DebateStep, file, llm, tally
  <2>2. Recorded' = Recorded
    BY <2>1 DEF Recorded
  <2>3. Concluded'
    BY <1>1, <1>3, <2>1, ConcludedStep
  <2> QED
    BY <1>1, <2>1, <2>2, <2>3 DEF SealInv
<1>4. CASE ReplayCall
  <2>1. UNCHANGED <<stage, text, replaying, sealed>> /\ stage = "debate" /\ pc' = "returned"
    BY <1>4 DEF ReplayCall, AdapterReturns, Goto, file, tally
  <2>2. Recorded' = Recorded
    BY <2>1 DEF Recorded
  <2>3. Concluded'
    <3>1. (DebateInv /\ pc # "done" => ~Conclusive)'
      BY OpenIsNotConclusive, PTL
    <3> QED
      BY <1>1, <2>1, <3>1 DEF Concluded, Sync, AccountInv
  <2> QED
    BY <1>1, <2>1, <2>2, <2>3 DEF SealInv
<1>5. CASE LiveCallRaises \/ LiveCallUnencodable \/ \E response \in Responses : LiveCall(response)
  <2>1. /\ stage = "debate" /\ ~ReplayMatch /\ pc = "call" /\ sealed' = sealed
        /\ pc' = "returned" \/ result'.status = "adapter_error"
    BY <1>5
       DEF LiveCallRaises, LiveCallUnencodable, LiveCall, AdapterRaises, AdapterReturns, Raise,
           Goto, tally
  <2>2. sealed = {}
    BY <1>1, <2>1, NoCallBeyondFull
  <2>3. stage' = "debate" => Concluded'
    <3>1. (DebateInv /\ pc # "done" => ~Conclusive)'
      BY OpenIsNotConclusive, PTL
    <3> QED
      BY <1>1, <2>1, <3>1 DEF Concluded, Conclusive, Sync, AccountInv
  <2> QED
    BY <2>1, <2>2, <2>3 DEF SealInv
<1>6. ASSUME RecordResult, UNCHANGED origin PROVE SealInv'
  <2>1. /\ stage = "debate" /\ stage' = "close" /\ Recorded' = Recorded
        /\ sealed' = IF Conclusive /\ journal' = "writing" THEN sealed \cup {Verdict} ELSE sealed
    BY <1>1, <1>6, ResultStep DEF RecordResult
  <2>2. CASE Conclusive /\ journal' = "writing"
    <3>1. journal # "mute"
      BY <1>6, <2>2
         DEF RecordResult, Conclusive, Returned, JournalAppend, AppendWorks, AppendFails,
             AppendIgnored, file
    <3>2. Full(Recorded) /\ Verdict = VerdictOf(Recorded)
      BY <1>1, <2>1, <2>2, <3>1, VerdictIsRecorded
    <3>3. sealed' = {VerdictOf(Recorded)}
      BY <1>1, <2>1, <2>2, <3>2
    <3> QED
      BY <2>1, <3>2, <3>3 DEF SealInv
  <2>3. CASE ~(Conclusive /\ journal' = "writing")
    BY <1>1, <2>1, <2>3 DEF SealInv
  <2> QED
    BY <2>2, <2>3
<1>7. ASSUME CloseJournal \/ Crash, UNCHANGED origin PROVE SealInv'
  <2>1. stage' = "down" /\ sealed' = sealed
    BY <1>7 DEF CloseJournal, Crash, tally
  <2>2. Grown
    BY <1>1, <1>7, CloseStep, CrashStep
  <2>3. sealed # {} => Recorded' = Recorded
    BY <1>1, <2>2, FullStays
  <2> QED
    BY <1>1, <2>1, <2>3 DEF SealInv
<1>8. ASSUME NEW surface, NEW given, UNCHANGED origin, Resume(surface, given) PROVE SealInv'
  <2>1. /\ stage' = "debate" /\ sealed' = sealed /\ result' = Pending
        /\ loaded' = Recorded /\ replaying' = (loaded' # <<>>)
    BY <1>8 DEF Resume, LoadCalls, Recorded
  <2>2. Recorded' = Recorded
    BY <1>1, <1>8, ResumeStep
  <2>3. Concluded'
    BY <2>1 DEF Concluded, Conclusive, Pending
  <2>4. sealed # {} => Recorded # <<>>
    BY <1>1, FullIsNotEmpty
  <2>5. sealed # {} => replaying'
    BY <2>1, <2>4, Zenon
  <2> QED
    BY <1>1, <2>1, <2>2, <2>3, <2>5 DEF SealInv
<1>9. ASSUME NEW surface, NEW given, UNCHANGED origin, ResumeRefused(surface, given) PROVE SealInv'
  <2>1. stage' = "down" /\ Recorded' = Recorded /\ sealed' = sealed
    BY <1>1, <1>9, RefusedStep DEF ResumeRefused
  <2> QED
    BY <1>1, <2>1 DEF SealInv
<1> QED
  BY <1>2, <1>3, <1>4, <1>5, <1>6, <1>7, <1>8, <1>9 DEF RunNext, Over, Invocation

LEMMA InitSeal == RunInit => SealInv
BY DEF RunInit, Init, SealInv, Concluded, Conclusive, Pending

\* Once a verdict is in the journal, every later invocation that reaches a verdict
\* reaches the same one ...
THEOREM VerdictsAreStable == RunSpec => []VerdictIsStable
<1>1. RunInv /\ SealInv => VerdictIsStable
  <2> SUFFICES ASSUME RunInv, SealInv PROVE VerdictIsStable
    OBVIOUS
  <2>1. Cardinality(sealed) <= 1
    <3>1. sealed = {} \/ sealed = {VerdictOf(Recorded)}
      BY DEF SealInv
    <3>2. \A v : Cardinality({v}) = 1
      BY FS_Singleton
    <3>3. Cardinality({}) = 0
      BY FS_EmptySet
    <3>4. Cardinality(sealed) = 0 \/ Cardinality(sealed) = 1
      BY <3>1, <3>2, <3>3, Zenon
    <3> QED
      BY <3>4
  <2>2. ASSUME stage = "debate", Conclusive, sealed # {} PROVE Verdict \in sealed
    <3>1. /\ Sync /\ FileInv /\ Concluded /\ replaying /\ sealed = {VerdictOf(Recorded)}
      BY <2>2 DEF RunInv, SealInv
    <3>2. journal # "mute"
      BY <3>1 DEF Sync, Counted
    <3>3. Verdict = VerdictOf(Recorded)
      BY <2>2, <3>1, <3>2, VerdictIsRecorded
    <3> QED
      BY <3>1, <3>3
  <2> QED
    BY <2>1, <2>2 DEF VerdictIsStable
<1> QED
  BY <1>1, InitRun, InitSeal, RunStep, SealStep, PTL DEF RunSpec

\* ... and makes no call.
THEOREM SealedRunsAreFree == RunSpec => SealedRunIsFree
<1>1. ASSUME RunInv, SealInv, [RunNext]_runVars
      PROVE  [live' > live => sealed = {}]_runVars
  <2> SUFFICES ASSUME live' > live PROVE sealed = {}
    OBVIOUS
  <2>1. stage = "debate" /\ Sync /\ FileInv /\ pc = "call" /\ ~ReplayMatch
    BY <1>1, LiveSteps
  <2> QED
    BY <1>1, <2>1, NoCallBeyondFull DEF SealInv
<1> QED
  BY <1>1, InitRun, InitSeal, RunStep, SealStep, PTL DEF RunSpec, SealedRunIsFree
================================================================================
