--------------------------- MODULE JournalFile_proofs --------------------------
(***************************************************************************)
(* Proofs about JournalFile: the records and calls of a file as folds, and *)
(* what repairs and (whole, failed, late) writes do to them.               *)
(***************************************************************************)
EXTENDS JournalFile, SequenceFolds

-----------------------------------------------------------------------------
(* The records of a journal file, over any set of bodies.                  *)

LinesOver(B) == [body : B, lf : BOOLEAN]
RecordsIn(B) == {body \in B : IsRecord(body)}

RecordStep(B) ==
  [x \in Seq(RecordsIn(B)) \X LinesOver(B) |->
     IF IsRecord(x[2].body) THEN Append(x[1], x[2].body) ELSE x[1]]

LEMMA RecordStepType ==
  ASSUME NEW B
  PROVE  /\ RecordStep(B) \in [Seq(RecordsIn(B)) \X LinesOver(B) -> Seq(RecordsIn(B))]
         /\ <<>> \in Seq(RecordsIn(B))
         /\ \A found \in Seq(RecordsIn(B)), line \in LinesOver(B) :
              RecordStep(B)[<<found, line>>] =
                IF IsRecord(line.body) THEN Append(found, line.body) ELSE found
BY DEF RecordStep, RecordsIn, LinesOver

LEMMA RecordsFold ==
  ASSUME NEW B, NEW t \in Seq(LinesOver(B))
  PROVE  \E f : /\ Folds(f, Seq(RecordsIn(B)), RecordStep(B), <<>>, t)
               /\ RecordsOf(t) = f[1..Len(t)]
<1> DEFINE X == Seq(RecordsIn(B))
           Y == LinesOver(B)
           step == RecordStep(B)
           it == CHOOSE f : f = [S \in SUBSET (DOMAIN t) |->
                     IF S = {} THEN <<>>
                     ELSE IF IsRecord(t[Max(S)].body)
                          THEN Append(f[S \ {Max(S)}], t[Max(S)].body) ELSE f[S \ {Max(S)}]]
<1>1. RecordsOf(t) = it[DOMAIN t]
  BY DEF RecordsOf, FoldLeft, MapThenFoldSet
<1>2. /\ step \in [X \X Y -> X] /\ <<>> \in X /\ t \in Seq(Y)
      /\ \A found \in X, line \in Y :
           step[<<found, line>>] = IF IsRecord(line.body) THEN Append(found, line.body) ELSE found
  BY RecordStepType
<1>3. it = [S \in SUBSET (DOMAIN t) |->
             IF S = {} THEN <<>>
             ELSE IF IsRecord(t[Max(S)].body)
                  THEN Append(it[S \ {Max(S)}], t[Max(S)].body) ELSE it[S \ {Max(S)}]]
  <2>1. PICK g : Folds(g, X, step, <<>>, t)
    <3> HIDE DEF it, X, Y, step
    <3> QED
      BY <1>2, FoldExists
  <2>2. g = [S \in SUBSET (DOMAIN t) |->
               IF S = {} THEN <<>>
               ELSE IF IsRecord(t[Max(S)].body)
                    THEN Append(g[S \ {Max(S)}], t[Max(S)].body) ELSE g[S \ {Max(S)}]]
    <3> HIDE DEF it, X, Y, step
    <3>1. /\ g = [S \in SUBSET (DOMAIN t) |-> g[S]]
          /\ g[{}] = <<>>
          /\ \A S \in SUBSET (DOMAIN t) : S # {} =>
               /\ g[S \ {Max(S)}] \in X /\ t[Max(S)] \in Y
               /\ g[S] = step[<<g[S \ {Max(S)}], t[Max(S)]>>]
      <4>1. MadeOf(g, X, Y, step, <<>>, t)
        BY <1>2, <2>1, FoldSteps
      <4> QED
        BY <4>1 DEF MadeOf
    <3>2. ASSUME NEW S \in SUBSET (DOMAIN t), S # {}
          PROVE  g[S] = IF IsRecord(t[Max(S)].body)
                        THEN Append(g[S \ {Max(S)}], t[Max(S)].body) ELSE g[S \ {Max(S)}]
      BY <1>2, <3>1, <3>2
    <3> QED
      BY <3>1, <3>2
  <2> QED
    BY <2>2, Zenon
<1> HIDE DEF it, X, Y, step
<1>4. it = [S \in SUBSET (DOMAIN t) |-> it[S]] /\ it[{}] = <<>>
  BY <1>3
<1>5. ASSUME NEW S \in SUBSET (DOMAIN t), S # {}, it[S \ {Max(S)}] \in X, t[Max(S)] \in Y
      PROVE  it[S] = step[<<it[S \ {Max(S)}], t[Max(S)]>>]
  <2>1. it[S] = IF IsRecord(t[Max(S)].body)
                THEN Append(it[S \ {Max(S)}], t[Max(S)].body) ELSE it[S \ {Max(S)}]
    BY <1>3, <1>5
  <2> QED
    BY <1>2, <1>5, <2>1
<1>6. Folds(it, X, step, <<>>, t)
  BY <1>2, <1>4, <1>5, FoldFromSteps
<1>7. DOMAIN t = 1..Len(t)
  OBVIOUS
<1> QED
  BY <1>1, <1>6, <1>7 DEF X, step

\* A file without lines has no records; a line adds its record if it has one.
LEMMA RecordsOfEmpty == RecordsOf(<<>>) = <<>>
<1>1. PICK f : /\ Folds(f, Seq(RecordsIn({})), RecordStep({}), <<>>, <<>>)
               /\ RecordsOf(<<>>) = f[1..Len(<<>>)]
  <2>1. <<>> \in Seq(LinesOver({}))
    OBVIOUS
  <2> QED
    BY <2>1, RecordsFold
<1>2. 1..Len(<<>>) = {}
  OBVIOUS
<1> QED
  BY <1>1, <1>2 DEF Folds, FoldsUpto

LEMMA RecordsOfType ==
  ASSUME NEW B, NEW t \in Seq(LinesOver(B))
  PROVE  RecordsOf(t) \in Seq(RecordsIn(B))
<1>1. PICK f : Folds(f, Seq(RecordsIn(B)), RecordStep(B), <<>>, t) /\ RecordsOf(t) = f[1..Len(t)]
  BY RecordsFold
<1> QED
  BY <1>1 DEF Folds, FoldsUpto

LEMMA RecordsOfAppend ==
  ASSUME NEW B, NEW t \in Seq(LinesOver(B)), NEW line \in LinesOver(B)
  PROVE  RecordsOf(Append(t, line)) =
           IF IsRecord(line.body) THEN Append(RecordsOf(t), line.body) ELSE RecordsOf(t)
<1> DEFINE X == Seq(RecordsIn(B))
           Y == LinesOver(B)
           step == RecordStep(B)
           u == Append(t, line)
<1>1. step \in [X \X Y -> X] /\ <<>> \in X /\ t \in Seq(Y) /\ line \in Y /\ u \in Seq(Y)
  <2>1. u \in Seq(Y)
    OBVIOUS
  <2> HIDE DEF u
  <2> QED
    BY <2>1, RecordStepType
<1>2. \A found \in X : step[<<found, line>>] = IF IsRecord(line.body) THEN Append(found, line.body) ELSE found
  BY RecordStepType
<1>3. PICK f : Folds(f, X, step, <<>>, t) /\ RecordsOf(t) = f[1..Len(t)]
  BY RecordsFold
<1>4. PICK g : Folds(g, X, step, <<>>, u) /\ RecordsOf(u) = g[1..Len(u)]
  BY <1>1, RecordsFold
<1>5. RecordsOf(t) \in X
  BY RecordsOfType
<1>6. u[Len(u)] = line /\ OneMore(t, u)
  BY DEF OneMore
<1>7. OneStep(f, g, step, t, u)
  <2> HIDE DEF X, Y, step, u
  <2> QED
    BY <1>1, <1>3, <1>4, <1>6, FoldOfAppend
<1>8. RecordsOf(u) = step[<<RecordsOf(t), line>>]
  BY <1>3, <1>4, <1>6, <1>7 DEF OneStep
<1> HIDE DEF X, Y, step
<1> QED
  BY <1>2, <1>5, <1>8

-----------------------------------------------------------------------------
(* The calls among them.                                                   *)

CallsAmong(records) ==
  FoldLeft(LAMBDA found, record : IF record.type = "call" THEN Append(found, record) ELSE found,
           <<>>, records)

CallsIn(R) == {record \in R : record.type = "call"}

CallStep(R) ==
  [x \in Seq(CallsIn(R)) \X R |->
     IF x[2].type = "call" THEN Append(x[1], x[2]) ELSE x[1]]

LEMMA CallStepType ==
  ASSUME NEW R
  PROVE  /\ CallStep(R) \in [Seq(CallsIn(R)) \X R -> Seq(CallsIn(R))]
         /\ <<>> \in Seq(CallsIn(R))
         /\ \A found \in Seq(CallsIn(R)), record \in R :
              CallStep(R)[<<found, record>>] =
                IF record.type = "call" THEN Append(found, record) ELSE found
BY DEF CallStep, CallsIn

LEMMA CallsFold ==
  ASSUME NEW R, NEW t \in Seq(R)
  PROVE  \E f : /\ Folds(f, Seq(CallsIn(R)), CallStep(R), <<>>, t)
               /\ CallsAmong(t) = f[1..Len(t)]
<1> DEFINE X == Seq(CallsIn(R))
           Y == R
           step == CallStep(R)
           it == CHOOSE f : f = [S \in SUBSET (DOMAIN t) |->
                     IF S = {} THEN <<>>
                     ELSE IF t[Max(S)].type = "call"
                          THEN Append(f[S \ {Max(S)}], t[Max(S)]) ELSE f[S \ {Max(S)}]]
<1>1. CallsAmong(t) = it[DOMAIN t]
  BY DEF CallsAmong, FoldLeft, MapThenFoldSet
<1>2. /\ step \in [X \X Y -> X] /\ <<>> \in X /\ t \in Seq(Y)
      /\ \A found \in X, line \in Y :
           step[<<found, line>>] = IF line.type = "call" THEN Append(found, line) ELSE found
  BY CallStepType
<1>3. it = [S \in SUBSET (DOMAIN t) |->
             IF S = {} THEN <<>>
             ELSE IF t[Max(S)].type = "call"
                  THEN Append(it[S \ {Max(S)}], t[Max(S)]) ELSE it[S \ {Max(S)}]]
  <2>1. PICK g : Folds(g, X, step, <<>>, t)
    <3> HIDE DEF it, X, Y, step
    <3> QED
      BY <1>2, FoldExists
  <2>2. g = [S \in SUBSET (DOMAIN t) |->
               IF S = {} THEN <<>>
               ELSE IF t[Max(S)].type = "call"
                    THEN Append(g[S \ {Max(S)}], t[Max(S)]) ELSE g[S \ {Max(S)}]]
    <3> HIDE DEF it, X, Y, step
    <3>1. /\ g = [S \in SUBSET (DOMAIN t) |-> g[S]]
          /\ g[{}] = <<>>
          /\ \A S \in SUBSET (DOMAIN t) : S # {} =>
               /\ g[S \ {Max(S)}] \in X /\ t[Max(S)] \in Y
               /\ g[S] = step[<<g[S \ {Max(S)}], t[Max(S)]>>]
      <4>1. MadeOf(g, X, Y, step, <<>>, t)
        BY <1>2, <2>1, FoldSteps
      <4> QED
        BY <4>1 DEF MadeOf
    <3>2. ASSUME NEW S \in SUBSET (DOMAIN t), S # {}
          PROVE  g[S] = IF t[Max(S)].type = "call"
                        THEN Append(g[S \ {Max(S)}], t[Max(S)]) ELSE g[S \ {Max(S)}]
      BY <1>2, <3>1, <3>2
    <3> QED
      BY <3>1, <3>2
  <2> QED
    BY <2>2, Zenon
<1> HIDE DEF it, X, Y, step
<1>4. it = [S \in SUBSET (DOMAIN t) |-> it[S]] /\ it[{}] = <<>>
  BY <1>3
<1>5. ASSUME NEW S \in SUBSET (DOMAIN t), S # {}, it[S \ {Max(S)}] \in X, t[Max(S)] \in Y
      PROVE  it[S] = step[<<it[S \ {Max(S)}], t[Max(S)]>>]
  <2>1. it[S] = IF t[Max(S)].type = "call"
                THEN Append(it[S \ {Max(S)}], t[Max(S)]) ELSE it[S \ {Max(S)}]
    BY <1>3, <1>5
  <2> QED
    BY <1>2, <1>5, <2>1
<1>6. Folds(it, X, step, <<>>, t)
  BY <1>2, <1>4, <1>5, FoldFromSteps
<1>7. DOMAIN t = 1..Len(t)
  OBVIOUS
<1> QED
  BY <1>1, <1>6, <1>7 DEF X, step

\* A file without records has no calls; a record adds itself if it is a call.
LEMMA CallsAmongEmpty == CallsAmong(<<>>) = <<>>
<1>1. PICK f : /\ Folds(f, Seq(CallsIn({})), CallStep({}), <<>>, <<>>)
               /\ CallsAmong(<<>>) = f[1..Len(<<>>)]
  <2>1. <<>> \in Seq({})
    OBVIOUS
  <2> QED
    BY <2>1, CallsFold
<1>2. 1..Len(<<>>) = {}
  OBVIOUS
<1> QED
  BY <1>1, <1>2 DEF Folds, FoldsUpto

LEMMA CallsAmongType ==
  ASSUME NEW R, NEW t \in Seq(R)
  PROVE  CallsAmong(t) \in Seq(CallsIn(R))
<1>1. PICK f : Folds(f, Seq(CallsIn(R)), CallStep(R), <<>>, t) /\ CallsAmong(t) = f[1..Len(t)]
  BY CallsFold
<1> QED
  BY <1>1 DEF Folds, FoldsUpto

LEMMA CallsAmongAppend ==
  ASSUME NEW R, NEW t \in Seq(R), NEW record \in R
  PROVE  CallsAmong(Append(t, record)) =
           IF record.type = "call" THEN Append(CallsAmong(t), record) ELSE CallsAmong(t)
<1> DEFINE X == Seq(CallsIn(R))
           Y == R
           step == CallStep(R)
           u == Append(t, record)
<1>1. step \in [X \X Y -> X] /\ <<>> \in X /\ t \in Seq(Y) /\ record \in Y /\ u \in Seq(Y)
  <2>1. u \in Seq(Y)
    OBVIOUS
  <2> HIDE DEF u
  <2> QED
    BY <2>1, CallStepType
<1>2. \A found \in X : step[<<found, record>>] = IF record.type = "call" THEN Append(found, record) ELSE found
  BY CallStepType
<1>3. PICK f : Folds(f, X, step, <<>>, t) /\ CallsAmong(t) = f[1..Len(t)]
  BY CallsFold
<1>4. PICK g : Folds(g, X, step, <<>>, u) /\ CallsAmong(u) = g[1..Len(u)]
  BY <1>1, CallsFold
<1>5. CallsAmong(t) \in X
  BY CallsAmongType
<1>6. u[Len(u)] = record /\ OneMore(t, u)
  BY DEF OneMore
<1>7. OneStep(f, g, step, t, u)
  <2> HIDE DEF X, Y, step, u
  <2> QED
    BY <1>1, <1>3, <1>4, <1>6, FoldOfAppend
<1>8. CallsAmong(u) = step[<<CallsAmong(t), record>>]
  BY <1>3, <1>4, <1>6, <1>7 DEF OneStep
<1> HIDE DEF X, Y, step
<1> QED
  BY <1>2, <1>5, <1>8

LEMMA CallsOfEmpty == CallsOf(<<>>) = <<>>
BY RecordsOfEmpty, CallsAmongEmpty DEF CallsOf, CallsAmong

LEMMA CallsOfType ==
  ASSUME NEW B, NEW t \in Seq(LinesOver(B))
  PROVE  CallsOf(t) \in Seq(CallsIn(RecordsIn(B)))
<1>1. RecordsOf(t) \in Seq(RecordsIn(B))
  BY RecordsOfType
<1>2. CallsOf(t) = CallsAmong(RecordsOf(t))
  BY DEF CallsOf, CallsAmong
<1> QED
  BY <1>1, <1>2, CallsAmongType

LEMMA CallsOfAppend ==
  ASSUME NEW B, NEW t \in Seq(LinesOver(B)), NEW line \in LinesOver(B)
  PROVE  CallsOf(Append(t, line)) =
           IF line.body.type = "call" THEN Append(CallsOf(t), line.body) ELSE CallsOf(t)
<1>1. RecordsOf(t) \in Seq(RecordsIn(B))
  BY RecordsOfType
<1>2. /\ CallsOf(t) = CallsAmong(RecordsOf(t))
      /\ CallsOf(Append(t, line)) = CallsAmong(RecordsOf(Append(t, line)))
  BY DEF CallsOf, CallsAmong
<1>3. CASE IsRecord(line.body)
  <2>1. line.body \in RecordsIn(B)
    BY <1>3 DEF RecordsIn, LinesOver
  <2>2. RecordsOf(Append(t, line)) = Append(RecordsOf(t), line.body)
    BY <1>3, RecordsOfAppend
  <2>3. CallsAmong(Append(RecordsOf(t), line.body)) =
          IF line.body.type = "call" THEN Append(CallsAmong(RecordsOf(t)), line.body)
          ELSE CallsAmong(RecordsOf(t))
    BY <1>1, <2>1, CallsAmongAppend
  <2> QED
    BY <1>2, <2>2, <2>3
<1>4. CASE ~IsRecord(line.body)
  <2>1. line.body.type # "call"
    BY <1>4 DEF IsRecord, RecordTypes
  <2>2. RecordsOf(Append(t, line)) = RecordsOf(t)
    BY <1>4, RecordsOfAppend
  <2> QED
    BY <1>2, <2>1, <2>2
<1> QED
  BY <1>3, <1>4

-----------------------------------------------------------------------------
(* What repairs and writes do to a file only the last line of which can    *)
(* lack its line feed.                                                     *)

Tidy(t)       == \A k \in DOMAIN t : k < Len(t) => t[k].lf
Terminated(t) == \A k \in DOMAIN t : t[k].lf
Appendable(t) == OpenTail(t) => Last(t).body = Blank

LEMMA EmptyFile ==
  /\ Tidy(<<>>) /\ Terminated(<<>>) /\ Appendable(<<>>)
  /\ ~Corrupt(<<>>) /\ ~OpenTail(<<>>) /\ Repair(<<>>) = <<>>
BY DEF Tidy, Terminated, Appendable, Corrupt, OpenTail, Repair

\* A file after one more line.
LEMMA AppendedFile ==
  ASSUME NEW B, NEW t \in Seq(LinesOver(B)), NEW line \in LinesOver(B), NEW u,
         u = Append(t, line), Terminated(t)
  PROVE  /\ u \in Seq(LinesOver(B)) /\ Tidy(u)
         /\ Last(u) = line /\ Front(u) = t
         /\ OpenTail(u) <=> ~line.lf
         /\ Corrupt(u) <=> Corrupt(t) \/ (line.body = Torn /\ line.lf) \/ line.body = Scalar
<1>1. /\ u \in Seq(LinesOver(B)) /\ Len(u) = Len(t) + 1 /\ Len(t) \in Nat /\ u # <<>>
      /\ DOMAIN u = 1..(Len(t) + 1) /\ DOMAIN t = 1..Len(t)
      /\ u[Len(t) + 1] = line /\ \A k \in 1..Len(t) : u[k] = t[k]
  OBVIOUS
<1>2. Last(u) = line
  BY <1>1 DEF Last
<1>3. Front(u) = t
  BY <1>1 DEF Front
<1>4. Tidy(u)
  BY <1>1 DEF Tidy, Terminated
<1>5. OpenTail(u) <=> ~line.lf
  BY <1>1, <1>2 DEF OpenTail
<1>6. Corrupt(u) <=> Corrupt(t) \/ (line.body = Torn /\ line.lf) \/ line.body = Scalar
  <2>1. ASSUME Corrupt(u)
        PROVE  Corrupt(t) \/ (line.body = Torn /\ line.lf) \/ line.body = Scalar
    BY <1>1, <2>1 DEF Corrupt
  <2>2. ASSUME Corrupt(t) PROVE Corrupt(u)
    BY <1>1, <2>2 DEF Corrupt
  <2>3. ASSUME (line.body = Torn /\ line.lf) \/ line.body = Scalar PROVE Corrupt(u)
    <3>1. Len(t) + 1 \in DOMAIN u /\ u[Len(t) + 1] = line
      BY <1>1
    <3> QED
      BY <2>3, <3>1 DEF Corrupt
  <2> QED
    BY <2>1, <2>2, <2>3
<1> QED
  BY <1>1, <1>2, <1>3, <1>4, <1>5, <1>6

\* The other way round: a file is what precedes its last line, and that line.
LEMMA FileBeforeLast ==
  ASSUME NEW B, NEW t \in Seq(LinesOver(B)), t # <<>>
  PROVE  /\ Front(t) \in Seq(LinesOver(B)) /\ Last(t) \in LinesOver(B)
         /\ t = Append(Front(t), Last(t))
         /\ Tidy(t) => Terminated(Front(t))
         /\ ~Corrupt(t) => ~Corrupt(Front(t))
<1>1. /\ Len(t) \in Nat /\ Len(t) > 0 /\ DOMAIN t = 1..Len(t)
      /\ \A k \in 1..Len(t) : t[k] \in LinesOver(B)
  OBVIOUS
<1>2. /\ Front(t) \in Seq(LinesOver(B)) /\ Len(Front(t)) = Len(t) - 1
      /\ DOMAIN Front(t) = 1..(Len(t) - 1)
      /\ \A k \in 1..(Len(t) - 1) : Front(t)[k] = t[k]
  BY <1>1 DEF Front
<1>3. Last(t) = t[Len(t)] /\ Last(t) \in LinesOver(B)
  BY <1>1 DEF Last
<1>4. t = Append(Front(t), Last(t))
  <2>1. PICK u \in Seq(LinesOver(B)), line \in LinesOver(B) : t = Append(u, line)
    BY SequenceEmptyOrAppend
  <2>2. Front(t) = u
    BY <2>1 DEF Front
  <2>3. Last(t) = line
    BY <2>1 DEF Last
  <2> QED
    BY <2>1, <2>2, <2>3
<1>5. Tidy(t) => Terminated(Front(t))
  BY <1>1, <1>2 DEF Tidy, Terminated
<1>6. ~Corrupt(t) => ~Corrupt(Front(t))
  BY <1>1, <1>2 DEF Corrupt
<1> QED
  BY <1>2, <1>3, <1>4, <1>5, <1>6

LEMMA TidyWithoutTail ==
  ASSUME NEW B, NEW t \in Seq(LinesOver(B)), Tidy(t), ~OpenTail(t)
  PROVE  Terminated(t)
<1>1. Len(t) \in Nat /\ DOMAIN t = 1..Len(t)
  OBVIOUS
<1>2. CASE t = <<>>
  BY <1>2, EmptyFile
<1>3. CASE t # <<>>
  <2>1. t[Len(t)].lf
    BY <1>3 DEF OpenTail, Last
  <2> QED
    BY <1>1, <2>1 DEF Tidy, Terminated
<1> QED
  BY <1>2, <1>3

\* What a file holds: its records and the calls among them.
SameRecords(t, u) == RecordsOf(t) = RecordsOf(u) /\ CallsOf(t) = CallsOf(u)

OneMoreRecord(t, u, record) ==
  /\ RecordsOf(u) = Append(RecordsOf(t), record)
  /\ CallsOf(u) = IF record.type = "call" THEN Append(CallsOf(t), record) ELSE CallsOf(t)

LEMMA AppendedRecords ==
  ASSUME NEW B, NEW t \in Seq(LinesOver(B)), NEW line \in LinesOver(B), NEW u,
         u = Append(t, line)
  PROVE  IF IsRecord(line.body) THEN OneMoreRecord(t, u, line.body) ELSE SameRecords(t, u)
<1>1. CASE IsRecord(line.body)
  BY <1>1, RecordsOfAppend, CallsOfAppend DEF OneMoreRecord
<1>2. CASE ~IsRecord(line.body)
  <2>1. line.body.type # "call"
    BY <1>2 DEF IsRecord, RecordTypes
  <2> QED
    BY <1>2, <2>1, RecordsOfAppend, CallsOfAppend DEF SameRecords
<1> QED
  BY <1>1, <1>2

\* A writer appends to lines that all have their line feed, at most after blanks.
LEMMA AppendableFile ==
  ASSUME NEW B, NEW t \in Seq(LinesOver(B)), Tidy(t), ~Corrupt(t), Appendable(t)
  PROVE  \E b \in Seq(LinesOver(B)) :
           /\ Terminated(b) /\ ~Corrupt(b) /\ SameRecords(b, t)
           /\ \A line : Put(t, line) = Append(b, line)
           /\ b = IF OpenTail(t) THEN Front(t) ELSE t
<1>1. CASE ~OpenTail(t)
  BY <1>1, TidyWithoutTail DEF Put, SameRecords
<1>2. CASE OpenTail(t)
  <2>1. t # <<>> /\ Last(t).body = Blank
    BY <1>2 DEF OpenTail, Appendable
  <2>2. /\ Front(t) \in Seq(LinesOver(B)) /\ Last(t) \in LinesOver(B)
        /\ t = Append(Front(t), Last(t)) /\ Terminated(Front(t)) /\ ~Corrupt(Front(t))
    BY <2>1, FileBeforeLast
  <2>3. ~IsRecord(Last(t).body)
    BY <2>1 DEF IsRecord, RecordTypes, Blank
  <2>4. SameRecords(Front(t), t)
    BY <2>2, <2>3, AppendedRecords
  <2>5. \A line : Put(t, line) = Append(Front(t), line)
    BY <1>2, <2>1 DEF Put
  <2> QED
    BY <1>2, <2>2, <2>4, <2>5
<1> QED
  BY <1>1, <1>2

\* A record that is written whole is the next record of the file.
LEMMA WholeWrite ==
  ASSUME NEW B, NEW t \in Seq(LinesOver(B)), Tidy(t), ~Corrupt(t), Appendable(t),
         NEW record \in B, IsRecord(record), NEW u, u = Put(t, Whole(record))
  PROVE  /\ u \in Seq(LinesOver(B)) /\ Tidy(u) /\ ~Corrupt(u) /\ ~OpenTail(u)
         /\ OneMoreRecord(t, u, record)
<1>1. PICK b \in Seq(LinesOver(B)) :
        /\ Terminated(b) /\ ~Corrupt(b) /\ SameRecords(b, t)
        /\ \A line : Put(t, line) = Append(b, line)
  BY AppendableFile
<1>2. Whole(record) \in LinesOver(B) /\ Whole(record).lf /\ Whole(record).body = record
  BY DEF Whole, LinesOver
<1>3. u = Append(b, Whole(record))
  BY <1>1
<1>4. record # Torn /\ record # Scalar
  BY DEF IsRecord, RecordTypes, Torn, Scalar
<1>5. OneMoreRecord(b, u, record)
  BY <1>2, <1>3, AppendedRecords
<1> QED
  BY <1>1, <1>2, <1>3, <1>4, <1>5, AppendedFile DEF OneMoreRecord, SameRecords

\* What may still be buffered for a file: the tail it has is part of it.
Awaits(t, record) == OpenTail(t) => Last(t).body \in {Torn, Blank, record}

\* An interrupted write loses no record, and adds no other than its own.
LEMMA InterruptedWrite ==
  ASSUME NEW B, Torn \in B, NEW t \in Seq(LinesOver(B)), Tidy(t), ~Corrupt(t), Appendable(t),
         NEW record \in B, IsRecord(record), NEW u \in Interrupted(t, record)
  PROVE  /\ u \in Seq(LinesOver(B)) /\ Tidy(u) /\ ~Corrupt(u) /\ Awaits(u, record)
         /\ SameRecords(t, u) \/ OneMoreRecord(t, u, record)
         /\ OneMoreRecord(t, Completed(u, record), record)
<1>1. PICK b \in Seq(LinesOver(B)) :
        /\ Terminated(b) /\ ~Corrupt(b) /\ SameRecords(b, t)
        /\ \A line : Put(t, line) = Append(b, line)
        /\ b = IF OpenTail(t) THEN Front(t) ELSE t
  BY AppendableFile
<1>2. /\ record # Torn /\ record # Scalar /\ ~IsRecord(Torn) /\ Torn # Scalar
      /\ Partial(Torn) \in LinesOver(B) /\ Partial(record) \in LinesOver(B)
      /\ Whole(record) \in LinesOver(B)
      /\ ~Partial(Torn).lf /\ Partial(Torn).body = Torn
      /\ ~Partial(record).lf /\ Partial(record).body = record
      /\ Whole(record).lf /\ Whole(record).body = record
  BY DEF IsRecord, RecordTypes, Torn, Scalar, Whole, Partial, LinesOver
<1>3. ~OpenTail(b)
  <2>1. CASE b = <<>>
    BY <2>1, EmptyFile
  <2>2. CASE b # <<>>
    <3>1. Len(b) \in DOMAIN b
      BY <2>2
    <3> QED
      BY <1>1, <3>1 DEF OpenTail, Terminated, Last
  <2> QED
    BY <2>1, <2>2
<1>4. u = t \/ u = Append(b, Partial(Torn)) \/ u = Append(b, Partial(record))
  BY <1>1 DEF Interrupted
<1>5. ASSUME Completed(u, record) = Append(b, Whole(record))
      PROVE  OneMoreRecord(t, Completed(u, record), record)
  <2>1. OneMoreRecord(b, Completed(u, record), record)
    BY <1>2, <1>5, AppendedRecords
  <2> QED
    BY <1>1, <2>1 DEF OneMoreRecord, SameRecords
<1>6. ASSUME NEW line \in {Partial(Torn), Partial(record)}, u = Append(b, line)
      PROVE  /\ u \in Seq(LinesOver(B)) /\ Tidy(u) /\ ~Corrupt(u) /\ Awaits(u, record)
             /\ Completed(u, record) = Append(b, Whole(record))
  <2>1. line \in LinesOver(B) /\ ~line.lf /\ line.body \in {Torn, record}
    BY <1>2
  <2>2. /\ u \in Seq(LinesOver(B)) /\ Tidy(u) /\ Last(u) = line /\ Front(u) = b /\ OpenTail(u)
        /\ ~Corrupt(u)
    BY <1>1, <1>2, <1>6, <2>1, AppendedFile
  <2>3. Completed(u, record) = Put(b, Whole(record))
    BY <2>2 DEF Completed
  <2> QED
    BY <1>3, <2>1, <2>2, <2>3 DEF Awaits, Put
<1>7. CASE u = t
  <2>1. Awaits(u, record)
    BY <1>7 DEF Awaits, Appendable
  <2>2. Completed(u, record) = Append(b, Whole(record))
    BY <1>1, <1>3, <1>7 DEF Completed, Put
  <2> QED
    BY <1>5, <1>7, <2>1, <2>2 DEF SameRecords
<1>8. CASE u = Append(b, Partial(Torn))
  <2>1. SameRecords(b, u)
    BY <1>2, <1>8, AppendedRecords
  <2> QED
    BY <1>1, <1>5, <1>6, <1>8, <2>1 DEF SameRecords
<1>9. CASE u = Append(b, Partial(record))
  <2>1. OneMoreRecord(b, u, record)
    BY <1>2, <1>9, AppendedRecords
  <2> QED
    BY <1>1, <1>5, <1>6, <1>9, <2>1 DEF SameRecords, OneMoreRecord
<1> QED
  BY <1>4, <1>7, <1>8, <1>9

\* The flush at close() neither.
LEMMA LateFlush ==
  ASSUME NEW B, NEW t \in Seq(LinesOver(B)), Tidy(t), ~Corrupt(t),
         NEW record \in B, IsRecord(record), Awaits(t, record), NEW u, u = Completed(t, record)
  PROVE  /\ u \in Seq(LinesOver(B)) /\ Tidy(u) /\ ~Corrupt(u)
         /\ SameRecords(t, u) \/ OneMoreRecord(t, u, record)
<1> DEFINE b == IF OpenTail(t) THEN Front(t) ELSE t
<1>1. /\ record # Torn /\ record # Scalar /\ ~IsRecord(Torn) /\ ~IsRecord(Blank)
      /\ Whole(record) \in LinesOver(B) /\ Whole(record).lf /\ Whole(record).body = record
  BY DEF IsRecord, RecordTypes, Torn, Blank, Scalar, Whole, LinesOver
<1>2. b \in Seq(LinesOver(B)) /\ Terminated(b) /\ ~Corrupt(b)
  BY FileBeforeLast, TidyWithoutTail DEF OpenTail
<1>3. SameRecords(b, t) \/ OneMoreRecord(b, t, record)
  <2>1. CASE ~OpenTail(t)
    BY <2>1 DEF SameRecords
  <2>2. CASE OpenTail(t)
    <3>1. t # <<>>
      BY <2>2 DEF OpenTail
    <3>2. t = Append(b, Last(t)) /\ Last(t) \in LinesOver(B)
      BY <2>2, <3>1, FileBeforeLast
    <3>3. IF IsRecord(Last(t).body) THEN OneMoreRecord(b, t, Last(t).body) ELSE SameRecords(b, t)
      <4> HIDE DEF b
      <4> QED
        BY <1>2, <3>2, AppendedRecords
    <3>4. Last(t).body \in {Torn, Blank, record}
      BY <2>2 DEF Awaits
    <3> QED
      BY <1>1, <3>3, <3>4
  <2> QED
    BY <2>1, <2>2
<1>4. ~OpenTail(b)
  <2>1. CASE b = <<>>
    BY <2>1, EmptyFile
  <2>2. CASE b # <<>>
    <3> HIDE DEF b
    <3>1. Len(b) \in DOMAIN b
      BY <1>2, <2>2
    <3> QED
      BY <1>2, <3>1 DEF OpenTail, Terminated, Last
  <2> QED
    BY <2>1, <2>2
<1>5. u = Append(b, Whole(record))
  <2>1. u = Put(b, Whole(record))
    BY DEF Completed
  <2> HIDE DEF b
  <2> QED
    BY <1>4, <2>1 DEF Put
<1> HIDE DEF b
<1>6. OneMoreRecord(b, u, record)
  BY <1>1, <1>2, <1>5, AppendedRecords
<1>7. u \in Seq(LinesOver(B)) /\ Tidy(u) /\ ~Corrupt(u)
  BY <1>1, <1>2, <1>5, AppendedFile
<1> QED
  BY <1>3, <1>6, <1>7 DEF SameRecords, OneMoreRecord

\* A repair loses no record, and makes the file one to append to.
LEMMA RepairedFile ==
  ASSUME NEW B, \A body \in B : IsRecord(body) \/ body \in {Torn, Scalar, Blank},
         NEW t \in Seq(LinesOver(B)), Tidy(t), ~Corrupt(t), NEW u, u = Repair(t)
  PROVE  /\ u \in Seq(LinesOver(B)) /\ Tidy(u) /\ ~Corrupt(u) /\ Appendable(u)
         /\ SameRecords(t, u)
<1>1. CASE ~OpenTail(t)
  BY <1>1 DEF Repair, Appendable, SameRecords
<1>2. CASE OpenTail(t)
  <2>1. t # <<>>
    BY <1>2 DEF OpenTail
  <2>2. /\ Front(t) \in Seq(LinesOver(B)) /\ Last(t) \in LinesOver(B)
        /\ t = Append(Front(t), Last(t)) /\ Terminated(Front(t)) /\ ~Corrupt(Front(t))
    BY <2>1, FileBeforeLast
  <2>3. IF IsRecord(Last(t).body) THEN OneMoreRecord(Front(t), t, Last(t).body)
        ELSE SameRecords(Front(t), t)
    BY <2>2, AppendedRecords
  <2>4. CASE Last(t).body = Torn
    <3>1. u = Front(t) /\ ~IsRecord(Torn)
      BY <1>2, <2>4 DEF Repair, IsRecord, RecordTypes, Torn
    <3>2. Tidy(u) /\ ~OpenTail(u)
      <4>1. Len(u) \in Nat /\ DOMAIN u = 1..Len(u)
        BY <2>2, <3>1
      <4> QED
        BY <2>2, <3>1, <4>1 DEF Tidy, Terminated, OpenTail, Last
    <3> QED
      BY <2>2, <2>3, <2>4, <3>1, <3>2 DEF Appendable, SameRecords
  <2>5. CASE IsRecord(Last(t).body)
    <3> DEFINE line == Whole(Last(t).body)
    <3>1. /\ line \in LinesOver(B) /\ line.lf /\ line.body = Last(t).body
          /\ line.body # Torn /\ line.body # Scalar
      BY <2>2, <2>5 DEF Whole, LinesOver, IsRecord, RecordTypes, Torn, Scalar
    <3>2. u = Append(Front(t), line)
      BY <1>2, <2>5, <3>1 DEF Repair
    <3> HIDE DEF line
    <3>3. OneMoreRecord(Front(t), u, Last(t).body)
      BY <2>2, <2>5, <3>1, <3>2, AppendedRecords
    <3>4. u \in Seq(LinesOver(B)) /\ Tidy(u) /\ ~Corrupt(u) /\ ~OpenTail(u)
      BY <2>2, <3>1, <3>2, AppendedFile
    <3> QED
      BY <2>3, <2>5, <3>3, <3>4 DEF Appendable, SameRecords, OneMoreRecord
  <2>6. CASE Last(t).body # Torn /\ ~IsRecord(Last(t).body)
    <3>1. Last(t).body # Scalar
      <4>1. Last(t) = t[Len(t)] /\ Len(t) \in DOMAIN t
        BY <2>1 DEF Last
      <4> QED
        BY <4>1 DEF Corrupt
    <3>2. Last(t).body = Blank
      BY <2>2, <2>6, <3>1 DEF LinesOver
    <3>3. u = t
      BY <1>2, <2>6 DEF Repair
    <3> QED
      BY <3>2, <3>3 DEF Appendable, SameRecords
  <2> QED
    BY <2>4, <2>5, <2>6
<1> QED
  BY <1>1, <1>2
================================================================================
