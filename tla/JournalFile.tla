------------------------------ MODULE JournalFile ------------------------------
(***************************************************************************)
(* The content of one run journal (core/journal.py): a sequence of JSONL   *)
(* lines.  A line has a body and says whether its line feed was written;   *)
(* only the last line of a file can lack it.  A body is a record the       *)
(* program writes (header, call, result) or text that is not one:          *)
(*   Torn    bytes that json.loads or the UTF-8 decoder rejects            *)
(*   Scalar  a JSON value that is not an object                            *)
(*   Blank   white space                                                   *)
(* The text of a record is irrelevant; its type is not.                    *)
(***************************************************************************)
EXTENDS Sequences, SequencesExt, Naturals

Torn   == [type |-> "torn"]
Scalar == [type |-> "scalar"]
Blank  == [type |-> "blank"]

RecordTypes == {"header", "call", "result"}

IsRecord(body) == body.type \in RecordTypes

Whole(body)   == [body |-> body, lf |-> TRUE]
Partial(body) == [body |-> body, lf |-> FALSE]

\* The last line was not terminated: the reader's "final segment".
OpenTail(t) == t # <<>> /\ ~Last(t).lf

(***************************************************************************)
(* _parse_jsonl_bytes.  It raises JournalCorrupt for a terminated line     *)
(* that is not JSON, and for a JSON value that is not an object wherever   *)
(* it stands; an unterminated last line that is not JSON is only cut off.  *)
(***************************************************************************)
Corrupt(t) ==
  \E k \in DOMAIN t :
    \/ t[k].body = Torn /\ t[k].lf
    \/ t[k].body = Scalar

RecordsOf(t) ==
  FoldLeft(LAMBDA found, line : IF IsRecord(line.body) THEN Append(found, line.body) ELSE found,
           <<>>, t)

CallsOf(t) ==
  FoldLeft(LAMBDA found, record : IF record.type = "call" THEN Append(found, record) ELSE found,
           <<>>, RecordsOf(t))

\* Mutant: the torn last segment is left in place.
Repair_KeepsTorn(t) ==
  IF OpenTail(t) /\ IsRecord(Last(t).body)
  THEN Append(Front(t), Whole(Last(t).body)) ELSE t

\* Mutant: a whole last record that only lacks its line feed is cut off as well.
Repair_CutsRecords(t) == IF OpenTail(t) THEN Front(t) ELSE t

(***************************************************************************)
(* _read_records_from_fd with mutate=True: "truncate" drops the torn last  *)
(* segment, "append_lf" terminates a whole last record; a blank tail stays.*)
(***************************************************************************)
Repair(t) ==
  IF ~OpenTail(t) THEN t
  ELSE IF Last(t).body = Torn THEN Front(t)
  ELSE IF IsRecord(Last(t).body) THEN Append(Front(t), Whole(Last(t).body))
  ELSE t

(***************************************************************************)
(* An O_APPEND write of one line.  Bytes that follow an unterminated line  *)
(* become part of it: white space is harmless, anything else is not JSON.  *)
(***************************************************************************)
Put(t, line) ==
  IF ~OpenTail(t) THEN Append(t, line)
  ELSE IF Last(t).body = Blank THEN Append(Front(t), line)
  ELSE Append(Front(t), [body |-> Torn, lf |-> line.lf])

\* What a failed or interrupted write of a record may have left behind:
\* nothing, a prefix, or everything but the line feed.
Interrupted(t, body) ==
  {t, Put(t, Partial(Torn)), Put(t, Partial(body))}

\* The buffered rest of an interrupted write reaches the file at close().
Completed(t, body) ==
  Put(IF OpenTail(t) THEN Front(t) ELSE t, Whole(body))
================================================================================
