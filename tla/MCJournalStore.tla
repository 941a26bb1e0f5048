---------------------------- MODULE MCJournalStore -----------------------------
(* Instances of JournalStore for TLC.                                      *)
EXTENDS JournalStore, TLC

CONSTANTS w1, w2, r1, r2, g1, g2, n1, i1, i2

MCInodes == {i1, i2}
FileSymmetry    == Permutations(MCInodes)
ResumerSymmetry == Permutations(MCInodes) \cup Permutations({r1, r2})

\* Journals other runs left behind: an empty claim, a torn header, a crash after
\* a call, a crash within a call, and a finished run.
CleanSeeds ==
  {<<>>,
   <<Partial(Torn)>>,
   <<Whole(Header), Partial(Call(0))>>,
   <<Whole(Header), Whole(Call(0)), Partial(Torn)>>,
   <<Whole(Header), Whole(Call(0)), Whole(Result)>>}

\* And journals something else has damaged.
DirtySeeds ==
  {<<Whole(Torn)>>,
   <<Whole(Header), Partial(Scalar)>>,
   <<Whole(Header), Whole(Torn), Whole(Call(0))>>,
   <<Whole(Blank), Whole(Header), Partial(Blank)>>,
   <<Whole(Call(0))>>}

\* A few of each, where liveness is checked.
MixedSeeds ==
  {<<>>,
   <<Whole(Header), Partial(Call(0))>>,
   <<Whole(Header), Whole(Call(0)), Partial(Torn)>>,
   <<Whole(Torn)>>,
   <<Whole(Header), Whole(Torn), Whole(Call(0))>>,
   <<Whole(Header), Partial(Scalar)>>}

================================================================================
