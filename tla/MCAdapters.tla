------------------------------- MODULE MCAdapters ------------------------------
(* An instance of Adapters for TLC.                                        *)
EXTENDS Adapters

Usage(in, out, sum) == [input |-> in, output |-> out, total |-> sum]

\* No report, both parts without their total, the total alone, and one part.
MCExecReports == {None, Usage(1, 2, None), Usage(None, None, 4), Usage(1, None, None)}

\* The host's fields are 0 where it does not know.
MCHostReports == {None, Usage(1, 2, 0), Usage(0, 0, 0), Usage(None, 2, None)}
================================================================================
