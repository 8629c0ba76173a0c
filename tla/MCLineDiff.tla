----------------------------- MODULE MCLineDiff -----------------------------
(* All pairs of files of up to four lines over two lines, and some long    *)
(* enough for runs to be shortened.                                        *)
EXTENDS LineDiff

CONSTANTS a, b

Run(n) == [k \in 1 .. n |-> a]
LongFiles ==
  {Run(n) : n \in 6 .. 8} \cup {Run(n) \o <<b>> : n \in 6 .. 8}
  \cup {<<b>> \o Run(7), <<b>> \o Run(7) \o <<b>>}
MCText == {a, b}
Short == BoundedSeq(MCText, 4)
MCPairs == (Short \X Short) \cup (LongFiles \X LongFiles)
=============================================================================
