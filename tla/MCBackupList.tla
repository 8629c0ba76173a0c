---------------------------- MODULE MCBackupList ----------------------------
(* A small instance of BackupList.                                         *)
EXTENDS BackupList

CONSTANTS f, g, torn

MCContents == {f, g}
\* One that leaves nothing for the name; one with runes to drop at both ends
\* and two of them together in the middle.
MCReasons == {<<" ">>, <<" ", "A", "!", " ", "b", "-">>}
MCRunes == {"a", "b", "r", ":", "_", "-", ".", " ", "A", "!", "0", "1", "2", "3", "4"}
MCDigits == [n \in 0 .. MaxClock |-> ToString(n)]
Symmetry == Permutations(MCContents)
=============================================================================
