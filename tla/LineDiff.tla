------------------------------ MODULE LineDiff ------------------------------
(***************************************************************************)
(* buildLineDiff of internal/server, which an administrator reads before a *)
(* configuration is applied: diffLines fills a table of longest common     *)
(* subsequences from the ends of both files, walks it from their           *)
(* beginnings, and squashEqualRuns shortens long runs of unchanged lines.  *)
(* One pass of a loop is one step.  A file is the sequence of lines that   *)
(* splitLines makes of it.                                                 *)
(***************************************************************************)
EXTENDS Integers, SequencesExt

CONSTANTS
  Text,    \* the lines
  Pairs    \* the pairs of a current and a proposed file

ASSUME PairsAssumption == Pairs \subseteq Seq(Text) \X Seq(Text)

VARIABLES
  current, proposed,   \* the files
  pc,                  \* the loop: "fill", "walk", "squash", then "done"
  i, j,                \* the lines the loop is at
  lcs,                 \* lcs[<<n, m>>]: common lines from lines n and m on
  ops,                 \* the edit script
  equals,              \* the unchanged lines squashEqualRuns holds back
  out                  \* the script that is shown

vars == <<current, proposed, pc, i, j, lcs, ops, equals, out>>
files == <<current, proposed>>

Init ==
  /\ \E p \in Pairs : current = p[1] /\ proposed = p[2]
  /\ pc = "fill" /\ i = Len(current) /\ j = Len(proposed)
  /\ lcs = [c \in (1 .. Len(current) + 1) \X (1 .. Len(proposed) + 1) |-> 0]
  /\ ops = <<>> /\ equals = <<>> /\ out = <<>>

-----------------------------------------------------------------------------
(* diffLines.                                                              *)

Cell(n, m) ==
  IF current[n] = proposed[m] THEN lcs[<<n + 1, m + 1>>] + 1
  ELSE IF lcs[<<n + 1, m>>] >= lcs[<<n, m + 1>>] THEN lcs[<<n + 1, m>>]
  ELSE lcs[<<n, m + 1>>]

Fill ==
  /\ pc = "fill" /\ i > 0 /\ j > 0
  /\ lcs' = [lcs EXCEPT ![<<i, j>>] = Cell(i, j)]
  /\ IF j > 1 THEN j' = j - 1 /\ UNCHANGED i
              ELSE j' = Len(proposed) /\ i' = i - 1
  /\ UNCHANGED <<files, pc, ops, equals, out>>

Filled ==
  /\ pc = "fill" /\ (i = 0 \/ j = 0)
  /\ pc' = "walk" /\ i' = 1 /\ j' = 1
  /\ UNCHANGED <<files, lcs, ops, equals, out>>

Both == i <= Len(current) /\ j <= Len(proposed)
Same == Both /\ current[i] = proposed[j]
Emit(prefix, line) == ops' = Append(ops, [prefix |-> prefix, line |-> line])

Keep ==
  /\ pc = "walk" /\ Same
  /\ Emit(" ", current[i])
  /\ i' = i + 1 /\ j' = j + 1
  /\ UNCHANGED <<files, pc, lcs, equals, out>>

DeleteGreedy ==            \* slip: the table is not looked at
  /\ pc = "walk" /\ i <= Len(current) /\ ~Same
  /\ Emit("-", current[i])
  /\ i' = i + 1
  /\ UNCHANGED <<files, pc, j, lcs, equals, out>>

Delete ==
  /\ pc = "walk" /\ i <= Len(current) /\ ~Same
  /\ Both => lcs[<<i + 1, j>>] >= lcs[<<i, j + 1>>]
  /\ Emit("-", current[i])
  /\ i' = i + 1
  /\ UNCHANGED <<files, pc, j, lcs, equals, out>>

InsertOld ==             \* slip: the line is taken from the wrong file
  /\ pc = "walk" /\ j <= Len(proposed) /\ ~Same
  /\ Both => lcs[<<i + 1, j>>] < lcs[<<i, j + 1>>]
  /\ Emit("+", IF Both THEN current[i] ELSE proposed[j])
  /\ j' = j + 1
  /\ UNCHANGED <<files, pc, i, lcs, equals, out>>

Insert ==
  /\ pc = "walk" /\ j <= Len(proposed) /\ ~Same
  /\ Both => lcs[<<i + 1, j>>] < lcs[<<i, j + 1>>]
  /\ Emit("+", proposed[j])
  /\ j' = j + 1
  /\ UNCHANGED <<files, pc, i, lcs, equals, out>>

Walked ==
  /\ pc = "walk" /\ i > Len(current) /\ j > Len(proposed)
  /\ pc' = "squash" /\ i' = 1
  /\ UNCHANGED <<files, j, lcs, ops, equals, out>>

-----------------------------------------------------------------------------
(* squashEqualRuns.                                                        *)

SquashedShort(run) ==      \* slip: the last lines of the run are lost
  IF Len(run) <= 6 THEN run
  ELSE SubSeq(run, 1, 3) \o <<[prefix |-> "@", hidden |-> Len(run) - 6]>>

Squashed(run) ==
  IF Len(run) <= 6 THEN run
  ELSE SubSeq(run, 1, 3) \o <<[prefix |-> "@", hidden |-> Len(run) - 6]>>
         \o SubSeq(run, Len(run) - 2, Len(run))

ChangeAhead == \E k \in i + 1 .. Len(ops) : ops[k].prefix # " "

\* Unchanged lines with no change ahead are shown at once.
HoldEqual ==
  /\ pc = "squash" /\ i <= Len(ops) /\ ops[i].prefix = " "
  /\ LET run == Append(equals, ops[i]) IN
       IF ChangeAhead
       THEN equals' = run /\ UNCHANGED out
       ELSE equals' = <<>> /\ out' = out \o Squashed(run)
  /\ i' = i + 1
  /\ UNCHANGED <<files, pc, j, lcs, ops>>

ShowChange ==
  /\ pc = "squash" /\ i <= Len(ops) /\ ops[i].prefix # " "
  /\ out' = Append(out \o Squashed(equals), ops[i])
  /\ equals' = <<>>
  /\ i' = i + 1
  /\ UNCHANGED <<files, pc, j, lcs, ops>>

Finish ==
  /\ pc = "squash" /\ i > Len(ops)
  /\ out' = out \o equals
  /\ equals' = <<>>
  /\ pc' = "done"
  /\ UNCHANGED <<files, i, j, lcs, ops>>

Next == Fill \/ Filled \/ Keep \/ Delete \/ Insert \/ Walked
        \/ HoldEqual \/ ShowChange \/ Finish

Spec == Init /\ [][Next]_vars

-----------------------------------------------------------------------------
(* What the administrator relies on.                                       *)

\* The lines of those operations whose prefix is one of ps.
Lines(script, ps) ==
  LET Add(lines, op) == IF op.prefix \in ps THEN Append(lines, op.line) ELSE lines
  IN  FoldLeft(Add, <<>>, script)

\* The edit script holds both files, at every step of the walk: without its
\* additions it is the current file so far, without its removals the proposed.
RebuildsBoth ==
  pc # "fill" =>
    LET n == IF pc = "walk" THEN i - 1 ELSE Len(current)
        m == IF pc = "walk" THEN j - 1 ELSE Len(proposed)
    IN  /\ Lines(ops, {" ", "-"}) = SubSeq(current, 1, n)
        /\ Lines(ops, {" ", "+"}) = SubSeq(proposed, 1, m)

\* A file without the lines whose numbers are not kept, and all that can be left
\* of a file in this way.
Thinned(file, kept) ==
  Lines([n \in DOMAIN file |-> [prefix |-> n, line |-> file[n]]], kept)
Thinnings(file) == {Thinned(file, kept) : kept \in SUBSET DOMAIN file}

\* No script with more unchanged lines exists: the table gives the longest
\* common subsequence of the two files.
ChangesAreFewest ==
  pc = "done" =>
    \A common \in Thinnings(current) \cap Thinnings(proposed) :
      Len(common) <= Len(Lines(ops, {" "}))

\* What is shown is the edit script with nothing but unchanged lines left
\* out, as many as the marker says, each at least three lines from a change.
Hides(entry) == IF entry.prefix = "@" THEN entry.hidden ELSE 1
Position(n) ==   \* where in ops the entry n of out begins
  LET Add(sum, entry) == sum + Hides(entry)
  IN  FoldLeft(Add, 1, SubSeq(out, 1, n - 1))

OnlyUnchangedIsHidden ==
  pc = "done" =>
    /\ Position(Len(out) + 1) = Len(ops) + 1
    /\ \A n \in DOMAIN out :
         IF out[n].prefix = "@"
         THEN \A k \in Position(n) - 3 .. Position(n) + out[n].hidden + 2 :
                k \in DOMAIN ops /\ ops[k].prefix = " "
         ELSE out[n] = ops[Position(n)]
=============================================================================
