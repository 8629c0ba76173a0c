----------------------------- MODULE FuzzyMatch -----------------------------
(***************************************************************************)
(* fuzzyContains and levenshteinDistanceWithin of internal/engine, loop by *)
(* loop: every window of the text of a likely length is measured against   *)
(* the word, row by row of the table of distances, and given up when a row *)
(* exceeds the bound; the nearest window is the evidence.  The word and    *)
(* the bound belong to a compiled rule, the texts are those of requests.   *)
(*                                                                         *)
(* Words and texts are normalized; a rune is a member of Letters.          *)
(***************************************************************************)
EXTENDS Integers, SequencesExt

CONSTANTS
  Letters,   \* the runes
  Words,     \* the words of rules; normalizing may have made one empty
  Bounds,    \* the values of max_edit_distance
  Texts      \* the texts of fragments

ASSUME InputsAssumption ==
  /\ Words \subseteq Seq(Letters)
  /\ Texts \subseteq Seq(Letters)
  /\ Bounds \subseteq Nat

VARIABLES
  word, bound,   \* the rule
  text,          \* the text it is matched against
  pc,            \* the loop the call is in, "idle" between calls
  width, start,  \* the window, and the runes before it
  row, prev,     \* the row to compute next, and the row before it
  best,          \* the least distance so far
  evidence       \* the window at that distance; empty means no match

vars == <<word, bound, text, pc, width, start, row, prev, best, evidence>>
rule == <<word, bound>>
table == <<row, prev>>
result == <<best, evidence>>

Init ==
  /\ word \in Words /\ bound \in Bounds
  /\ text = <<>> /\ pc = "idle"
  /\ width = 0 /\ start = 0
  /\ row = 0 /\ prev = <<>>
  /\ best = 0 /\ evidence = <<>>

-----------------------------------------------------------------------------
(* Helpers.                                                                *)

Window(t, s, w) == SubSeq(t, s + 1, s + w)
Occurs(t) == \E s \in 0 .. Len(t) - Len(word) : Window(t, s, Len(word)) = word

MinWindowLate == IF Len(word) <= bound THEN 1 ELSE Len(word) - bound + 1  \* slip

MinWindow == IF Len(word) - bound < 1 THEN 1 ELSE Len(word) - bound
MaxWindow(t) == IF Len(word) + bound > Len(t) THEN Len(t) ELSE Len(word) + bound

Least(ns) == CHOOSE n \in ns : \A m \in ns : n <= m

\* The next row: distances of the window's first row runes to the prefixes of
\* the word.
NextRow ==
  LET curr[j \in 0 .. Len(word)] ==
        IF j = 0 THEN row
        ELSE Least({prev[j] + 1, curr[j - 1] + 1,
                    prev[j - 1] + IF text[start + row] = word[j] THEN 0 ELSE 1})
  IN  [j \in 0 .. Len(word) |-> curr[j]]

CloserAny(distance) == distance <= bound     \* slip: the last one is kept
Closer(distance) == distance <= bound /\ distance < best

-----------------------------------------------------------------------------
(* fuzzyContains.                                                          *)

\* Nothing to look for or in, the word itself, or no window of such a length.
CallShort ==
  /\ pc = "idle"
  /\ \E t \in Texts :
       /\ text' = t
       /\ \/ (word = <<>> \/ t = <<>>) /\ evidence' = <<>>
          \/ word # <<>> /\ t # <<>> /\ Occurs(t) /\ evidence' = word
          \/ /\ word # <<>> /\ t # <<>> /\ ~Occurs(t)
             /\ MinWindow > MaxWindow(t) /\ evidence' = <<>>
  /\ best' = 0
  /\ UNCHANGED <<rule, pc, width, start, table>>

Call ==
  /\ pc = "idle"
  /\ \E t \in Texts :
       /\ word # <<>> /\ t # <<>> /\ ~Occurs(t)
       /\ MinWindow <= MaxWindow(t)
       /\ text' = t
  /\ width' = MinWindow /\ start' = 0
  /\ best' = bound + 1 /\ evidence' = <<>>
  /\ pc' = "windows"
  /\ UNCHANGED <<rule, table>>

Widen ==
  /\ pc = "windows" /\ width <= MaxWindow(text) /\ start + width > Len(text)
  /\ width' = width + 1 /\ start' = 0
  /\ UNCHANGED <<rule, text, pc, table, result>>

\* Back to the idle state, in which the working variables are reset.
Return ==
  /\ pc = "windows" /\ width > MaxWindow(text)
  /\ pc' = "idle" /\ width' = 0 /\ start' = 0 /\ row' = 0 /\ prev' = <<>>
  /\ best' = 0
  /\ UNCHANGED <<rule, text, evidence>>

-----------------------------------------------------------------------------
(* levenshteinDistanceWithin.                                              *)

TooFarInLength == width - Len(word) > bound \/ Len(word) - width > bound

Measure ==
  /\ pc = "windows" /\ width <= MaxWindow(text) /\ start + width <= Len(text)
  /\ IF TooFarInLength
     THEN start' = start + 1 /\ UNCHANGED <<pc, table>>
     ELSE /\ row' = 1 /\ prev' = [j \in 0 .. Len(word) |-> j]
          /\ pc' = "rows" /\ UNCHANGED start
  /\ UNCHANGED <<rule, text, width, result>>

AddRow ==
  /\ pc = "rows" /\ row <= width
  /\ IF Least({NextRow[j] : j \in 0 .. Len(word)}) > bound
     THEN pc' = "windows" /\ start' = start + 1 /\ UNCHANGED table
     ELSE row' = row + 1 /\ prev' = NextRow /\ UNCHANGED <<pc, start>>
  /\ UNCHANGED <<rule, text, width, result>>

\* The distance is known; a window at distance 0 would end the search.
Compare ==
  /\ pc = "rows" /\ row > width
  /\ LET distance == prev[Len(word)] IN
       IF Closer(distance)
       THEN /\ evidence' = Window(text, start, width)
            /\ best' = distance
       ELSE UNCHANGED result
  /\ pc' = "windows"
  /\ IF Closer(prev[Len(word)]) /\ prev[Len(word)] = 0
     THEN width' = MaxWindow(text) + 1 /\ UNCHANGED start
     ELSE start' = start + 1 /\ UNCHANGED width
  /\ UNCHANGED <<rule, text, table>>

Next == CallShort \/ Call \/ Widen \/ Return \/ Measure \/ AddRow \/ Compare

Spec == Init /\ [][Next]_vars

-----------------------------------------------------------------------------
(* What a match means, without tables and windows: single edits of the     *)
(* word, one after the other.                                              *)

Edits(s) ==
  {RemoveAt(s, n) : n \in DOMAIN s}
  \cup {InsertAt(s, n, c) : n \in 1 .. Len(s) + 1, c \in Letters}
  \cup {ReplaceAt(s, n, c) : n \in DOMAIN s, c \in Letters}

\* The strings that at most n edits make of the word.
Around[n \in 0 .. bound] ==
  IF n = 0 THEN {word}
  ELSE LET near == Around[n - 1] IN near \cup UNION {Edits(s) : s \in near}

Parts == {SubSeq(text, a, b) : a \in 1 .. Len(text), b \in 1 .. Len(text)} \ {<<>>}

\* A rule matches a text exactly if at most max_edit_distance insertions,
\* deletions and replacements turn its word into some part of the text: no
\* window is missed by the choice of lengths or by giving up on a row.
MatchesWhatIsNear ==
  pc = "idle" /\ word # <<>> =>
    (evidence # <<>> <=> Parts \cap Around[bound] # {})

\* The evidence of a match is a part of the text, and no other part is nearer.
EvidenceIsNearest ==
  pc = "idle" /\ evidence # <<>> =>
    /\ evidence \in Parts
    /\ \A n \in 0 .. bound :
         Parts \cap Around[n] # {} => evidence \in Around[n]
=============================================================================
