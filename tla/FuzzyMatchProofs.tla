-------------------------- MODULE FuzzyMatchProofs --------------------------
(***************************************************************************)
(* The theorems of FuzzyMatch, for every word, text and bound: a rule      *)
(* matches what is within its number of edits, and reports the nearest.    *)
(*                                                                         *)
(* The distance of two strings is the last entry of their table, which the *)
(* equations of levenshteinDistanceWithin determine (IsTable).  An edit of *)
(* a string moves it by at most one (EditIsNear), so n edits by at most n  *)
(* (AroundIsNear); and every entry of a table is the number of edits of a  *)
(* way through strings that begin like one string and end like the other   *)
(* (Between), so a string at distance n is within n edits (NearIsAround).  *)
(* A window that is not measured is too far away: by its length, or since  *)
(* no row comes back below what a whole row exceeds (RowGivesUp).  What is *)
(* left is the search: the best so far is the nearest of the windows it    *)
(* has passed (Searched), and the row it holds is one of the table.        *)
(***************************************************************************)
EXTENDS FuzzyMatch, InductionLemmas

-----------------------------------------------------------------------------
(* The least of numbers.                                                   *)

LEMMA LeastOfSome ==
  ASSUME NEW S \in SUBSET Nat, S # {}
  PROVE  Least(S) \in S /\ \A n \in S : Least(S) <= n
  <1> DEFINE Has == \E m \in S : \A k \in S : m <= k
  <1>1. PICK x \in S : TRUE
    OBVIOUS
  <1> DEFINE P == {n \in 0 .. x : (\E m \in S : m <= n) => Has}
  <1>2. 0 \in P
    OBVIOUS
  <1>3. ASSUME NEW n \in P, n < x PROVE n + 1 \in P
    <2>1. CASE \E m \in S : m <= n
      BY <1>1, <1>3, <2>1
    <2>2. CASE ~\E m \in S : m <= n
      <3>1. \A m \in S : m >= n + 1
        BY <1>1, <1>3, <2>2
      <3>2. ASSUME NEW m \in S, m <= n + 1 PROVE Has
        <4>1. m = n + 1
          BY <1>1, <1>3, <3>1, <3>2
        <4> QED  BY <3>1, <4>1
      <3>3. n + 1 \in 0 .. x
        BY <1>1, <1>3
      <3> HIDE DEF Has
      <3> QED  BY <3>2, <3>3
    <2> QED  BY <2>1, <2>2
  <1>4. P = 0 .. x
    <2>1. x \in Nat /\ P \subseteq 0 .. x
      BY <1>1
    <2> HIDE DEF P
    <2> QED  BY <1>2, <1>3, <2>1, InductionUpTo, Zenon
  <1>5. Has
    <2>1. x \in P /\ x <= x
      BY <1>1, <1>4
    <2> HIDE DEF Has
    <2> QED  BY <1>1, <2>1
  <1> QED  BY <1>5 DEF Least

LeastOf(n, a, b, c) == n \in {a, b, c} /\ n <= a /\ n <= b /\ n <= c

LEMMA LeastOfThree ==
  ASSUME NEW a \in Nat, NEW b \in Nat, NEW c \in Nat
  PROVE  Least({a, b, c}) \in Nat /\ LeastOf(Least({a, b, c}), a, b, c)
  <1>1. {a, b, c} \in SUBSET Nat /\ {a, b, c} # {}
    OBVIOUS
  <1>2. Least({a, b, c}) \in {a, b, c} /\ \A n \in {a, b, c} : Least({a, b, c}) <= n
    BY <1>1, LeastOfSome
  <1> QED  BY <1>2 DEF LeastOf

-----------------------------------------------------------------------------
(* The table of distances, as equations of its entries.                    *)

Cost(rune, other) == IF rune = other THEN 0 ELSE 1

\* The row of i runes that end in rune, by the row before it.
IsRow(curr, before, i, rune, w) ==
  /\ curr \in [0 .. Len(w) -> Nat]
  /\ curr[0] = i
  /\ \A j \in 1 .. Len(w) :
       LeastOf(curr[j], before[j] + 1, curr[j - 1] + 1, before[j - 1] + Cost(rune, w[j]))

\* The equation that fills a row.
FilledRow(curr, before, i, rune, w) ==
  curr = [j \in 0 .. Len(w) |->
            IF j = 0 THEN i
            ELSE Least({before[j] + 1, curr[j - 1] + 1, before[j - 1] + Cost(rune, w[j])})]

LEMMA RowExists ==
  ASSUME NEW w, NEW m, m = Len(w), m \in Nat, NEW before \in [0 .. m -> Nat], NEW i \in Nat, NEW rune
  PROVE  \E curr \in [0 .. m -> Nat] : FilledRow(curr, before, i, rune, w)
  <1> DEFINE Made(f, j) == Least({before[j] + 1, f[j - 1] + 1, before[j - 1] + Cost(rune, w[j])})
             Filled(f, n) == f = [j \in 0 .. n |-> IF j = 0 THEN i ELSE Made(f, j)]
             P == {n \in 0 .. m : \E f \in [0 .. n -> Nat] : Filled(f, n)}
  <1>1. 0 \in P
    <2> DEFINE f == [j \in 0 .. 0 |-> i]
    <2>1. f \in [0 .. 0 -> Nat] /\ Filled(f, 0)
      OBVIOUS
    <2>2. 0 \in 0 .. m
      OBVIOUS
    <2> HIDE DEF f, Filled
    <2> QED  BY <2>1, <2>2
  <1>2. ASSUME NEW n \in P, n < m PROVE n + 1 \in P
    <2>1. PICK f \in [0 .. n -> Nat] : Filled(f, n)
      BY <1>2
    <2>2. n \in Nat /\ n + 1 \in 0 .. m /\ n + 1 \in 1 .. m /\ n \in 0 .. m
      BY <1>2
    <2>3. Made(f, n + 1) \in Nat
      <3> DEFINE a == before[n + 1] + 1
                 b == f[n] + 1
                 c == before[n] + Cost(rune, w[n + 1])
      <3>1. a \in Nat /\ b \in Nat
        BY <2>2
      <3>2. c \in Nat
        <4>1. before[n] \in Nat /\ Cost(rune, w[n + 1]) \in {0, 1}
          BY <2>2 DEF Cost
        <4> QED  BY <4>1
      <3>3. Made(f, n + 1) = Least({a, b, c})
        BY <2>2
      <3>4. Least({a, b, c}) \in Nat
        <4> HIDE DEF a, b, c
        <4> QED  BY <3>1, <3>2, LeastOfThree
      <3> HIDE DEF a, b, c, Made
      <3> QED  BY <3>3, <3>4
    <2> HIDE DEF Made
    <2> DEFINE g == [j \in 0 .. n + 1 |-> IF j = n + 1 THEN Made(f, n + 1) ELSE f[j]]
    <2>4. g \in [0 .. n + 1 -> Nat]
      BY <2>2, <2>3
    <2>5. ASSUME NEW j \in 0 .. n + 1, j # 0 PROVE Made(g, j) = Made(f, j)
      <3>1. j - 1 \in 0 .. n + 1 /\ j - 1 # n + 1 /\ g[j - 1] = f[j - 1]
        BY <2>2, <2>5
      <3> HIDE DEF g
      <3> QED  BY <3>1 DEF Made
    <2>6. ASSUME NEW j \in 0 .. n + 1 PROVE g[j] = IF j = 0 THEN i ELSE Made(g, j)
      <3>1. CASE j = n + 1
        <4>1. g[j] = Made(f, j) /\ j # 0
          BY <2>2, <3>1
        <4> HIDE DEF g
        <4> QED  BY <2>5, <4>1
      <3>2. CASE j # n + 1
        <4>1. j \in 0 .. n /\ g[j] = f[j]
          BY <2>2, <3>2
        <4>2. f[j] = IF j = 0 THEN i ELSE Made(f, j)
          BY <2>1, <4>1
        <4> HIDE DEF g
        <4> QED  BY <2>5, <4>1, <4>2
      <3> QED  BY <3>1, <3>2
    <2>7. Filled(g, n + 1)
      <3>1. g = [j \in 0 .. n + 1 |-> g[j]]
        OBVIOUS
      <3> HIDE DEF g
      <3> QED  BY <2>6, <3>1
    <2> HIDE DEF g, Filled
    <2> QED  BY <2>2, <2>4, <2>7
  <1>3. m \in P
    <2>1. P \subseteq 0 .. m
      OBVIOUS
    <2> HIDE DEF P
    <2>2. P = 0 .. m
      BY <1>1, <1>2, <2>1, InductionUpTo, Zenon
    <2> QED  BY <2>2
  <1> QED  BY <1>3 DEF FilledRow

\* What fills a row by its equation is the row.
LEMMA RowByEquation ==
  ASSUME NEW w, NEW m \in Nat, m = Len(w), NEW before \in [0 .. m -> Nat],
         NEW i \in Nat, NEW rune, NEW curr \in [0 .. m -> Nat],
         FilledRow(curr, before, i, rune, w)
  PROVE  IsRow(curr, before, i, rune, w)
  <1>1. curr[0] = i
    <2>1. 0 \in 0 .. m
      OBVIOUS
    <2> QED  BY <2>1
  <1>2. ASSUME NEW j \in 1 .. m
        PROVE  LeastOf(curr[j], before[j] + 1, curr[j - 1] + 1, before[j - 1] + Cost(rune, w[j]))
    <2>1. j \in 0 .. m /\ j # 0 /\ j - 1 \in 0 .. m
      OBVIOUS
    <2>2. curr[j] = Least({before[j] + 1, curr[j - 1] + 1, before[j - 1] + Cost(rune, w[j])})
      BY <2>1
    <2> DEFINE a == before[j] + 1
               b == curr[j - 1] + 1
               c == before[j - 1] + Cost(rune, w[j])
    <2>3. a \in Nat /\ b \in Nat
      <3>1. before[j] \in Nat /\ curr[j - 1] \in Nat
        BY <2>1
      <3> QED  BY <3>1
    <2>4. c \in Nat
      <3>1. before[j - 1] \in Nat /\ Cost(rune, w[j]) \in Nat
        BY <2>1 DEF Cost
      <3> QED  BY <3>1
    <2>5. LeastOf(Least({a, b, c}), a, b, c)
      <3> HIDE DEF a, b, c
      <3> QED  BY <2>3, <2>4, LeastOfThree
    <2> QED  BY <2>2, <2>5
  <1> QED  BY <1>1, <1>2 DEF IsRow

\* There is one such row.
LEMMA RowUnique ==
  ASSUME NEW w, Len(w) \in Nat, NEW before \in [0 .. Len(w) -> Nat],
         NEW i, NEW rune, NEW f, NEW g,
         IsRow(f, before, i, rune, w), IsRow(g, before, i, rune, w)
  PROVE  f = g
  <1> DEFINE m == Len(w)
             P == {n \in 0 .. m : f[n] = g[n]}
  <1>1. 0 \in P
    BY DEF IsRow
  <1>2. ASSUME NEW n \in P, n < m PROVE n + 1 \in P
    <2>1. n + 1 \in 1 .. m /\ n + 1 - 1 = n /\ f[n] = g[n] /\ n \in 0 .. m
      BY <1>2
    <2>2. LeastOf(f[n + 1], before[n + 1] + 1, f[n] + 1, before[n] + Cost(rune, w[n + 1]))
      BY <2>1 DEF IsRow
    <2>3. LeastOf(g[n + 1], before[n + 1] + 1, g[n] + 1, before[n] + Cost(rune, w[n + 1]))
      BY <2>1 DEF IsRow
    <2>4. f[n + 1] \in Nat /\ g[n + 1] \in Nat /\ f[n] \in Nat
      BY <2>1 DEF IsRow
    <2>5. before[n + 1] \in Nat /\ before[n] \in Nat /\ Cost(rune, w[n + 1]) \in Nat
      BY <2>1 DEF Cost
    <2>6. f[n + 1] = g[n + 1]
      BY <2>1, <2>2, <2>3, <2>4, <2>5 DEF LeastOf
    <2> QED  BY <2>1, <2>6
  <1>3. P = 0 .. m
    <2>1. P \subseteq 0 .. m
      OBVIOUS
    <2> HIDE DEF P
    <2> QED  BY <1>1, <1>2, <2>1, InductionUpTo, Zenon
  <1>4. f \in [0 .. m -> Nat] /\ g \in [0 .. m -> Nat]
    BY DEF IsRow
  <1> QED  BY <1>3, <1>4

\* Induction along a row, or down the rows.
LEMMA Along ==
  ASSUME NEW m \in Nat, NEW P, P \subseteq 0 .. m, 0 \in P,
         \A j \in 1 .. m : j - 1 \in P => j \in P
  PROVE  P = 0 .. m
  <1>1. ASSUME NEW n \in P, n < m PROVE n + 1 \in P
    <2>1. n + 1 \in 1 .. m /\ n + 1 - 1 = n
      BY <1>1
    <2> QED  BY <2>1
  <1> QED  BY <1>1, InductionUpTo, Zenon

\* An entry, those above, left and diagonally before it, and whether the runes
\* that meet there are the same.
Entry(n, up, left, before, same) ==
  /\ n \in Nat /\ up \in Nat /\ left \in Nat /\ before \in Nat
  /\ n <= up + 1 /\ n <= left + 1 /\ n <= before + 1
  /\ same => n <= before
  /\ \/ n = up + 1 \/ n = left + 1 \/ n = before + 1
     \/ (same /\ n = before)

LEMMA RowEntries ==
  ASSUME NEW w, Len(w) \in Nat, NEW before \in [0 .. Len(w) -> Nat],
         NEW curr, NEW i, NEW rune, IsRow(curr, before, i, rune, w),
         NEW j \in 1 .. Len(w)
  PROVE  /\ j \in 0 .. Len(w) /\ j - 1 \in 0 .. Len(w)
         /\ Entry(curr[j], before[j], curr[j - 1], before[j - 1], rune = w[j])
  <1>1. j \in 0 .. Len(w) /\ j - 1 \in 0 .. Len(w)
    OBVIOUS
  <1>2. curr[j] \in Nat /\ curr[j - 1] \in Nat /\ before[j] \in Nat /\ before[j - 1] \in Nat
    BY <1>1 DEF IsRow
  <1>3. LeastOf(curr[j], before[j] + 1, curr[j - 1] + 1, before[j - 1] + Cost(rune, w[j]))
    BY DEF IsRow
  <1>4. CASE rune = w[j]
    <2>1. Cost(rune, w[j]) = 0
      BY <1>4 DEF Cost
    <2>2. LeastOf(curr[j], before[j] + 1, curr[j - 1] + 1, before[j - 1])
      BY <1>2, <1>3, <2>1
    <2> QED  BY <1>1, <1>2, <1>4, <2>2 DEF LeastOf, Entry
  <1>5. CASE rune # w[j]
    <2>1. Cost(rune, w[j]) = 1
      BY <1>5 DEF Cost
    <2>2. LeastOf(curr[j], before[j] + 1, curr[j - 1] + 1, before[j - 1] + 1)
      BY <1>3, <2>1
    <2> QED  BY <1>1, <1>2, <1>5, <2>2 DEF LeastOf, Entry
  <1> QED  BY <1>4, <1>5

LEMMA EntriesFollow ==
  ASSUME NEW n, NEW up, NEW left, NEW before, NEW same, Entry(n, up, left, before, same),
         NEW m, NEW above, NEW side, NEW corner, Entry(m, above, side, corner, same),
         above <= up + 1, side <= left + 1, corner <= before + 1
  PROVE  m <= n + 1
  <1>1. CASE n = up + 1
    BY <1>1 DEF Entry
  <1>2. CASE n = left + 1
    BY <1>2 DEF Entry
  <1>3. CASE n = before + 1
    BY <1>3 DEF Entry
  <1>4. CASE same /\ n = before
    BY <1>4 DEF Entry
  <1> QED  BY <1>1, <1>2, <1>3, <1>4, Zenon DEF Entry

LEMMA EntriesReplaced ==
  ASSUME NEW n, NEW up, NEW left, NEW before, NEW same, Entry(n, up, left, before, same),
         NEW m, NEW side, NEW also, Entry(m, up, side, before, also), side <= left + 1
  PROVE  m <= n + 1
  <1>1. CASE n = up + 1
    BY <1>1 DEF Entry
  <1>2. CASE n = left + 1
    BY <1>2 DEF Entry
  <1>3. CASE n = before + 1
    BY <1>3 DEF Entry
  <1>4. CASE same /\ n = before
    BY <1>4 DEF Entry
  <1> QED  BY <1>1, <1>2, <1>3, <1>4, Zenon DEF Entry

\* Rows for the same rune differ by no more than the rows before them.
LEMMA RowFollows ==
  ASSUME NEW w, Len(w) \in Nat, NEW before \in [0 .. Len(w) -> Nat],
         NEW other \in [0 .. Len(w) -> Nat],
         \A j \in 0 .. Len(w) : other[j] <= before[j] + 1,
         NEW i \in Nat, NEW k \in Nat, k <= i + 1, NEW rune, NEW f, NEW g,
         IsRow(f, before, i, rune, w), IsRow(g, other, k, rune, w)
  PROVE  \A j \in 0 .. Len(w) : g[j] <= f[j] + 1
  <1> DEFINE P == {j \in 0 .. Len(w) : g[j] <= f[j] + 1}
  <1>1. 0 \in P
    BY DEF IsRow
  <1>2. ASSUME NEW j \in 1 .. Len(w), j - 1 \in P PROVE j \in P
    <2>1. other[j] <= before[j] + 1 /\ other[j - 1] <= before[j - 1] + 1 /\ g[j - 1] <= f[j - 1] + 1
      BY <1>2
    <2> HIDE DEF P
    <2>2. Entry(f[j], before[j], f[j - 1], before[j - 1], rune = w[j])
      BY RowEntries
    <2>3. Entry(g[j], other[j], g[j - 1], other[j - 1], rune = w[j])
      BY RowEntries
    <2>4. g[j] <= f[j] + 1 /\ j \in 0 .. Len(w)
      BY <2>1, <2>2, <2>3, EntriesFollow
    <2> QED  BY <2>4 DEF P
  <1>3. P = 0 .. Len(w)
    <2>1. P \subseteq 0 .. Len(w)
      OBVIOUS
    <2> HIDE DEF P
    <2> QED  BY <1>1, <1>2, <2>1, Along, Zenon
  <1> QED  BY <1>3

\* So do rows for different runes after the same row.
LEMMA RowReplaced ==
  ASSUME NEW w, Len(w) \in Nat, NEW before \in [0 .. Len(w) -> Nat],
         NEW i \in Nat, NEW rune, NEW other, NEW f, NEW g,
         IsRow(f, before, i, rune, w), IsRow(g, before, i, other, w)
  PROVE  \A j \in 0 .. Len(w) : g[j] <= f[j] + 1
  <1> DEFINE P == {j \in 0 .. Len(w) : g[j] <= f[j] + 1}
  <1>1. 0 \in P
    BY DEF IsRow
  <1>2. ASSUME NEW j \in 1 .. Len(w), j - 1 \in P PROVE j \in P
    <2>1. g[j - 1] <= f[j - 1] + 1
      BY <1>2
    <2> HIDE DEF P
    <2>2. Entry(f[j], before[j], f[j - 1], before[j - 1], rune = w[j])
      BY RowEntries
    <2>3. Entry(g[j], before[j], g[j - 1], before[j - 1], other = w[j])
      BY RowEntries
    <2>4. g[j] <= f[j] + 1 /\ j \in 0 .. Len(w)
      BY <2>1, <2>2, <2>3, EntriesReplaced
    <2> QED  BY <2>4 DEF P
  <1>3. P = 0 .. Len(w)
    <2>1. P \subseteq 0 .. Len(w)
      OBVIOUS
    <2> HIDE DEF P
    <2> QED  BY <1>1, <1>2, <2>1, Along, Zenon
  <1> QED  BY <1>3

\* A row whose entries rise by at most one, and the row after it.
Gentle(f, w) == \A j \in 1 .. Len(w) : f[j] <= f[j - 1] + 1

LEMMA RowBelow ==
  ASSUME NEW w, Len(w) \in Nat, NEW before \in [0 .. Len(w) -> Nat],
         NEW i \in Nat, i = before[0] + 1, NEW rune, NEW f,
         Gentle(before, w), IsRow(f, before, i, rune, w)
  PROVE  /\ Gentle(f, w)
         /\ \A j \in 0 .. Len(w) : f[j] <= before[j] + 1 /\ before[j] <= f[j] + 1
  <1>1. Gentle(f, w)
    BY RowEntries DEF Gentle, Entry
  <1> DEFINE P == {j \in 0 .. Len(w) : f[j] <= before[j] + 1 /\ before[j] <= f[j] + 1}
  <1>2. 0 \in P
    <2>1. 0 \in 0 .. Len(w)
      OBVIOUS
    <2>2. f[0] = before[0] + 1 /\ before[0] \in Nat
      BY <2>1 DEF IsRow
    <2> QED  BY <2>1, <2>2
  <1>3. ASSUME NEW j \in 1 .. Len(w), j - 1 \in P PROVE j \in P
    <2>1. before[j - 1] <= f[j - 1] + 1 /\ before[j] <= before[j - 1] + 1
      BY <1>3 DEF Gentle
    <2> HIDE DEF P
    <2>2. Entry(f[j], before[j], f[j - 1], before[j - 1], rune = w[j])
      BY RowEntries
    <2>3. f[j] <= before[j] + 1 /\ before[j] <= f[j] + 1 /\ j \in 0 .. Len(w)
      BY <2>1, <2>2 DEF Entry
    <2> QED  BY <2>3 DEF P
  <1>4. P = 0 .. Len(w)
    <2>1. P \subseteq 0 .. Len(w)
      OBVIOUS
    <2> HIDE DEF P
    <2> QED  BY <1>2, <1>3, <2>1, Along, Zenon
  <1> QED  BY <1>1, <1>4

\* What all of a row exceeds, all of the next row exceeds.
LEMMA RowStaysAbove ==
  ASSUME NEW w, Len(w) \in Nat, NEW before \in [0 .. Len(w) -> Nat],
         NEW i \in Nat, NEW rune, NEW f, IsRow(f, before, i, rune, w),
         NEW n \in Nat, i > n, \A j \in 0 .. Len(w) : before[j] > n
  PROVE  \A j \in 0 .. Len(w) : f[j] > n
  <1> DEFINE P == {j \in 0 .. Len(w) : f[j] > n}
  <1>1. 0 \in P
    BY DEF IsRow
  <1>2. ASSUME NEW j \in 1 .. Len(w), j - 1 \in P PROVE j \in P
    <2>1. f[j - 1] > n /\ before[j] > n /\ before[j - 1] > n
      BY <1>2
    <2> HIDE DEF P
    <2>2. Entry(f[j], before[j], f[j - 1], before[j - 1], rune = w[j])
      BY RowEntries
    <2>3. f[j] > n /\ j \in 0 .. Len(w)
      BY <2>1, <2>2 DEF Entry
    <2> QED  BY <2>3 DEF P
  <1>3. P = 0 .. Len(w)
    <2>1. P \subseteq 0 .. Len(w)
      OBVIOUS
    <2> HIDE DEF P
    <2> QED  BY <1>1, <1>2, <2>1, Along, Zenon
  <1> QED  BY <1>3

\* Strings are at least as far apart as their lengths.
LEMMA RowIsFar ==
  ASSUME NEW w, Len(w) \in Nat, NEW before \in [0 .. Len(w) -> Nat],
         NEW i \in Nat \ {0}, NEW rune, NEW f, IsRow(f, before, i, rune, w),
         \A j \in 0 .. Len(w) : i - 1 - j <= before[j] /\ j - (i - 1) <= before[j]
  PROVE  \A j \in 0 .. Len(w) : i - j <= f[j] /\ j - i <= f[j]
  <1> DEFINE P == {j \in 0 .. Len(w) : i - j <= f[j] /\ j - i <= f[j]}
  <1>1. 0 \in P
    BY DEF IsRow
  <1>2. ASSUME NEW j \in 1 .. Len(w), j - 1 \in P PROVE j \in P
    <2>1. /\ i - (j - 1) <= f[j - 1] /\ (j - 1) - i <= f[j - 1]
          /\ i - 1 - j <= before[j] /\ j - (i - 1) <= before[j]
          /\ i - 1 - (j - 1) <= before[j - 1] /\ (j - 1) - (i - 1) <= before[j - 1]
      BY <1>2
    <2> HIDE DEF P
    <2>2. Entry(f[j], before[j], f[j - 1], before[j - 1], rune = w[j])
      BY RowEntries
    <2>3. i - j <= f[j] /\ j - i <= f[j] /\ j \in 0 .. Len(w)
      <3>1. i \in Nat /\ j \in Nat /\ j \in 0 .. Len(w)
        OBVIOUS
      <3>2. i - j <= f[j] /\ j - i <= f[j]
        <4> DEFINE n == f[j]
                   up == before[j]
                   left == f[j - 1]
                   corner == before[j - 1]
        <4>1. /\ n \in Nat /\ up \in Nat /\ left \in Nat /\ corner \in Nat
              /\ n = up + 1 \/ n = left + 1 \/ n = corner + 1 \/ n = corner
          BY <2>2 DEF Entry
        <4>2. /\ i - (j - 1) <= left /\ (j - 1) - i <= left
              /\ i - 1 - j <= up /\ j - (i - 1) <= up
              /\ i - 1 - (j - 1) <= corner /\ (j - 1) - (i - 1) <= corner
          BY <2>1
        <4> HIDE DEF n, up, left, corner
        <4>3. i - j <= n /\ j - i <= n
          BY <3>1, <4>1, <4>2
        <4> QED  BY <4>3 DEF n
      <3> QED  BY <3>1, <3>2
    <2> QED  BY <2>3 DEF P
  <1>3. P = 0 .. Len(w)
    <2>1. P \subseteq 0 .. Len(w)
      OBVIOUS
    <2> HIDE DEF P
    <2> QED  BY <1>1, <1>2, <2>1, Along, Zenon
  <1> QED  BY <1>3

LEMMA FilledOnce ==
  ASSUME NEW w, Len(w) \in Nat, NEW before, NEW i, NEW rune, NEW f, NEW g,
         FilledRow(f, before, i, rune, w), FilledRow(g, before, i, rune, w)
  PROVE  f = g
  <1> DEFINE P == {j \in 0 .. Len(w) : f[j] = g[j]}
  <1>1. 0 \in P
    <2>1. 0 \in 0 .. Len(w)
      OBVIOUS
    <2>2. f[0] = i /\ g[0] = i
      BY <2>1 DEF FilledRow
    <2> QED  BY <2>1, <2>2
  <1>2. ASSUME NEW j \in 1 .. Len(w), j - 1 \in P PROVE j \in P
    <2>1. j \in 0 .. Len(w) /\ j # 0 /\ f[j - 1] = g[j - 1]
      BY <1>2
    <2>2. f[j] = Least({before[j] + 1, f[j - 1] + 1, before[j - 1] + Cost(rune, w[j])})
      BY <2>1 DEF FilledRow
    <2>3. g[j] = Least({before[j] + 1, g[j - 1] + 1, before[j - 1] + Cost(rune, w[j])})
      BY <2>1 DEF FilledRow
    <2> QED  BY <2>1, <2>2, <2>3
  <1>3. P = 0 .. Len(w)
    <2>1. P \subseteq 0 .. Len(w)
      OBVIOUS
    <2> HIDE DEF P
    <2> QED  BY <1>1, <1>2, <2>1, Along, Zenon
  <1>4. f = [j \in 0 .. Len(w) |-> f[j]] /\ g = [j \in 0 .. Len(w) |-> g[j]]
    BY DEF FilledRow
  <1>5. \A j \in 0 .. Len(w) : f[j] = g[j]
    BY <1>3
  <1> QED  BY <1>4, <1>5

\* The row that the loop over the word computes.
LEMMA NextRowIsRow ==
  ASSUME Len(word) \in Nat, prev \in [0 .. Len(word) -> Nat], row \in Nat
  PROVE  IsRow(NextRow, prev, row, text[start + row], word)
  <1> DEFINE rune == text[start + row]
             it == CHOOSE curr : FilledRow(curr, prev, row, rune, word)
  <1>1. PICK curr \in [0 .. Len(word) -> Nat] : FilledRow(curr, prev, row, rune, word)
    BY RowExists
  <1>2. FilledRow(it, prev, row, rune, word)
    BY <1>1
  <1>3. NextRow = [j \in 0 .. Len(word) |-> it[j]]
    BY DEF NextRow, Cost, FilledRow
  <1> HIDE DEF it
  <1>4. it \in [0 .. Len(word) -> Nat]
    BY <1>1, <1>2, FilledOnce
  <1>5. NextRow = it
    BY <1>3, <1>4
  <1> QED  BY <1>2, <1>4, <1>5, RowByEquation

-----------------------------------------------------------------------------
(* The table of distances between the prefixes of two strings.             *)

\* Row i is about the first i runes of s.
IsTable(D, s, w) ==
  /\ D \in [0 .. Len(s) -> [0 .. Len(w) -> Nat]]
  /\ \A j \in 0 .. Len(w) : D[0][j] = j
  /\ \A i \in 1 .. Len(s) : IsRow(D[i], D[i - 1], i, s[i], w)

LEMMA SomeRow ==
  ASSUME NEW w, Len(w) \in Nat, NEW before \in [0 .. Len(w) -> Nat], NEW i \in Nat, NEW rune
  PROVE  \E curr \in [0 .. Len(w) -> Nat] : IsRow(curr, before, i, rune, w)
  BY RowExists, RowByEquation

LEMMA TableExists ==
  ASSUME NEW s, NEW w, Len(s) \in Nat, Len(w) \in Nat
  PROVE  \E D : IsTable(D, s, w)
  <1> DEFINE Rows == [0 .. Len(w) -> Nat]
             Upto(D, n) == /\ \A j \in 0 .. Len(w) : D[0][j] = j
                           /\ \A i \in 1 .. n : IsRow(D[i], D[i - 1], i, s[i], w)
             P == {n \in 0 .. Len(s) : \E D \in [0 .. n -> Rows] : Upto(D, n)}
  <1>1. 0 \in P
    <2> DEFINE D == [i \in 0 .. 0 |-> [j \in 0 .. Len(w) |-> j]]
    <2>1. D \in [0 .. 0 -> Rows]
      OBVIOUS
    <2>2. Upto(D, 0)
      OBVIOUS
    <2>3. 0 \in 0 .. Len(s)
      OBVIOUS
    <2> HIDE DEF D, Upto
    <2> QED  BY <2>1, <2>2, <2>3
  <1>2. ASSUME NEW n \in P, n < Len(s) PROVE n + 1 \in P
    <2>1. PICK D \in [0 .. n -> Rows] : Upto(D, n)
      BY <1>2
    <2>2. n \in Nat /\ n + 1 \in 0 .. Len(s) /\ n \in 0 .. n
      BY <1>2
    <2>3. PICK curr \in Rows : IsRow(curr, D[n], n + 1, s[n + 1], w)
      <3>1. D[n] \in Rows
        BY <2>2
      <3> QED  BY <2>2, <3>1, SomeRow
    <2> DEFINE E == [i \in 0 .. n + 1 |-> IF i = n + 1 THEN curr ELSE D[i]]
    <2>4. E \in [0 .. n + 1 -> Rows]
      BY <2>2
    <2>5. E[0] = D[0]
      BY <2>2
    <2>6. ASSUME NEW i \in 1 .. n + 1 PROVE IsRow(E[i], E[i - 1], i, s[i], w)
      <3>1. CASE i = n + 1
        <4>1. E[i] = curr /\ E[i - 1] = D[n]
          BY <2>2, <3>1
        <4> HIDE DEF E
        <4> QED  BY <2>3, <3>1, <4>1
      <3>2. CASE i # n + 1
        <4>1. i \in 1 .. n /\ E[i] = D[i] /\ E[i - 1] = D[i - 1]
          BY <2>2, <3>2
        <4> HIDE DEF E
        <4> QED  BY <2>1, <4>1
      <3> QED  BY <3>1, <3>2
    <2>7. Upto(E, n + 1)
      <3> HIDE DEF E
      <3> QED  BY <2>1, <2>5, <2>6
    <2> HIDE DEF E, Upto, Rows
    <2> QED  BY <2>2, <2>4, <2>7
  <1>3. Len(s) \in P
    <2>1. P \subseteq 0 .. Len(s)
      OBVIOUS
    <2> HIDE DEF P
    <2>2. P = 0 .. Len(s)
      BY <1>1, <1>2, <2>1, InductionUpTo, Zenon
    <2> QED  BY <2>2
  <1> QED  BY <1>3 DEF IsTable

\* Tables agree as far as their strings do.
LEMMA TablesAgree ==
  ASSUME NEW s, NEW t, NEW w, Len(s) \in Nat, Len(t) \in Nat, Len(w) \in Nat,
         NEW D, NEW E, IsTable(D, s, w), IsTable(E, t, w),
         NEW p \in Nat, p <= Len(s), p <= Len(t), \A i \in 1 .. p : s[i] = t[i]
  PROVE  \A i \in 0 .. p : D[i] = E[i]
  <1> DEFINE P == {i \in 0 .. p : D[i] = E[i]}
  <1>1. 0 \in P
    <2>1. D[0] \in [0 .. Len(w) -> Nat] /\ E[0] \in [0 .. Len(w) -> Nat]
      <3>1. 0 \in 0 .. Len(s) /\ 0 \in 0 .. Len(t)
        OBVIOUS
      <3> QED  BY <3>1 DEF IsTable
    <2>2. \A j \in 0 .. Len(w) : D[0][j] = E[0][j]
      BY DEF IsTable
    <2>3. D[0] = E[0]
      BY <2>1, <2>2
    <2> QED  BY <2>3
  <1>2. ASSUME NEW i \in 1 .. p, i - 1 \in P PROVE i \in P
    <2>1. /\ i \in 0 .. p /\ i \in 1 .. Len(s) /\ i \in 1 .. Len(t) /\ i - 1 \in 0 .. Len(s)
          /\ D[i - 1] = E[i - 1] /\ s[i] = t[i]
      BY <1>2
    <2>2. IsRow(D[i], D[i - 1], i, s[i], w) /\ D[i - 1] \in [0 .. Len(w) -> Nat]
      BY <2>1 DEF IsTable
    <2>3. IsRow(E[i], D[i - 1], i, s[i], w)
      BY <2>1 DEF IsTable
    <2>4. D[i] = E[i]
      BY <2>2, <2>3, RowUnique
    <2> QED  BY <2>1, <2>4
  <1>3. P = 0 .. p
    <2>1. P \subseteq 0 .. p
      OBVIOUS
    <2> HIDE DEF P
    <2> QED  BY <1>1, <1>2, <2>1, Along, Zenon
  <1> QED  BY <1>3

LEMMA TableRows ==
  ASSUME NEW s, NEW w, Len(s) \in Nat, Len(w) \in Nat, NEW D, IsTable(D, s, w)
  PROVE  /\ \A i \in 0 .. Len(s) : /\ D[i] \in [0 .. Len(w) -> Nat]
                                  /\ D[i][0] = i /\ Gentle(D[i], w)
         /\ \A i \in 1 .. Len(s) :
              /\ IsRow(D[i], D[i - 1], i, s[i], w)
              /\ \A j \in 0 .. Len(w) : D[i][j] <= D[i - 1][j] + 1 /\ D[i - 1][j] <= D[i][j] + 1
  <1>1. \A i \in 0 .. Len(s) : D[i] \in [0 .. Len(w) -> Nat]
    BY DEF IsTable
  <1>2. \A i \in 1 .. Len(s) : IsRow(D[i], D[i - 1], i, s[i], w)
    BY DEF IsTable
  <1>3. ASSUME NEW i \in 0 .. Len(s) PROVE D[i][0] = i
    <2>0. 0 \in 0 .. Len(w)
      OBVIOUS
    <2>1. CASE i = 0
      BY <2>0, <2>1 DEF IsTable
    <2>2. CASE i # 0
      <3>1. i \in 1 .. Len(s)
        BY <2>2
      <3> QED  BY <1>2, <3>1 DEF IsRow
    <2> QED  BY <2>1, <2>2
  <1>4. ASSUME NEW i \in 1 .. Len(s), Gentle(D[i - 1], w)
        PROVE  /\ Gentle(D[i], w)
               /\ \A j \in 0 .. Len(w) : D[i][j] <= D[i - 1][j] + 1 /\ D[i - 1][j] <= D[i][j] + 1
    <2>1. i - 1 \in 0 .. Len(s) /\ i \in Nat
      OBVIOUS
    <2>2. D[i - 1] \in [0 .. Len(w) -> Nat] /\ i = D[i - 1][0] + 1
      BY <1>1, <1>3, <2>1
    <2> QED  BY <1>2, <1>4, <2>1, <2>2, RowBelow
  <1> DEFINE P == {i \in 0 .. Len(s) : Gentle(D[i], w)}
  <1>5. P = 0 .. Len(s)
    <2>1. 0 \in P
      <3>1. ASSUME NEW j \in 1 .. Len(w) PROVE D[0][j] <= D[0][j - 1] + 1
        <4>1. j \in 0 .. Len(w) /\ j - 1 \in 0 .. Len(w)
          OBVIOUS
        <4>2. D[0][j] = j /\ D[0][j - 1] = j - 1
          BY <4>1 DEF IsTable
        <4> QED  BY <4>2
      <3> QED  BY <3>1 DEF Gentle
    <2>2. ASSUME NEW i \in 1 .. Len(s), i - 1 \in P PROVE i \in P
      <3>1. i \in 0 .. Len(s) /\ Gentle(D[i - 1], w)
        BY <2>2
      <3> QED  BY <1>4, <3>1
    <2>3. P \subseteq 0 .. Len(s)
      OBVIOUS
    <2> HIDE DEF P
    <2> QED  BY <2>1, <2>2, <2>3, Along, Zenon
  <1>6. \A i \in 0 .. Len(s) : Gentle(D[i], w)
    BY <1>5
  <1>7. \A i \in 1 .. Len(s) : i - 1 \in 0 .. Len(s)
    OBVIOUS
  <1> QED  BY <1>1, <1>2, <1>3, <1>4, <1>6, <1>7

\* What follows the first p runes of s is what follows the first q of t.
Alike(s, p, t, q) ==
  /\ p \in 0 .. Len(s) /\ q \in 0 .. Len(t) /\ q <= p + 1 /\ Len(s) - p = Len(t) - q
  /\ \A n \in 1 .. Len(s) - p : s[p + n] = t[q + n]

\* The entries of g are at most one above those of f.
NearRow(f, g, w) == \A j \in 0 .. Len(w) : g[j] <= f[j] + 1

\* Strings that go on alike remain as near as they were.
LEMMA TablesFollow ==
  ASSUME NEW s, NEW t, NEW w, Len(s) \in Nat, Len(t) \in Nat, Len(w) \in Nat,
         NEW D, NEW E, IsTable(D, s, w), IsTable(E, t, w),
         NEW p, NEW q, Alike(s, p, t, q), NearRow(D[p], E[q], w)
  PROVE  NearRow(D[Len(s)], E[Len(t)], w)
  <1> USE DEF Alike, NearRow
  <1> DEFINE Near(n) == \A j \in 0 .. Len(w) : E[q + n][j] <= D[p + n][j] + 1
             P == {n \in 0 .. Len(s) - p : Near(n)}
  <1>0. Len(s) - p \in Nat /\ p \in Nat /\ q \in Nat
    OBVIOUS
  <1>1. 0 \in P
    <2>1. 0 \in 0 .. Len(s) - p /\ p + 0 = p /\ q + 0 = q
      BY <1>0
    <2> QED  BY <2>1
  <1>2. ASSUME NEW n \in 1 .. Len(s) - p, n - 1 \in P PROVE n \in P
    <2>1. /\ n \in 0 .. Len(s) - p /\ p + n \in 1 .. Len(s) /\ q + n \in 1 .. Len(t)
          /\ p + n - 1 \in 0 .. Len(s) /\ q + n - 1 \in 0 .. Len(t)
          /\ p + (n - 1) = p + n - 1 /\ q + (n - 1) = q + n - 1
          /\ p + n \in Nat /\ q + n \in Nat /\ q + n <= p + n + 1
      BY <1>0
    <2>2. \A j \in 0 .. Len(w) : E[q + n - 1][j] <= D[p + n - 1][j] + 1
      BY <1>2, <2>1
    <2>3. /\ D[p + n - 1] \in [0 .. Len(w) -> Nat] /\ E[q + n - 1] \in [0 .. Len(w) -> Nat]
          /\ IsRow(D[p + n], D[p + n - 1], p + n, s[p + n], w)
          /\ IsRow(E[q + n], E[q + n - 1], q + n, s[p + n], w)
      <3>1. D[p + n - 1] \in [0 .. Len(w) -> Nat] /\ E[q + n - 1] \in [0 .. Len(w) -> Nat]
        BY <2>1 DEF IsTable
      <3>2. IsRow(D[p + n], D[p + n - 1], p + n, s[p + n], w)
        BY <2>1 DEF IsTable
      <3>3. IsRow(E[q + n], E[q + n - 1], q + n, t[q + n], w)
        BY <2>1 DEF IsTable
      <3>4. s[p + n] = t[q + n]
        OBVIOUS
      <3> QED  BY <3>1, <3>2, <3>3, <3>4
    <2>4. Near(n)
      BY <2>1, <2>2, <2>3, RowFollows
    <2> QED  BY <2>1, <2>4
  <1>3. P = 0 .. Len(s) - p
    <2>1. P \subseteq 0 .. Len(s) - p
      OBVIOUS
    <2> HIDE DEF P
    <2> QED  BY <1>0, <1>1, <1>2, <2>1, Along, Zenon
  <1>4. Near(Len(s) - p)
    <2>1. Len(s) - p \in 0 .. Len(s) - p
      BY <1>0
    <2> HIDE DEF Near
    <2> QED  BY <1>3, <2>1
  <1>5. p + (Len(s) - p) = Len(s) /\ q + (Len(s) - p) = Len(t)
    BY <1>0
  <1> QED  BY <1>4, <1>5

-----------------------------------------------------------------------------
(* The distance of two strings, and what an edit does to it.               *)

Distances(s, w) == CHOOSE D : IsTable(D, s, w)
Dist(s, w) == Distances(s, w)[Len(s)][Len(w)]

LEMMA DistancesTable ==
  ASSUME NEW s, NEW w, Len(s) \in Nat, Len(w) \in Nat
  PROVE  IsTable(Distances(s, w), s, w) /\ Dist(s, w) \in Nat
  <1>1. IsTable(Distances(s, w), s, w)
    BY TableExists DEF Distances
  <1>2. Len(s) \in 0 .. Len(s) /\ Len(w) \in 0 .. Len(w)
    OBVIOUS
  <1>3. Distances(s, w)[Len(s)] \in [0 .. Len(w) -> Nat]
    BY <1>1, <1>2 DEF IsTable
  <1> QED  BY <1>1, <1>2, <1>3 DEF Dist

LEMMA Joined ==
  ASSUME NEW u \in Seq(Letters), NEW v \in Seq(Letters)
  PROVE  /\ u \o v \in Seq(Letters) /\ Len(u \o v) = Len(u) + Len(v)
         /\ \A k \in 1 .. Len(u) : (u \o v)[k] = u[k]
         /\ \A k \in 1 .. Len(v) : (u \o v)[Len(u) + k] = v[k]
  <1>0. Len(u) \in Nat /\ Len(v) \in Nat
    OBVIOUS
  <1>1. /\ u \o v \in Seq(Letters) /\ Len(u \o v) = Len(u) + Len(v)
        /\ \A k \in 1 .. Len(u) + Len(v) : (u \o v)[k] = IF k <= Len(u) THEN u[k] ELSE v[k - Len(u)]
    BY ConcatProperties
  <1>2. ASSUME NEW k \in 1 .. Len(u) PROVE (u \o v)[k] = u[k]
    <2>1. k \in 1 .. Len(u) + Len(v) /\ k <= Len(u)
      BY <1>0
    <2> QED  BY <1>1, <2>1
  <1>3. ASSUME NEW k \in 1 .. Len(v) PROVE (u \o v)[Len(u) + k] = v[k]
    <2>1. Len(u) + k \in 1 .. Len(u) + Len(v) /\ ~(Len(u) + k <= Len(u)) /\ Len(u) + k - Len(u) = k
      BY <1>0
    <2> QED  BY <1>1, <2>1
  <1> QED  BY <1>1, <1>2, <1>3

\* The three edits, rune by rune.
LEMMA Removed ==
  ASSUME NEW s \in Seq(Letters), NEW n \in 1 .. Len(s)
  PROVE  LET t == RemoveAt(s, n) IN
         /\ t \in Seq(Letters) /\ Len(t) = Len(s) - 1
         /\ \A k \in 1 .. n - 1 : t[k] = s[k]
         /\ \A k \in 1 .. Len(s) - n : t[n - 1 + k] = s[n + k]
  <1> DEFINE u == SubSeq(s, 1, n - 1)
             v == SubSeq(s, n + 1, Len(s))
  <1>0. Len(s) \in Nat /\ n \in Nat /\ n - 1 \in Nat
    OBVIOUS
  <1>1. u \in Seq(Letters) /\ Len(u) = n - 1 /\ \A k \in 1 .. n - 1 : u[k] = s[k]
    BY <1>0
  <1>2. v \in Seq(Letters) /\ Len(v) = Len(s) - n /\ \A k \in 1 .. Len(s) - n : v[k] = s[n + k]
    BY <1>0
  <1>3. RemoveAt(s, n) = u \o v
    BY DEF RemoveAt
  <1> HIDE DEF u, v
  <1>4. /\ u \o v \in Seq(Letters) /\ Len(u \o v) = Len(u) + Len(v)
        /\ \A k \in 1 .. Len(u) : (u \o v)[k] = u[k]
        /\ \A k \in 1 .. Len(v) : (u \o v)[Len(u) + k] = v[k]
    BY <1>1, <1>2, Joined
  <1>5. Len(u \o v) = Len(s) - 1
    BY <1>0, <1>1, <1>2, <1>4
  <1>6. \A k \in 1 .. n - 1 : (u \o v)[k] = s[k]
    BY <1>1, <1>4
  <1>7. \A k \in 1 .. Len(s) - n : (u \o v)[n - 1 + k] = s[n + k]
    BY <1>1, <1>2, <1>4
  <1> QED  BY <1>3, <1>4, <1>5, <1>6, <1>7

LEMMA Inserted ==
  ASSUME NEW s \in Seq(Letters), NEW n \in 1 .. Len(s) + 1, NEW c \in Letters
  PROVE  LET t == InsertAt(s, n, c) IN
         /\ t \in Seq(Letters) /\ Len(t) = Len(s) + 1 /\ t[n] = c
         /\ \A k \in 1 .. n - 1 : t[k] = s[k]
         /\ \A k \in 1 .. Len(s) - (n - 1) : t[n + k] = s[n - 1 + k]
  <1> DEFINE u == SubSeq(s, 1, n - 1)
             v == SubSeq(s, n, Len(s))
             x == <<c>>
             y == u \o x
  <1>0. Len(s) \in Nat /\ n \in Nat /\ n - 1 \in Nat
    OBVIOUS
  <1>1. u \in Seq(Letters) /\ Len(u) = n - 1 /\ \A k \in 1 .. n - 1 : u[k] = s[k]
    BY <1>0
  <1>2. /\ v \in Seq(Letters) /\ Len(v) = Len(s) - (n - 1)
        /\ \A k \in 1 .. Len(s) - (n - 1) : v[k] = s[n - 1 + k]
    BY <1>0
  <1>3. x \in Seq(Letters) /\ Len(x) = 1 /\ x[1] = c
    OBVIOUS
  <1>4. InsertAt(s, n, c) = y \o v
    BY DEF InsertAt
  <1> HIDE DEF u, v, x
  <1>5. /\ y \in Seq(Letters) /\ Len(y) = n
        /\ \A k \in 1 .. n - 1 : y[k] = s[k]
        /\ y[n] = c
    <2>1. /\ y \in Seq(Letters) /\ Len(y) = Len(u) + Len(x)
          /\ \A k \in 1 .. Len(u) : y[k] = u[k]
          /\ \A k \in 1 .. Len(x) : y[Len(u) + k] = x[k]
      BY <1>1, <1>3, Joined
    <2>2. y[n] = c
      <3>1. 1 \in 1 .. Len(x) /\ Len(u) + 1 = n
        BY <1>0, <1>1, <1>3
      <3> QED  BY <1>3, <2>1, <3>1
    <2> QED  BY <1>0, <1>1, <1>3, <2>1, <2>2
  <1> HIDE DEF y
  <1>6. /\ y \o v \in Seq(Letters) /\ Len(y \o v) = Len(y) + Len(v)
        /\ \A k \in 1 .. Len(y) : (y \o v)[k] = y[k]
        /\ \A k \in 1 .. Len(v) : (y \o v)[Len(y) + k] = v[k]
    BY <1>2, <1>5, Joined
  <1>7. (y \o v)[n] = c /\ \A k \in 1 .. n - 1 : (y \o v)[k] = s[k]
    <2>1. n \in 1 .. Len(y) /\ \A k \in 1 .. n - 1 : k \in 1 .. Len(y)
      BY <1>0, <1>5
    <2> QED  BY <1>5, <1>6, <2>1
  <1>8. \A k \in 1 .. Len(s) - (n - 1) : (y \o v)[n + k] = s[n - 1 + k]
    BY <1>2, <1>5, <1>6
  <1>9. Len(y \o v) = Len(s) + 1
    BY <1>0, <1>2, <1>5, <1>6
  <1> QED  BY <1>4, <1>6, <1>7, <1>8, <1>9

LEMMA Replaced ==
  ASSUME NEW s \in Seq(Letters), NEW n \in 1 .. Len(s), NEW c \in Letters
  PROVE  LET t == ReplaceAt(s, n, c) IN
         /\ t \in Seq(Letters) /\ Len(t) = Len(s) /\ t[n] = c
         /\ \A k \in 1 .. Len(s) : k # n => t[k] = s[k]
  BY ExceptSeq DEF ReplaceAt

LEMMA RemovedIsNear ==
  ASSUME NEW w, Len(w) \in Nat, NEW s \in Seq(Letters), NEW t \in Seq(Letters),
         NEW n \in 1 .. Len(s), Len(t) = Len(s) - 1, \A k \in 1 .. n - 1 : t[k] = s[k],
         \A k \in 1 .. Len(s) - n : t[n - 1 + k] = s[n + k]
  PROVE  Dist(t, w) <= Dist(s, w) + 1
  <1> DEFINE D == Distances(s, w)
             E == Distances(t, w)
  <1>0. /\ Len(s) \in Nat /\ Len(t) \in Nat /\ n - 1 \in Nat /\ n \in 0 .. Len(s)
        /\ n - 1 \in 0 .. Len(t) /\ n - 1 <= Len(s) /\ n - 1 <= Len(t) /\ n - 1 \in 0 .. n - 1
        /\ Len(s) - n = Len(t) - (n - 1) /\ n - 1 <= n + 1
    OBVIOUS
  <1>1. IsTable(D, s, w) /\ IsTable(E, t, w)
    BY <1>0, DistancesTable
  <1> HIDE DEF D, E
  <1>2. D[n - 1] = E[n - 1]
    BY <1>0, <1>1, TablesAgree
  <1>3. NearRow(D[n], E[n - 1], w)
    BY <1>0, <1>1, <1>2, TableRows DEF NearRow
  <1>4. NearRow(D[Len(s)], E[Len(t)], w)
    <2>1. Alike(s, n, t, n - 1)
      BY <1>0 DEF Alike
    <2> QED  BY <1>0, <1>1, <1>3, <2>1, TablesFollow
  <1>5. Len(w) \in 0 .. Len(w)
    OBVIOUS
  <1> QED  BY <1>4, <1>5 DEF D, E, Dist, NearRow

LEMMA InsertedIsNear ==
  ASSUME NEW w, Len(w) \in Nat, NEW s \in Seq(Letters), NEW t \in Seq(Letters),
         NEW n \in 1 .. Len(s) + 1, Len(t) = Len(s) + 1, \A k \in 1 .. n - 1 : t[k] = s[k],
         \A k \in 1 .. Len(s) - (n - 1) : t[n + k] = s[n - 1 + k]
  PROVE  Dist(t, w) <= Dist(s, w) + 1
  <1> DEFINE D == Distances(s, w)
             E == Distances(t, w)
             m == n - 1
  <1>0. /\ Len(s) \in Nat /\ Len(t) \in Nat /\ m \in Nat /\ m \in 0 .. Len(s)
        /\ n \in 0 .. Len(t) /\ n \in 1 .. Len(t) /\ m <= Len(s) /\ m <= Len(t) /\ m \in 0 .. m
        /\ Len(s) - m = Len(t) - n /\ n <= m + 1
    OBVIOUS
  <1>1. IsTable(D, s, w) /\ IsTable(E, t, w)
    BY <1>0, DistancesTable
  <1> HIDE DEF D, E
  <1>2. D[m] = E[m]
    <2>1. \A k \in 1 .. m : s[k] = t[k]
      OBVIOUS
    <2> HIDE DEF m
    <2> QED  BY <1>0, <1>1, <2>1, TablesAgree
  <1>3. \A j \in 0 .. Len(w) : E[n][j] <= E[n - 1][j] + 1
    BY <1>0, <1>1, TableRows
  <1>4. NearRow(D[m], E[n], w)
    BY <1>2, <1>3 DEF NearRow
  <1>5. Alike(s, m, t, n)
    BY <1>0 DEF Alike
  <1> HIDE DEF m
  <1>6. NearRow(D[Len(s)], E[Len(t)], w)
    BY <1>0, <1>1, <1>4, <1>5, TablesFollow
  <1>7. Len(w) \in 0 .. Len(w)
    OBVIOUS
  <1> QED  BY <1>6, <1>7 DEF D, E, Dist, NearRow

LEMMA ReplacedIsNear ==
  ASSUME NEW w, Len(w) \in Nat, NEW s \in Seq(Letters), NEW t \in Seq(Letters),
         NEW n \in 1 .. Len(s), Len(t) = Len(s), \A k \in 1 .. Len(s) : k # n => t[k] = s[k]
  PROVE  Dist(t, w) <= Dist(s, w) + 1
  <1> DEFINE D == Distances(s, w)
             E == Distances(t, w)
  <1>0. /\ Len(s) \in Nat /\ Len(t) \in Nat /\ n - 1 \in Nat /\ n \in 0 .. Len(s) /\ n \in Nat
        /\ n - 1 \in 0 .. Len(t) /\ n - 1 <= Len(s) /\ n - 1 <= Len(t) /\ n - 1 \in 0 .. n - 1
        /\ n \in 0 .. Len(t) /\ n \in 1 .. Len(t) /\ Len(s) - n = Len(t) - n /\ n <= n + 1
        /\ n - 1 \in 0 .. Len(s)
    OBVIOUS
  <1>1. IsTable(D, s, w) /\ IsTable(E, t, w)
    BY <1>0, DistancesTable
  <1> HIDE DEF D, E
  <1>2. \A k \in 1 .. n - 1 : s[k] = t[k]
    OBVIOUS
  <1>3. D[n - 1] = E[n - 1]
    BY <1>0, <1>1, <1>2, TablesAgree
  <1>4. /\ D[n - 1] \in [0 .. Len(w) -> Nat]
        /\ IsRow(D[n], D[n - 1], n, s[n], w) /\ IsRow(E[n], D[n - 1], n, t[n], w)
    BY <1>0, <1>1, <1>3, TableRows
  <1>5. NearRow(D[n], E[n], w)
    BY <1>0, <1>4, RowReplaced DEF NearRow
  <1>6. Alike(s, n, t, n)
    <2>1. ASSUME NEW k \in 1 .. Len(s) - n PROVE n + k \in 1 .. Len(s) /\ n + k # n
      BY <1>0
    <2> QED  BY <1>0, <2>1 DEF Alike
  <1>7. NearRow(D[Len(s)], E[Len(t)], w)
    BY <1>0, <1>1, <1>5, <1>6, TablesFollow
  <1>8. Len(w) \in 0 .. Len(w)
    OBVIOUS
  <1> QED  BY <1>7, <1>8 DEF D, E, Dist, NearRow

\* One edit changes the distance from any string by at most one.
LEMMA EditIsNear ==
  ASSUME NEW w, Len(w) \in Nat, NEW s \in Seq(Letters), NEW t \in Edits(s)
  PROVE  t \in Seq(Letters) /\ Dist(t, w) <= Dist(s, w) + 1
  <1>0. DOMAIN s = 1 .. Len(s)
    OBVIOUS
  <1>1. CASE \E n \in DOMAIN s : t = RemoveAt(s, n)
    <2>1. PICK n \in 1 .. Len(s) : t = RemoveAt(s, n)
      BY <1>0, <1>1
    <2>2. /\ t \in Seq(Letters) /\ Len(t) = Len(s) - 1
          /\ \A k \in 1 .. n - 1 : t[k] = s[k]
          /\ \A k \in 1 .. Len(s) - n : t[n - 1 + k] = s[n + k]
      BY <2>1, Removed
    <2> QED  BY <2>2, RemovedIsNear
  <1>2. CASE \E n \in 1 .. Len(s) + 1, c \in Letters : t = InsertAt(s, n, c)
    <2>1. PICK n \in 1 .. Len(s) + 1, c \in Letters : t = InsertAt(s, n, c)
      BY <1>2
    <2> DEFINE u == InsertAt(s, n, c)
    <2>2. /\ u \in Seq(Letters) /\ Len(u) = Len(s) + 1
          /\ \A k \in 1 .. n - 1 : u[k] = s[k]
          /\ \A k \in 1 .. Len(s) - (n - 1) : u[n + k] = s[n - 1 + k]
      BY Inserted
    <2> QED  BY <2>1, <2>2, InsertedIsNear
  <1>3. CASE \E n \in DOMAIN s, c \in Letters : t = ReplaceAt(s, n, c)
    <2>1. PICK n \in 1 .. Len(s), c \in Letters : t = ReplaceAt(s, n, c)
      BY <1>0, <1>3
    <2>2. /\ t \in Seq(Letters) /\ Len(t) = Len(s)
          /\ \A k \in 1 .. Len(s) : k # n => t[k] = s[k]
      BY <2>1, Replaced
    <2> QED  BY <2>2, ReplacedIsNear
  <1> QED  BY <1>1, <1>2, <1>3 DEF Edits

-----------------------------------------------------------------------------
(* The strings around the word are those at that distance from it.         *)

More(near) == near \cup UNION {Edits(s) : s \in near}

LEMMA AroundUnfolds ==
  ASSUME bound \in Nat
  PROVE  /\ Around[0] = {word}
         /\ \A n \in 1 .. bound : Around[n] = More(Around[n - 1])
  <1> DEFINE Balls(f, n) == f = [k \in 0 .. n |-> IF k = 0 THEN {word} ELSE More(f[k - 1])]
             P == {n \in 0 .. bound : \E f : Balls(f, n)}
  <1>1. 0 \in P
    <2> DEFINE f == [k \in 0 .. 0 |-> {word}]
    <2>1. Balls(f, 0)
      OBVIOUS
    <2>2. 0 \in 0 .. bound
      OBVIOUS
    <2> HIDE DEF f, Balls
    <2> QED  BY <2>1, <2>2
  <1>2. ASSUME NEW n \in P, n < bound PROVE n + 1 \in P
    <2>1. PICK f : Balls(f, n)
      BY <1>2
    <2>2. n \in Nat /\ n + 1 \in 0 .. bound
      BY <1>2
    <2> DEFINE g == [k \in 0 .. n + 1 |-> IF k = n + 1 THEN More(f[n]) ELSE f[k]]
    <2>3. ASSUME NEW k \in 0 .. n + 1 PROVE g[k] = IF k = 0 THEN {word} ELSE More(g[k - 1])
      <3>1. CASE k = n + 1
        <4>1. k # 0 /\ g[k] = More(f[n]) /\ g[k - 1] = f[n]
          BY <2>2, <3>1
        <4> HIDE DEF g
        <4> QED  BY <4>1
      <3>2. CASE k # n + 1
        <4>1. k \in 0 .. n /\ g[k] = f[k] /\ (k # 0 => g[k - 1] = f[k - 1])
          BY <2>2, <3>2
        <4>2. f[k] = IF k = 0 THEN {word} ELSE More(f[k - 1])
          BY <2>1, <4>1
        <4> HIDE DEF g
        <4> QED  BY <4>1, <4>2
      <3> QED  BY <3>1, <3>2
    <2>4. Balls(g, n + 1)
      <3>1. g = [k \in 0 .. n + 1 |-> g[k]]
        OBVIOUS
      <3> HIDE DEF g
      <3> QED  BY <2>3, <3>1
    <2> HIDE DEF g, Balls
    <2> QED  BY <2>2, <2>4
  <1>3. bound \in P
    <2>1. P \subseteq 0 .. bound
      OBVIOUS
    <2> HIDE DEF P
    <2>2. P = 0 .. bound
      BY <1>1, <1>2, <2>1, InductionUpTo, Zenon
    <2> QED  BY <2>2
  <1>4. Balls(Around, bound)
    <2>1. Around = CHOOSE f : Balls(f, bound)
      BY DEF Around, More
    <2> HIDE DEF Balls
    <2> QED  BY <1>3, <2>1
  <1>5. \A n \in 0 .. bound : Around[n] = IF n = 0 THEN {word} ELSE More(Around[n - 1])
    BY <1>4
  <1> QED  BY <1>5

LEMMA NoDistance ==
  ASSUME NEW w \in Seq(Letters)
  PROVE  Dist(w, w) = 0
  <1> DEFINE D == Distances(w, w)
             P == {i \in 0 .. Len(w) : D[i][i] = 0}
  <1>1. Len(w) \in Nat /\ IsTable(D, w, w)
    BY DistancesTable
  <1> HIDE DEF D
  <1>2. 0 \in P
    BY <1>1 DEF IsTable
  <1>3. ASSUME NEW i \in 1 .. Len(w), i - 1 \in P PROVE i \in P
    <2>1. i \in 0 .. Len(w) /\ i - 1 \in 0 .. Len(w) /\ D[i - 1][i - 1] = 0
      BY <1>3
    <2>2. D[i - 1] \in [0 .. Len(w) -> Nat] /\ IsRow(D[i], D[i - 1], i, w[i], w)
      BY <1>1, <2>1 DEF IsTable
    <2>3. Entry(D[i][i], D[i - 1][i], D[i][i - 1], D[i - 1][i - 1], w[i] = w[i])
      BY <1>1, <2>2, RowEntries
    <2>4. D[i][i] = 0
      BY <2>1, <2>3 DEF Entry
    <2> QED  BY <2>1, <2>4
  <1>4. P = 0 .. Len(w)
    <2>1. P \subseteq 0 .. Len(w)
      OBVIOUS
    <2> HIDE DEF P
    <2> QED  BY <1>1, <1>2, <1>3, <2>1, Along, Zenon
  <1>5. Len(w) \in P
    BY <1>1, <1>4
  <1> QED  BY <1>5 DEF D, Dist

\* Nothing that so many edits make is further than that many.
LEMMA AroundIsNear ==
  ASSUME word \in Seq(Letters), bound \in Nat
  PROVE  \A n \in 0 .. bound : \A s \in Around[n] : s \in Seq(Letters) /\ Dist(s, word) <= n
  <1> DEFINE Ok(n) == \A s \in Around[n] : s \in Seq(Letters) /\ Dist(s, word) <= n
             P == {n \in 0 .. bound : Ok(n)}
  <1>0. Len(word) \in Nat
    OBVIOUS
  <1>1. 0 \in P
    <2>1. Ok(0)
      BY AroundUnfolds, NoDistance
    <2> QED  BY <2>1
  <1>2. ASSUME NEW n \in 1 .. bound, n - 1 \in P PROVE n \in P
    <2>1. Around[n] = More(Around[n - 1]) /\ Ok(n - 1) /\ n \in 0 .. bound /\ n \in Nat
      BY <1>2, AroundUnfolds
    <2>2. ASSUME NEW s \in Around[n] PROVE s \in Seq(Letters) /\ Dist(s, word) <= n
      <3>1. CASE s \in Around[n - 1]
        <4>1. s \in Seq(Letters) /\ Dist(s, word) <= n - 1
          BY <2>1, <3>1
        <4>2. Dist(s, word) \in Nat
          BY <1>0, <4>1, DistancesTable
        <4> QED  BY <2>1, <4>1, <4>2
      <3>2. CASE \E r \in Around[n - 1] : s \in Edits(r)
        <4>1. PICK r \in Around[n - 1] : s \in Edits(r)
          BY <3>2
        <4>2. r \in Seq(Letters) /\ Dist(r, word) <= n - 1
          BY <2>1
        <4>3. s \in Seq(Letters) /\ Dist(s, word) <= Dist(r, word) + 1
          BY <1>0, <4>1, <4>2, EditIsNear
        <4>4. Dist(s, word) \in Nat /\ Dist(r, word) \in Nat
          <5>1. Len(s) \in Nat /\ Len(r) \in Nat
            BY <4>2, <4>3
          <5> QED  BY <1>0, <5>1, DistancesTable
        <4> QED  BY <2>1, <4>2, <4>3, <4>4
      <3> QED  BY <2>1, <3>1, <3>2 DEF More
    <2> QED  BY <2>1, <2>2
  <1>3. P = 0 .. bound
    <2>1. P \subseteq 0 .. bound
      OBVIOUS
    <2> HIDE DEF P
    <2> QED  BY <1>1, <1>2, <2>1, Along, Zenon
  <1> QED  BY <1>3

\* On the way from the word to s: i runes of s instead of j of the word.
Between(s, i, j) == SubSeq(s, 1, i) \o SubSeq(word, j + 1, Len(word))

LEMMA BetweenRunes ==
  ASSUME word \in Seq(Letters), NEW s \in Seq(Letters),
         NEW i \in 0 .. Len(s), NEW j \in 0 .. Len(word)
  PROVE  LET b == Between(s, i, j) IN
         /\ b \in Seq(Letters) /\ Len(b) = i + (Len(word) - j)
         /\ \A k \in 1 .. i : b[k] = s[k]
         /\ \A k \in 1 .. Len(word) - j : b[i + k] = word[j + k]
  <1> DEFINE u == SubSeq(s, 1, i)
             v == SubSeq(word, j + 1, Len(word))
  <1>0. Len(s) \in Nat /\ Len(word) \in Nat
    OBVIOUS
  <1>1. u \in Seq(Letters) /\ Len(u) = i /\ \A k \in 1 .. i : u[k] = s[k]
    BY <1>0
  <1>2. /\ v \in Seq(Letters) /\ Len(v) = Len(word) - j
        /\ \A k \in 1 .. Len(word) - j : v[k] = word[j + k]
    BY <1>0
  <1>3. Between(s, i, j) = u \o v
    BY DEF Between
  <1> HIDE DEF u, v
  <1>4. /\ u \o v \in Seq(Letters) /\ Len(u \o v) = Len(u) + Len(v)
        /\ \A k \in 1 .. Len(u) : (u \o v)[k] = u[k]
        /\ \A k \in 1 .. Len(v) : (u \o v)[Len(u) + k] = v[k]
    BY <1>1, <1>2, Joined
  <1>5. Len(u \o v) = i + (Len(word) - j)
    BY <1>1, <1>2, <1>4
  <1>6. \A k \in 1 .. i : (u \o v)[k] = s[k]
    BY <1>1, <1>4
  <1>7. \A k \in 1 .. Len(word) - j : (u \o v)[i + k] = word[j + k]
    BY <1>1, <1>2, <1>4
  <1> QED  BY <1>3, <1>4, <1>5, <1>6, <1>7

LEMMA BetweenEnds ==
  ASSUME word \in Seq(Letters), NEW s \in Seq(Letters)
  PROVE  Between(s, 0, 0) = word /\ Between(s, Len(s), Len(word)) = s
  <1>0. /\ Len(s) \in Nat /\ Len(word) \in Nat /\ 0 \in 0 .. Len(s) /\ 0 \in 0 .. Len(word)
        /\ Len(s) \in 0 .. Len(s) /\ Len(word) \in 0 .. Len(word)
    OBVIOUS
  <1>1. Between(s, 0, 0) = word
    <2> DEFINE b == Between(s, 0, 0)
    <2>1. /\ b \in Seq(Letters) /\ Len(b) = 0 + (Len(word) - 0)
          /\ \A k \in 1 .. Len(word) - 0 : b[0 + k] = word[0 + k]
      BY <1>0, BetweenRunes
    <2> HIDE DEF b
    <2>2. Len(b) = Len(word) /\ \A k \in 1 .. Len(b) : b[k] = word[k]
      BY <1>0, <2>1
    <2>3. b = word
      BY <2>1, <2>2, SeqEqual
    <2> QED  BY <2>3 DEF b
  <1>2. Between(s, Len(s), Len(word)) = s
    <2> DEFINE b == Between(s, Len(s), Len(word))
    <2>1. /\ b \in Seq(Letters) /\ Len(b) = Len(s) + (Len(word) - Len(word))
          /\ \A k \in 1 .. Len(s) : b[k] = s[k]
      BY <1>0, BetweenRunes
    <2> HIDE DEF b
    <2>2. Len(b) = Len(s)
      BY <1>0, <2>1
    <2>3. b = s
      BY <2>1, <2>2, SeqEqual
    <2> QED  BY <2>3 DEF b
  <1> QED  BY <1>1, <1>2

\* One rune more of s is an insertion, one rune less of the word a removal,
\* both at once a replacement.
LEMMA BetweenSteps ==
  ASSUME word \in Seq(Letters), NEW s \in Seq(Letters)
  PROVE  /\ \A i \in 1 .. Len(s), j \in 0 .. Len(word) :
              Between(s, i, j) \in Edits(Between(s, i - 1, j))
         /\ \A i \in 0 .. Len(s), j \in 1 .. Len(word) :
              Between(s, i, j) \in Edits(Between(s, i, j - 1))
         /\ \A i \in 1 .. Len(s), j \in 1 .. Len(word) :
              /\ Between(s, i, j) \in Edits(Between(s, i - 1, j - 1))
              /\ s[i] = word[j] => Between(s, i, j) = Between(s, i - 1, j - 1)
  <1>0. Len(s) \in Nat /\ Len(word) \in Nat
    OBVIOUS
  <1>1. ASSUME NEW i \in 1 .. Len(s), NEW j \in 0 .. Len(word)
        PROVE  Between(s, i, j) \in Edits(Between(s, i - 1, j))
    <2> DEFINE a == Between(s, i - 1, j)
               b == Between(s, i, j)
               c == InsertAt(a, i, s[i])
               m == Len(word) - j
    <2>0. i - 1 \in 0 .. Len(s) /\ i \in 0 .. Len(s) /\ m \in Nat /\ s[i] \in Letters /\ i - 1 \in Nat
      BY <1>0
    <2>1. /\ a \in Seq(Letters) /\ Len(a) = i - 1 + m
          /\ \A k \in 1 .. i - 1 : a[k] = s[k]
          /\ \A k \in 1 .. m : a[i - 1 + k] = word[j + k]
      BY <2>0, BetweenRunes
    <2>2. /\ b \in Seq(Letters) /\ Len(b) = i + m
          /\ \A k \in 1 .. i : b[k] = s[k]
          /\ \A k \in 1 .. m : b[i + k] = word[j + k]
      BY <2>0, BetweenRunes
    <2> HIDE DEF a, b
    <2>3. i \in 1 .. Len(a) + 1
      BY <2>0, <2>1
    <2>4. /\ c \in Seq(Letters) /\ Len(c) = Len(a) + 1 /\ c[i] = s[i]
          /\ \A k \in 1 .. i - 1 : c[k] = a[k]
          /\ \A k \in 1 .. Len(a) - (i - 1) : c[i + k] = a[i - 1 + k]
      BY <2>0, <2>1, <2>3, Inserted
    <2> HIDE DEF c, m
    <2>5. Len(c) = Len(b) /\ Len(a) - (i - 1) = m /\ Len(b) = i + m
      BY <2>0, <2>1, <2>2, <2>4
    <2>6. ASSUME NEW k \in 1 .. Len(b) PROVE c[k] = b[k]
      <3>1. CASE k < i
        <4>1. k \in 1 .. i - 1 /\ k \in 1 .. i
          BY <3>1, <2>0
        <4> QED  BY <2>1, <2>2, <2>4, <4>1
      <3>2. CASE k = i
        <4>1. i \in 1 .. i
          OBVIOUS
        <4> QED  BY <2>2, <2>4, <3>2, <4>1
      <3>3. CASE k > i
        <4>1. k - i \in 1 .. m /\ i + (k - i) = k /\ k - i \in 1 .. Len(a) - (i - 1)
          BY <2>0, <2>5, <3>3
        <4>2. c[k] = a[i - 1 + (k - i)] /\ b[k] = word[j + (k - i)]
          BY <2>2, <2>4, <4>1
        <4>3. a[i - 1 + (k - i)] = word[j + (k - i)]
          BY <2>1, <4>1
        <4> QED  BY <4>2, <4>3
      <3> QED  BY <2>0, <3>1, <3>2, <3>3
    <2>7. b = c
      BY <2>2, <2>4, <2>5, <2>6, SeqEqual
    <2>8. c \in Edits(a)
      BY <2>0, <2>3 DEF c, Edits
    <2> QED  BY <2>7, <2>8 DEF a, b
  <1>2. ASSUME NEW i \in 0 .. Len(s), NEW j \in 1 .. Len(word)
        PROVE  Between(s, i, j) \in Edits(Between(s, i, j - 1))
    <2> DEFINE a == Between(s, i, j - 1)
               b == Between(s, i, j)
               n == i + 1
               c == RemoveAt(a, n)
               m == Len(word) - j
    <2>0. /\ j - 1 \in 0 .. Len(word) /\ j \in 0 .. Len(word) /\ m \in Nat /\ i \in Nat
          /\ Len(word) - (j - 1) = m + 1
      BY <1>0
    <2>1. /\ a \in Seq(Letters) /\ Len(a) = i + (m + 1)
          /\ \A k \in 1 .. i : a[k] = s[k]
          /\ \A k \in 1 .. m + 1 : a[i + k] = word[j - 1 + k]
      <3>1. /\ a \in Seq(Letters) /\ Len(a) = i + (Len(word) - (j - 1))
            /\ \A k \in 1 .. i : a[k] = s[k]
            /\ \A k \in 1 .. Len(word) - (j - 1) : a[i + k] = word[j - 1 + k]
        BY <2>0, BetweenRunes
      <3> HIDE DEF a, m
      <3> QED  BY <2>0, <3>1
    <2>2. /\ b \in Seq(Letters) /\ Len(b) = i + m
          /\ \A k \in 1 .. i : b[k] = s[k]
          /\ \A k \in 1 .. m : b[i + k] = word[j + k]
      BY <2>0, BetweenRunes
    <2> HIDE DEF a, b
    <2>3. i + 1 \in 1 .. Len(a) /\ i + 1 \in DOMAIN a
      BY <2>0, <2>1
    <2>4. /\ c \in Seq(Letters) /\ Len(c) = Len(a) - 1
          /\ \A k \in 1 .. n - 1 : c[k] = a[k]
          /\ \A k \in 1 .. Len(a) - n : c[n - 1 + k] = a[n + k]
      <3>1. n \in 1 .. Len(a)
        BY <2>3
      <3> HIDE DEF n
      <3> QED  BY <2>1, <3>1, Removed
    <2> HIDE DEF c, m
    <2>5. /\ Len(c) = Len(b) /\ Len(a) - (i + 1) = m /\ Len(b) = i + m
          /\ \A k \in 1 .. i : c[k] = a[k]
          /\ \A k \in 1 .. m : c[i + k] = a[i + 1 + k]
      BY <2>0, <2>1, <2>2, <2>4
    <2>6. ASSUME NEW k \in 1 .. Len(b) PROVE c[k] = b[k]
      <3>1. CASE k <= i
        <4>1. k \in 1 .. i
          BY <3>1, <2>0
        <4> QED  BY <2>1, <2>2, <2>5, <4>1
      <3>2. CASE k > i
        <4> DEFINE d == k - i
        <4>1. /\ d \in 1 .. m /\ i + d = k /\ d + 1 \in 1 .. m + 1 /\ i + (d + 1) = i + 1 + d
              /\ j - 1 + (d + 1) = j + d
          BY <2>0, <2>5, <3>2
        <4> HIDE DEF d
        <4>2. c[k] = a[i + 1 + d] /\ b[k] = word[j + d]
          BY <2>2, <2>5, <4>1
        <4>3. a[i + 1 + d] = word[j + d]
          BY <2>1, <4>1
        <4> QED  BY <4>2, <4>3
      <3> QED  BY <2>0, <3>1, <3>2
    <2>7. b = c
      BY <2>2, <2>4, <2>5, <2>6, SeqEqual
    <2>8. c \in Edits(a)
      BY <2>3 DEF c, Edits
    <2> QED  BY <2>7, <2>8 DEF a, b
  <1>3. ASSUME NEW i \in 1 .. Len(s), NEW j \in 1 .. Len(word)
        PROVE  /\ Between(s, i, j) \in Edits(Between(s, i - 1, j - 1))
               /\ s[i] = word[j] => Between(s, i, j) = Between(s, i - 1, j - 1)
    <2> DEFINE a == Between(s, i - 1, j - 1)
               b == Between(s, i, j)
               c == ReplaceAt(a, i, s[i])
               m == Len(word) - j
    <2>0. /\ j - 1 \in 0 .. Len(word) /\ j \in 0 .. Len(word) /\ m \in Nat /\ i - 1 \in Nat
          /\ i - 1 \in 0 .. Len(s) /\ i \in 0 .. Len(s) /\ s[i] \in Letters
          /\ Len(word) - (j - 1) = m + 1
      BY <1>0
    <2>1. /\ a \in Seq(Letters) /\ Len(a) = i + m
          /\ \A k \in 1 .. i - 1 : a[k] = s[k]
          /\ \A k \in 1 .. m + 1 : a[i - 1 + k] = word[j - 1 + k]
      <3>1. /\ a \in Seq(Letters) /\ Len(a) = i - 1 + (Len(word) - (j - 1))
            /\ \A k \in 1 .. i - 1 : a[k] = s[k]
            /\ \A k \in 1 .. Len(word) - (j - 1) : a[i - 1 + k] = word[j - 1 + k]
        BY <2>0, BetweenRunes
      <3> HIDE DEF a, m
      <3>2. i - 1 + (m + 1) = i + m
        BY <2>0
      <3> QED  BY <2>0, <3>1, <3>2
    <2>2. /\ b \in Seq(Letters) /\ Len(b) = i + m
          /\ \A k \in 1 .. i : b[k] = s[k]
          /\ \A k \in 1 .. m : b[i + k] = word[j + k]
      BY <2>0, BetweenRunes
    <2> HIDE DEF a, b
    <2>3. i \in 1 .. Len(a) /\ i \in DOMAIN a
      BY <2>0, <2>1
    <2>4. /\ c \in Seq(Letters) /\ Len(c) = Len(a) /\ c[i] = s[i]
          /\ \A k \in 1 .. Len(a) : k # i => c[k] = a[k]
      BY <2>0, <2>1, <2>3, Replaced
    <2> HIDE DEF c, m
    <2>5. ASSUME NEW k \in 1 .. Len(b), k # i PROVE a[k] = b[k]
      <3>1. CASE k < i
        <4>1. k \in 1 .. i - 1 /\ k \in 1 .. i
          BY <3>1, <2>0
        <4> QED  BY <2>1, <2>2, <4>1
      <3>2. CASE k > i
        <4> DEFINE n == k - i
        <4>1. /\ n \in 1 .. m /\ i + n = k /\ n + 1 \in 1 .. m + 1 /\ i - 1 + (n + 1) = k
              /\ j - 1 + (n + 1) = j + n
          BY <2>0, <2>2, <3>2
        <4> HIDE DEF n
        <4>2. b[k] = word[j + n]
          BY <2>2, <4>1
        <4>3. a[k] = word[j + n]
          BY <2>1, <4>1
        <4> QED  BY <4>2, <4>3
      <3> QED  BY <2>0, <2>5, <3>1, <3>2
    <2>6. i \in 1 .. i
      BY <2>0
    <2>7. b = c
      <3>1. ASSUME NEW k \in 1 .. Len(b) PROVE c[k] = b[k]
        BY <2>1, <2>2, <2>4, <2>5, <2>6
      <3>2. Len(c) = Len(b)
        BY <2>1, <2>2, <2>4
      <3> QED  BY <2>2, <2>4, <3>1, <3>2, SeqEqual
    <2>8. c \in Edits(a)
      BY <2>0, <2>3 DEF c, Edits
    <2>9. ASSUME s[i] = word[j] PROVE b = a
      <3>1. a[i] = word[j]
        <4>1. 1 \in 1 .. m + 1 /\ i - 1 + 1 = i /\ j - 1 + 1 = j
          BY <2>0
        <4> QED  BY <2>1, <4>1
      <3>2. ASSUME NEW k \in 1 .. Len(b) PROVE a[k] = b[k]
        BY <2>2, <2>5, <2>6, <2>9, <3>1
      <3> QED  BY <2>1, <2>2, <3>2, SeqEqual
    <2> QED  BY <2>7, <2>8, <2>9 DEF a, b
  <1> QED  BY <1>1, <1>2, <1>3

LEMMA WordIsAround ==
  ASSUME bound \in Nat
  PROVE  \A n \in 0 .. bound : word \in Around[n]
  <1> DEFINE P == {n \in 0 .. bound : word \in Around[n]}
  <1>1. 0 \in P
    BY AroundUnfolds
  <1>2. ASSUME NEW n \in 1 .. bound, n - 1 \in P PROVE n \in P
    BY <1>2, AroundUnfolds DEF More
  <1>3. P = 0 .. bound
    <2>1. P \subseteq 0 .. bound
      OBVIOUS
    <2> HIDE DEF P
    <2> QED  BY <1>1, <1>2, <2>1, Along, Zenon
  <1> QED  BY <1>3

\* As many edits as the distance says are enough.
LEMMA NearIsAround ==
  ASSUME word \in Seq(Letters), bound \in Nat, NEW s \in Seq(Letters),
         NEW n \in 0 .. bound, Dist(s, word) <= n
  PROVE  s \in Around[n]
  <1> DEFINE D == Distances(s, word)
             Made(i, j) == \A k \in 0 .. bound : D[i][j] <= k => Between(s, i, j) \in Around[k]
             Row(i) == \A j \in 0 .. Len(word) : Made(i, j)
             P == {i \in 0 .. Len(s) : Row(i)}
  <1>0. Len(s) \in Nat /\ Len(word) \in Nat
    OBVIOUS
  <1>1. IsTable(D, s, word)
    BY <1>0, DistancesTable
  <1> HIDE DEF D
  <1>2. ASSUME NEW k \in 0 .. bound, NEW r, NEW t \in Edits(r), k # 0, r \in Around[k - 1]
        PROVE  t \in Around[k]
    <2>1. k \in 1 .. bound
      BY <1>2
    <2> QED  BY <1>2, <2>1, AroundUnfolds DEF More
  <1>3. 0 \in P
    <2> DEFINE Q == {j \in 0 .. Len(word) : Made(0, j)}
    <2>0. \A j \in 0 .. Len(word) : D[0][j] = j
      BY <1>1 DEF IsTable
    <2>1. 0 \in Q
      <3>1. Made(0, 0)
        BY WordIsAround, BetweenEnds
      <3>2. 0 \in 0 .. Len(word)
        BY <1>0
      <3> QED  BY <3>1, <3>2
    <2>2. ASSUME NEW j \in 1 .. Len(word), j - 1 \in Q PROVE j \in Q
      <3>1. j - 1 \in 0 .. Len(word) /\ j \in 0 .. Len(word) /\ 0 \in 0 .. Len(s)
        BY <1>0
      <3>2. ASSUME NEW k \in 0 .. bound, D[0][j] <= k PROVE Between(s, 0, j) \in Around[k]
        <4>1. k # 0 /\ k - 1 \in 0 .. bound /\ D[0][j - 1] <= k - 1
          BY <2>0, <3>1, <3>2
        <4>2. Between(s, 0, j - 1) \in Around[k - 1]
          BY <2>2, <4>1
        <4>3. Between(s, 0, j) \in Edits(Between(s, 0, j - 1))
          BY <3>1, BetweenSteps
        <4> QED  BY <1>2, <4>1, <4>2, <4>3
      <3> QED  BY <3>1, <3>2
    <2>3. Q = 0 .. Len(word)
      <3>1. Q \subseteq 0 .. Len(word)
        OBVIOUS
      <3> HIDE DEF Q
      <3> QED  BY <1>0, <2>1, <2>2, <3>1, Along, Zenon
    <2>4. Row(0)
      BY <2>3
    <2>5. 0 \in 0 .. Len(s)
      BY <1>0
    <2> HIDE DEF Row
    <2> QED  BY <2>4, <2>5
  <1>4. ASSUME NEW i \in 1 .. Len(s), i - 1 \in P PROVE i \in P
    <2> DEFINE Q == {j \in 0 .. Len(word) : Made(i, j)}
    <2>0. /\ i - 1 \in 0 .. Len(s) /\ i \in 0 .. Len(s) /\ Row(i - 1) /\ 0 \in 0 .. Len(word)
      BY <1>0, <1>4
    <2>a. /\ D[i - 1] \in [0 .. Len(word) -> Nat] /\ IsRow(D[i], D[i - 1], i, s[i], word)
          /\ D[i][0] = i /\ D[i - 1][0] = i - 1
      BY <1>0, <1>1, <2>0, TableRows
    <2>1. 0 \in Q
      <3>1. ASSUME NEW k \in 0 .. bound, D[i][0] <= k PROVE Between(s, i, 0) \in Around[k]
        <4>1. k # 0 /\ k - 1 \in 0 .. bound /\ D[i - 1][0] <= k - 1
          BY <2>a, <3>1
        <4>2. Between(s, i - 1, 0) \in Around[k - 1]
          BY <2>0, <4>1
        <4>3. Between(s, i, 0) \in Edits(Between(s, i - 1, 0))
          BY <2>0, BetweenSteps
        <4> QED  BY <1>2, <4>1, <4>2, <4>3
      <3> QED  BY <2>0, <3>1
    <2>2. ASSUME NEW j \in 1 .. Len(word), j - 1 \in Q PROVE j \in Q
      <3>1. j - 1 \in 0 .. Len(word) /\ j \in 0 .. Len(word) /\ Made(i, j - 1)
        BY <1>0, <2>2
      <3>2. Entry(D[i][j], D[i - 1][j], D[i][j - 1], D[i - 1][j - 1], s[i] = word[j])
        BY <1>0, <2>a, RowEntries
      <3>3. ASSUME NEW k \in 0 .. bound, D[i][j] <= k PROVE Between(s, i, j) \in Around[k]
        <4>1. CASE D[i][j] = D[i - 1][j] + 1
          <5>1. k # 0 /\ k - 1 \in 0 .. bound /\ D[i - 1][j] <= k - 1
            BY <3>2, <3>3, <4>1 DEF Entry
          <5>2. Between(s, i - 1, j) \in Around[k - 1]
            BY <2>0, <3>1, <5>1
          <5>3. Between(s, i, j) \in Edits(Between(s, i - 1, j))
            BY <3>1, BetweenSteps
          <5> QED  BY <1>2, <5>1, <5>2, <5>3
        <4>2. CASE D[i][j] = D[i][j - 1] + 1
          <5>1. k # 0 /\ k - 1 \in 0 .. bound /\ D[i][j - 1] <= k - 1
            BY <3>2, <3>3, <4>2 DEF Entry
          <5>2. Between(s, i, j - 1) \in Around[k - 1]
            BY <3>1, <5>1
          <5>3. Between(s, i, j) \in Edits(Between(s, i, j - 1))
            BY <2>0, BetweenSteps
          <5> QED  BY <1>2, <5>1, <5>2, <5>3
        <4>3. CASE D[i][j] = D[i - 1][j - 1] + 1
          <5>1. k # 0 /\ k - 1 \in 0 .. bound /\ D[i - 1][j - 1] <= k - 1
            BY <3>2, <3>3, <4>3 DEF Entry
          <5>2. Between(s, i - 1, j - 1) \in Around[k - 1]
            BY <2>0, <3>1, <5>1
          <5>3. Between(s, i, j) \in Edits(Between(s, i - 1, j - 1))
            BY BetweenSteps
          <5> QED  BY <1>2, <5>1, <5>2, <5>3
        <4>4. CASE s[i] = word[j] /\ D[i][j] = D[i - 1][j - 1]
          <5>1. Between(s, i - 1, j - 1) \in Around[k]
            BY <2>0, <3>1, <3>3, <4>4
          <5>2. Between(s, i, j) = Between(s, i - 1, j - 1)
            BY <4>4, BetweenSteps
          <5> QED  BY <5>1, <5>2
        <4> QED  BY <3>2, <4>1, <4>2, <4>3, <4>4 DEF Entry
      <3> QED  BY <3>1, <3>3
    <2>3. Q = 0 .. Len(word)
      <3>1. Q \subseteq 0 .. Len(word)
        OBVIOUS
      <3> HIDE DEF Q
      <3> QED  BY <1>0, <2>1, <2>2, <3>1, Along, Zenon
    <2>4. Row(i)
      BY <2>3
    <2> HIDE DEF Row
    <2> QED  BY <2>0, <2>4
  <1>5. P = 0 .. Len(s)
    <2>1. P \subseteq 0 .. Len(s)
      OBVIOUS
    <2> HIDE DEF P
    <2> QED  BY <1>0, <1>3, <1>4, <2>1, Along, Zenon
  <1>6. Made(Len(s), Len(word))
    <2>1. Len(s) \in 0 .. Len(s) /\ Len(word) \in 0 .. Len(word)
      BY <1>0
    <2>2. Row(Len(s))
      BY <1>5, <2>1
    <2> QED  BY <2>1, <2>2
  <1>7. D[Len(s)][Len(word)] <= n
    BY DEF D, Dist
  <1> QED  BY <1>6, <1>7, BetweenEnds

-----------------------------------------------------------------------------
(* Why a window need not be measured to the end, or at all.                *)

LEMMA LengthsApart ==
  ASSUME NEW s, NEW w, Len(s) \in Nat, Len(w) \in Nat
  PROVE  Len(s) - Len(w) <= Dist(s, w) /\ Len(w) - Len(s) <= Dist(s, w)
  <1> DEFINE D == Distances(s, w)
             P == {i \in 0 .. Len(s) : \A j \in 0 .. Len(w) : i - j <= D[i][j] /\ j - i <= D[i][j]}
  <1>1. IsTable(D, s, w)
    BY DistancesTable
  <1> HIDE DEF D
  <1>2. 0 \in P
    BY <1>1 DEF IsTable
  <1>3. ASSUME NEW i \in 1 .. Len(s), i - 1 \in P PROVE i \in P
    <2>1. /\ i \in 0 .. Len(s) /\ i - 1 \in 0 .. Len(s) /\ i \in Nat \ {0}
          /\ \A j \in 0 .. Len(w) : i - 1 - j <= D[i - 1][j] /\ j - (i - 1) <= D[i - 1][j]
      BY <1>3
    <2>2. D[i - 1] \in [0 .. Len(w) -> Nat] /\ IsRow(D[i], D[i - 1], i, s[i], w)
      BY <1>1, <2>1 DEF IsTable
    <2>3. \A j \in 0 .. Len(w) : i - j <= D[i][j] /\ j - i <= D[i][j]
      BY <2>1, <2>2, RowIsFar
    <2> QED  BY <2>1, <2>3
  <1>4. P = 0 .. Len(s)
    <2>1. P \subseteq 0 .. Len(s)
      OBVIOUS
    <2> HIDE DEF P
    <2> QED  BY <1>2, <1>3, <2>1, Along, Zenon
  <1>5. Len(s) \in 0 .. Len(s) /\ Len(w) \in 0 .. Len(w)
    OBVIOUS
  <1>6. Len(s) - Len(w) <= D[Len(s)][Len(w)] /\ Len(w) - Len(s) <= D[Len(s)][Len(w)]
    BY <1>4, <1>5
  <1> QED  BY <1>6 DEF D, Dist

\* No later row comes back below what a whole row exceeds.
LEMMA RowGivesUp ==
  ASSUME NEW s, NEW w, Len(s) \in Nat, Len(w) \in Nat, NEW n \in Nat,
         NEW i \in 0 .. Len(s), \A j \in 0 .. Len(w) : Distances(s, w)[i][j] > n
  PROVE  Dist(s, w) > n
  <1> DEFINE D == Distances(s, w)
             Above(k) == \A j \in 0 .. Len(w) : D[i + k][j] > n
             P == {k \in 0 .. Len(s) - i : Above(k)}
  <1>0. Len(s) - i \in Nat /\ i + (Len(s) - i) = Len(s) /\ i + 0 = i /\ i \in Nat
    OBVIOUS
  <1>1. IsTable(D, s, w) /\ \A j \in 0 .. Len(w) : D[i][j] > n
    BY DistancesTable
  <1> HIDE DEF D
  <1>2. 0 \in P
    BY <1>0, <1>1
  <1>3. ASSUME NEW k \in 1 .. Len(s) - i, k - 1 \in P PROVE k \in P
    <2>1. /\ k \in 0 .. Len(s) - i /\ i + k \in 1 .. Len(s) /\ i + k - 1 \in 0 .. Len(s)
          /\ i + (k - 1) = i + k - 1 /\ i + k \in Nat
      BY <1>0
    <2>2. \A j \in 0 .. Len(w) : D[i + k - 1][j] > n
      BY <1>3, <2>1
    <2>3. D[i + k - 1] \in [0 .. Len(w) -> Nat] /\ D[i + k - 1][0] = i + k - 1
      BY <1>1, <2>1, TableRows
    <2>4. IsRow(D[i + k], D[i + k - 1], i + k, s[i + k], w)
      BY <1>1, <2>1 DEF IsTable
    <2>5. i + k > n
      <3>1. 0 \in 0 .. Len(w)
        OBVIOUS
      <3>2. i + k - 1 > n
        BY <2>2, <2>3, <3>1
      <3> QED  BY <2>1, <3>2
    <2>6. Above(k)
      BY <2>1, <2>2, <2>3, <2>4, <2>5, RowStaysAbove
    <2> QED  BY <2>1, <2>6
  <1>4. P = 0 .. Len(s) - i
    <2>1. P \subseteq 0 .. Len(s) - i
      OBVIOUS
    <2> HIDE DEF P
    <2> QED  BY <1>0, <1>2, <1>3, <2>1, Along, Zenon
  <1>5. Above(Len(s) - i)
    <2>1. Len(s) - i \in 0 .. Len(s) - i
      BY <1>0
    <2> HIDE DEF Above
    <2> QED  BY <1>4, <2>1
  <1>6. Len(w) \in 0 .. Len(w)
    OBVIOUS
  <1> QED  BY <1>0, <1>5, <1>6 DEF D, Dist

-----------------------------------------------------------------------------
(* The search, window by window.                                           *)

\* The windows of t, their distances from w, and those that a search that is
\* at window st of width wd has passed.
Fits(t, s, n) == s \in Nat /\ n \in Nat \ {0} /\ s + n <= Len(t)
Away(t, w, s, n) == Dist(Window(t, s, n), w)
Passed(s, n, st, wd) == n < wd \/ (n = wd /\ s < st)

\* e is a part of t at distance d.
IsAt(t, w, e, d) == \E s, n \in Nat : Fits(t, s, n) /\ e = Window(t, s, n) /\ d = Away(t, w, s, n)

\* The best so far is the nearest of the windows that are passed.
Searched(t, w, b, st, wd, d, e) ==
  /\ d \in 0 .. b + 1
  /\ \A s, n \in Nat : Fits(t, s, n) /\ Passed(s, n, st, wd) => d <= Away(t, w, s, n)
  /\ IF e = <<>> THEN d = b + 1 ELSE d <= b /\ IsAt(t, w, e, d)

\* The answer is the nearest of all windows.
Answered(t, w, b, e) ==
  IF e = <<>> THEN w = <<>> \/ \A s, n \in Nat : Fits(t, s, n) => Away(t, w, s, n) > b
  ELSE \E d \in 0 .. b :
         IsAt(t, w, e, d) /\ \A s, n \in Nat : Fits(t, s, n) => d <= Away(t, w, s, n)

LEMMA WindowRunes ==
  ASSUME NEW t \in Seq(Letters), NEW s, NEW n, Fits(t, s, n)
  PROVE  /\ Window(t, s, n) \in Seq(Letters) /\ Len(Window(t, s, n)) = n
         /\ Window(t, s, n) # <<>>
         /\ \A k \in 1 .. n : Window(t, s, n)[k] = t[s + k]
  <1> DEFINE u == SubSeq(t, s + 1, s + n)
  <1>0. s \in Nat /\ n \in Nat /\ n # 0 /\ s + n <= Len(t) /\ Len(t) \in Nat
    BY DEF Fits
  <1>1. u \in Seq(Letters) /\ Len(u) = n /\ \A k \in 1 .. n : u[k] = t[s + k]
    BY <1>0
  <1>2. u # <<>>
    BY <1>0, <1>1
  <1> QED  BY <1>1, <1>2 DEF Window

LEMMA WindowAway ==
  ASSUME NEW t \in Seq(Letters), NEW w \in Seq(Letters), NEW s, NEW n, Fits(t, s, n)
  PROVE  /\ Away(t, w, s, n) \in Nat
         /\ n - Len(w) <= Away(t, w, s, n) /\ Len(w) - n <= Away(t, w, s, n)
  <1>1. Len(Window(t, s, n)) = n /\ n \in Nat /\ Len(w) \in Nat
    BY WindowRunes DEF Fits
  <1> QED  BY <1>1, DistancesTable, LengthsApart DEF Away

LEMMA SearchBegins ==
  ASSUME NEW t \in Seq(Letters), NEW w \in Seq(Letters), NEW b \in Nat, NEW wd \in Nat,
         wd = 1 \/ wd = Len(w) - b
  PROVE  Searched(t, w, b, 0, wd, b + 1, <<>>)
  <1>1. ASSUME NEW s \in Nat, NEW n \in Nat, Fits(t, s, n), Passed(s, n, 0, wd)
        PROVE  b + 1 <= Away(t, w, s, n)
    <2>1. Away(t, w, s, n) \in Nat /\ Len(w) - n <= Away(t, w, s, n) /\ Len(w) \in Nat
      BY <1>1, WindowAway
    <2>2. n < wd /\ n # 0
      BY <1>1 DEF Passed, Fits
    <2> QED  BY <2>1, <2>2
  <1> QED  BY <1>1 DEF Searched

LEMMA SearchPasses ==
  ASSUME NEW t, NEW w, NEW b \in Nat, NEW st \in Nat, NEW wd \in Nat, NEW d, NEW e,
         Searched(t, w, b, st, wd, d, e), Fits(t, st, wd) => d <= Away(t, w, st, wd)
  PROVE  Searched(t, w, b, st + 1, wd, d, e)
  <1>1. ASSUME NEW s \in Nat, NEW n \in Nat, Fits(t, s, n), Passed(s, n, st + 1, wd)
        PROVE  d <= Away(t, w, s, n)
    <2>1. Passed(s, n, st, wd) \/ (s = st /\ n = wd)
      BY <1>1 DEF Passed
    <2> QED  BY <1>1, <2>1 DEF Searched
  <1> QED  BY <1>1 DEF Searched

LEMMA SearchFinds ==
  ASSUME NEW t \in Seq(Letters), NEW w \in Seq(Letters), NEW b \in Nat,
         NEW st \in Nat, NEW wd \in Nat, NEW d, NEW e, Searched(t, w, b, st, wd, d, e),
         Fits(t, st, wd), Away(t, w, st, wd) <= b, Away(t, w, st, wd) < d
  PROVE  /\ Searched(t, w, b, st + 1, wd, Away(t, w, st, wd), Window(t, st, wd))
         /\ Away(t, w, st, wd) = 0 =>
              \A m : Searched(t, w, b, st, m, Away(t, w, st, wd), Window(t, st, wd))
  <1> DEFINE a == Away(t, w, st, wd)
             u == Window(t, st, wd)
  <1>1. a \in 0 .. b + 1 /\ a <= b /\ u # <<>> /\ IsAt(t, w, u, a) /\ d \in 0 .. b + 1
    BY WindowAway, WindowRunes DEF IsAt, Searched
  <1>2. ASSUME NEW s \in Nat, NEW n \in Nat, Fits(t, s, n), Passed(s, n, st + 1, wd)
        PROVE  a <= Away(t, w, s, n)
    <2>0. Away(t, w, s, n) \in Nat
      BY <1>2, WindowAway
    <2>1. Passed(s, n, st, wd) \/ (s = st /\ n = wd)
      BY <1>2 DEF Passed
    <2>2. CASE Passed(s, n, st, wd)
      <3>1. d <= Away(t, w, s, n) /\ a < d
        BY <1>2, <2>2 DEF Searched
      <3> HIDE DEF a
      <3> QED  BY <1>1, <2>0, <3>1
    <2>3. CASE s = st /\ n = wd
      BY <2>0, <2>3
    <2> QED  BY <2>1, <2>2, <2>3
  <1>3. ASSUME a = 0, NEW s \in Nat, NEW n \in Nat, Fits(t, s, n)
        PROVE  a <= Away(t, w, s, n)
    <2>1. Away(t, w, s, n) \in Nat
      BY <1>3, WindowAway
    <2> HIDE DEF a
    <2> QED  BY <1>3, <2>1
  <1> HIDE DEF a, u
  <1>4. Searched(t, w, b, st + 1, wd, a, u)
    BY <1>1, <1>2 DEF Searched
  <1>5. ASSUME a = 0, NEW m PROVE Searched(t, w, b, st, m, a, u)
    BY <1>1, <1>3, <1>5 DEF Searched
  <1> QED  BY <1>4, <1>5 DEF a, u

LEMMA SearchWidens ==
  ASSUME NEW t \in Seq(Letters), NEW w, NEW b \in Nat, NEW st \in Nat, NEW wd \in Nat, NEW d, NEW e,
         Searched(t, w, b, st, wd, d, e), st + wd > Len(t)
  PROVE  Searched(t, w, b, 0, wd + 1, d, e)
  <1>1. ASSUME NEW s \in Nat, NEW n \in Nat, Fits(t, s, n), Passed(s, n, 0, wd + 1)
        PROVE  d <= Away(t, w, s, n)
    <2>1. Passed(s, n, st, wd)
      <3>1. Len(t) \in Nat /\ s + n <= Len(t) /\ n <= wd
        BY <1>1 DEF Passed, Fits
      <3> QED  BY <3>1 DEF Passed
    <2> QED  BY <1>1, <2>1 DEF Searched
  <1> QED  BY <1>1 DEF Searched

LEMMA SearchEnds ==
  ASSUME NEW t \in Seq(Letters), NEW w \in Seq(Letters), NEW b \in Nat,
         NEW st \in Nat, NEW wd \in Nat, NEW d, NEW e, Searched(t, w, b, st, wd, d, e),
         wd > Len(t) \/ wd > Len(w) + b
  PROVE  Answered(t, w, b, e)
  <1>0. d \in Nat /\ d <= b + 1
    BY DEF Searched
  <1>1. ASSUME NEW s \in Nat, NEW n \in Nat, Fits(t, s, n)
        PROVE  d <= Away(t, w, s, n) /\ Away(t, w, s, n) \in Nat
    <2>1. /\ Away(t, w, s, n) \in Nat /\ n - Len(w) <= Away(t, w, s, n)
          /\ Len(w) \in Nat /\ Len(t) \in Nat /\ s + n <= Len(t)
      BY <1>1, WindowAway DEF Fits
    <2>2. CASE n < wd
      BY <1>1, <2>1, <2>2 DEF Searched, Passed
    <2>3. CASE n >= wd
      <3>1. n > Len(w) + b
        BY <2>1, <2>3
      <3> QED  BY <1>0, <2>1, <3>1
    <2> QED  BY <2>2, <2>3
  <1>2. CASE e = <<>>
    <2>1. d = b + 1
      BY <1>2 DEF Searched
    <2>2. \A s, n \in Nat : Fits(t, s, n) => Away(t, w, s, n) > b
      BY <1>1, <2>1
    <2> QED  BY <1>2, <2>2 DEF Answered
  <1>3. CASE e # <<>>
    <2>1. d \in 0 .. b /\ IsAt(t, w, e, d)
      BY <1>0, <1>3 DEF Searched
    <2> QED  BY <1>1, <1>3, <2>1 DEF Answered
  <1> QED  BY <1>2, <1>3

-----------------------------------------------------------------------------
(* The inductive invariant: what a search knows at each of its loops.      *)

Shape ==
  /\ word \in Seq(Letters) /\ bound \in Nat /\ text \in Seq(Letters)
  /\ width \in Nat /\ start \in Nat /\ row \in Nat

Searching == width >= 1 /\ Searched(text, word, bound, start, width, best, evidence)

\* The row before the next is that of the table of distances.
Measuring ==
  /\ Fits(text, start, width) /\ row >= 1 /\ row <= width + 1
  /\ prev = Distances(Window(text, start, width), word)[row - 1]

Idle == pc = "idle"
InWindows == pc = "windows"
InRows == pc = "rows"

IInv ==
  /\ Shape
  /\ Idle => Answered(text, word, bound, evidence)
  /\ InWindows => Searching
  /\ InRows => Searching /\ Measuring

LEMMA Phases ==
  /\ ~(Idle /\ InWindows) /\ ~(Idle /\ InRows) /\ ~(InWindows /\ InRows)
  BY DEF Idle, InWindows, InRows

LEMMA CallShortKeeps == IInv /\ CallShort => IInv'
  <1> SUFFICES ASSUME IInv, CallShort PROVE IInv'
    OBVIOUS
  <1>0. Idle' /\ UNCHANGED <<word, bound, width, start, row>>
    BY DEF CallShort, Idle, rule, table
  <1>1. PICK t \in Texts :
          /\ text' = t
          /\ \/ (word = <<>> \/ t = <<>>) /\ evidence' = <<>>
             \/ word # <<>> /\ t # <<>> /\ Occurs(t) /\ evidence' = word
             \/ /\ word # <<>> /\ t # <<>> /\ ~Occurs(t)
                /\ MinWindow > MaxWindow(t) /\ evidence' = <<>>
    BY DEF CallShort
  <1>2. t \in Seq(Letters) /\ word \in Seq(Letters) /\ bound \in Nat
    BY InputsAssumption DEF IInv, Shape
  <1>3. Len(t) \in Nat /\ Len(word) \in Nat
    BY <1>2
  <1>4. Answered(t, word, bound, evidence')
    <2>1. CASE (word = <<>> \/ t = <<>>) /\ evidence' = <<>>
      <3>1. ASSUME t = <<>>, NEW s \in Nat, NEW n \in Nat, Fits(t, s, n) PROVE FALSE
        <4>1. Len(t) = 0
          BY <3>1
        <4> QED  BY <3>1, <4>1 DEF Fits
      <3> QED  BY <2>1, <3>1 DEF Answered
    <2>2. CASE word # <<>> /\ Occurs(t) /\ evidence' = word
      <3>1. PICK s \in 0 .. Len(t) - Len(word) : Window(t, s, Len(word)) = word
        BY <2>2 DEF Occurs
      <3>2. Len(word) # 0
        BY <1>2, <2>2, EmptySeq
      <3>3. Fits(t, s, Len(word)) /\ s \in Nat
        BY <1>3, <3>1, <3>2 DEF Fits
      <3>4. Away(t, word, s, Len(word)) = 0
        BY <1>2, <3>1, NoDistance DEF Away
      <3>5. IsAt(t, word, word, 0) /\ 0 \in 0 .. bound
        BY <1>2, <1>3, <3>1, <3>3, <3>4 DEF IsAt
      <3>6. ASSUME NEW q \in Nat, NEW n \in Nat, Fits(t, q, n) PROVE 0 <= Away(t, word, q, n)
        BY <1>2, <3>6, WindowAway
      <3> QED  BY <2>2, <3>5, <3>6 DEF Answered
    <2>3. CASE MinWindow > MaxWindow(t) /\ evidence' = <<>>
      <3>1. ASSUME NEW s \in Nat, NEW n \in Nat, Fits(t, s, n) PROVE Away(t, word, s, n) > bound
        <4>1. /\ Away(t, word, s, n) \in Nat
              /\ n - Len(word) <= Away(t, word, s, n) /\ Len(word) - n <= Away(t, word, s, n)
          BY <1>2, <3>1, WindowAway
        <4>2. n <= Len(t) /\ n >= 1
          BY <1>3, <3>1 DEF Fits
        <4>3. n < Len(word) - bound \/ n > Len(word) + bound
          BY <1>2, <1>3, <2>3, <4>2 DEF MinWindow, MaxWindow
        <4> QED  BY <1>2, <1>3, <4>1, <4>3
      <3> QED  BY <2>3, <3>1 DEF Answered
    <2> QED  BY <1>1, <2>1, <2>2, <2>3
  <1>5. Shape'
    BY <1>0, <1>1, <1>2 DEF IInv, Shape
  <1>6. ~InWindows' /\ ~InRows'
    BY <1>0, Phases DEF Idle, InWindows, InRows
  <1> QED  BY <1>0, <1>1, <1>4, <1>5, <1>6 DEF IInv

LEMMA CallKeeps == IInv /\ Call => IInv'
  <1> SUFFICES ASSUME IInv, Call PROVE IInv'
    OBVIOUS
  <1>0. /\ InWindows' /\ UNCHANGED <<word, bound, row>> /\ text' \in Texts
        /\ width' = MinWindow /\ start' = 0 /\ best' = bound + 1 /\ evidence' = <<>>
    BY DEF Call, InWindows, rule, table
  <1>1. text' \in Seq(Letters) /\ word \in Seq(Letters) /\ bound \in Nat /\ Len(word) \in Nat
    BY <1>0, InputsAssumption DEF IInv, Shape
  <1>2. MinWindow \in Nat /\ MinWindow >= 1 /\ (MinWindow = 1 \/ MinWindow = Len(word) - bound)
    BY <1>1 DEF MinWindow
  <1>3. Searched(text', word, bound, 0, MinWindow, bound + 1, <<>>)
    BY <1>1, <1>2, SearchBegins
  <1>4. Shape' /\ Searching'
    BY <1>0, <1>1, <1>2, <1>3 DEF IInv, Shape, Searching
  <1>5. ~Idle' /\ ~InRows'
    BY <1>0, Phases DEF Idle, InWindows, InRows
  <1> QED  BY <1>4, <1>5 DEF IInv

LEMMA WidenKeeps == IInv /\ Widen => IInv'
  <1> SUFFICES ASSUME IInv, Widen PROVE IInv'
    OBVIOUS
  <1>0. /\ InWindows /\ InWindows' /\ UNCHANGED <<word, bound, text, row, best, evidence>>
        /\ start + width > Len(text) /\ width' = width + 1 /\ start' = 0
    BY DEF Widen, InWindows, rule, table, result
  <1>1. Shape /\ Searching
    BY <1>0 DEF IInv
  <1>2. Searched(text, word, bound, 0, width + 1, best, evidence)
    BY <1>0, <1>1, SearchWidens DEF Shape, Searching
  <1>3. Shape' /\ Searching'
    BY <1>0, <1>1, <1>2 DEF Shape, Searching
  <1>4. ~Idle' /\ ~InRows'
    BY <1>0, Phases DEF Idle, InWindows, InRows
  <1> QED  BY <1>3, <1>4 DEF IInv

LEMMA ReturnKeeps == IInv /\ Return => IInv'
  <1> SUFFICES ASSUME IInv, Return PROVE IInv'
    OBVIOUS
  <1>0. /\ InWindows /\ Idle' /\ UNCHANGED <<word, bound, text, evidence>>
        /\ width > MaxWindow(text) /\ width' = 0 /\ start' = 0 /\ row' = 0
    BY DEF Return, InWindows, Idle, rule
  <1>1. Shape /\ Searching
    BY <1>0 DEF IInv
  <1>2. width > Len(text) \/ width > Len(word) + bound
    BY <1>0 DEF MaxWindow
  <1>3. Answered(text, word, bound, evidence)
    BY <1>1, <1>2, SearchEnds DEF Shape, Searching
  <1>4. Shape'
    BY <1>0, <1>1 DEF Shape
  <1>5. ~InWindows' /\ ~InRows'
    BY <1>0, Phases DEF Idle, InWindows, InRows
  <1> QED  BY <1>0, <1>3, <1>4, <1>5 DEF IInv

\* Moving on from a window that is not nearer than the best keeps the search.
LEMMA PassKeeps ==
  ASSUME IInv, Shape, Searching, InWindows', start' = start + 1,
         UNCHANGED <<word, bound, text, width, best, evidence>>, row' \in Nat,
         Fits(text, start, width) => best <= Away(text, word, start, width)
  PROVE  IInv'
  <1>1. Searched(text, word, bound, start + 1, width, best, evidence)
    BY SearchPasses DEF Shape, Searching
  <1>2. Shape' /\ Searching'
    BY <1>1 DEF Shape, Searching
  <1>3. ~Idle' /\ ~InRows'
    BY Phases DEF Idle, InWindows, InRows
  <1> QED  BY <1>2, <1>3 DEF IInv

\* The first row of a table.
LEMMA FirstRow ==
  ASSUME NEW s, NEW w, Len(s) \in Nat, Len(w) \in Nat
  PROVE  Distances(s, w)[0] = [j \in 0 .. Len(w) |-> j]
  <1> DEFINE D == Distances(s, w)
  <1>1. IsTable(D, s, w)
    BY DistancesTable
  <1> HIDE DEF D
  <1>2. 0 \in 0 .. Len(s)
    OBVIOUS
  <1>3. D[0] \in [0 .. Len(w) -> Nat] /\ \A j \in 0 .. Len(w) : D[0][j] = j
    BY <1>1, <1>2 DEF IsTable
  <1>4. D[0] = [j \in 0 .. Len(w) |-> j]
    BY <1>3
  <1> QED  BY <1>4 DEF D

LEMMA MeasureKeeps == IInv /\ Measure => IInv'
  <1> SUFFICES ASSUME IInv, Measure PROVE IInv'
    OBVIOUS
  <1>0. /\ InWindows /\ UNCHANGED <<word, bound, text, width, best, evidence>>
        /\ width <= MaxWindow(text) /\ start + width <= Len(text)
        /\ \/ /\ TooFarInLength /\ start' = start + 1 /\ InWindows' /\ UNCHANGED row
           \/ /\ ~TooFarInLength /\ row' = 1 /\ prev' = [j \in 0 .. Len(word) |-> j]
              /\ InRows' /\ UNCHANGED start
    BY DEF Measure, InWindows, InRows, rule, result, table
  <1>1. Shape /\ Searching
    BY <1>0 DEF IInv
  <1>2. Fits(text, start, width)
    BY <1>0, <1>1 DEF Fits, Shape, Searching
  <1>3. CASE TooFarInLength /\ start' = start + 1 /\ InWindows' /\ UNCHANGED row
    <2>1. /\ Away(text, word, start, width) \in Nat
          /\ width - Len(word) <= Away(text, word, start, width)
          /\ Len(word) - width <= Away(text, word, start, width)
      BY <1>1, <1>2, WindowAway DEF Shape
    <2>2. best \in 0 .. bound + 1 /\ bound \in Nat /\ width \in Nat /\ Len(word) \in Nat
      BY <1>1 DEF Shape, Searching, Searched
    <2>3. best <= Away(text, word, start, width)
      BY <1>3, <2>1, <2>2 DEF TooFarInLength
    <2>4. row' \in Nat
      BY <1>1, <1>3 DEF Shape
    <2> QED  BY <1>0, <1>1, <1>3, <2>3, <2>4, PassKeeps
  <1>4. CASE /\ row' = 1 /\ prev' = [j \in 0 .. Len(word) |-> j]
             /\ InRows' /\ UNCHANGED start
    <2>1. Len(Window(text, start, width)) \in Nat /\ Len(word) \in Nat
      <3>1. Len(Window(text, start, width)) = width
        BY <1>1, <1>2, WindowRunes DEF Shape
      <3> QED  BY <1>1, <3>1 DEF Shape
    <2>2. prev' = Distances(Window(text, start, width), word)[0]
      BY <1>4, <2>1, FirstRow
    <2>3. Measuring'
      <3>1. row' >= 1 /\ row' <= width + 1 /\ row' - 1 = 0
        BY <1>1, <1>4 DEF Shape
      <3> QED  BY <1>0, <1>2, <1>4, <2>2, <3>1 DEF Measuring
    <2>4. Shape' /\ Searching'
      BY <1>0, <1>1, <1>4 DEF Shape, Searching
    <2>5. ~Idle' /\ ~InWindows'
      BY <1>4, Phases DEF Idle, InWindows, InRows
    <2> QED  BY <2>3, <2>4, <2>5 DEF IInv
  <1> QED  BY <1>0, <1>3, <1>4

\* The row that AddRow computes is the next of the table of distances.
LEMMA AddRowFollows ==
  ASSUME Shape, Measuring, row <= width
  PROVE  /\ NextRow = Distances(Window(text, start, width), word)[row]
         /\ NextRow \in [0 .. Len(word) -> Nat]
  <1> DEFINE u == Window(text, start, width)
             D == Distances(u, word)
  <1>1. /\ Len(u) = width /\ \A k \in 1 .. width : u[k] = text[start + k]
        /\ Len(word) \in Nat /\ width \in Nat /\ row \in 1 .. width /\ row \in Nat
    BY WindowRunes DEF Shape, Measuring
  <1>2. IsTable(D, u, word) /\ prev = D[row - 1]
    BY <1>1, DistancesTable DEF Measuring
  <1>3. u[row] = text[start + row]
    BY <1>1
  <1> HIDE DEF u, D
  <1>4. /\ prev \in [0 .. Len(word) -> Nat]
        /\ IsRow(D[row], prev, row, u[row], word)
    <2>1. row \in 1 .. Len(u) /\ row - 1 \in 0 .. Len(u)
      BY <1>1
    <2> QED  BY <1>2, <2>1 DEF IsTable
  <1>5. IsRow(NextRow, prev, row, text[start + row], word)
    BY <1>1, <1>4, NextRowIsRow
  <1>6. NextRow = D[row]
    <2>1. IsRow(NextRow, prev, row, u[row], word)
      BY <1>3, <1>5
    <2> QED  BY <1>1, <1>4, <2>1, RowUnique
  <1>7. NextRow \in [0 .. Len(word) -> Nat]
    BY <1>5 DEF IsRow
  <1> QED  BY <1>6, <1>7 DEF D, u

LEMMA AddRowKeeps == IInv /\ AddRow => IInv'
  <1> SUFFICES ASSUME IInv, AddRow PROVE IInv'
    OBVIOUS
  <1> DEFINE Entries == {NextRow[j] : j \in 0 .. Len(word)}
             u == Window(text, start, width)
  <1>0. /\ InRows /\ UNCHANGED <<word, bound, text, width, best, evidence>> /\ row <= width
        /\ \/ Least(Entries) > bound /\ InWindows' /\ start' = start + 1 /\ UNCHANGED row
           \/ InRows' /\ row' = row + 1 /\ prev' = NextRow /\ UNCHANGED start
    BY DEF AddRow, InWindows, InRows, rule, result, table
  <1>1. Shape /\ Searching /\ Measuring
    BY <1>0 DEF IInv
  <1>2. NextRow = Distances(u, word)[row] /\ NextRow \in [0 .. Len(word) -> Nat]
    BY <1>0, <1>1, AddRowFollows
  <1>3. /\ Len(u) = width /\ Len(word) \in Nat /\ width \in Nat /\ row \in 0 .. width
        /\ bound \in Nat
    BY <1>0, <1>1, WindowRunes DEF Shape, Measuring
  <1>4. CASE Least(Entries) > bound /\ InWindows' /\ start' = start + 1 /\ UNCHANGED row
    <2>1. Entries \in SUBSET Nat /\ Entries # {}
      <3>1. 0 \in 0 .. Len(word)
        BY <1>3
      <3> QED  BY <1>2, <3>1
    <2>2. Least(Entries) \in Nat /\ \A n \in Entries : Least(Entries) <= n
      BY <2>1, LeastOfSome
    <2>3. \A j \in 0 .. Len(word) : NextRow[j] > bound
      <3>1. ASSUME NEW j \in 0 .. Len(word) PROVE NextRow[j] > bound
        <4>1. NextRow[j] \in Entries /\ NextRow[j] \in Nat
          BY <1>2
        <4> HIDE DEF Entries
        <4> QED  BY <1>3, <1>4, <2>2, <4>1
      <3> QED  BY <3>1
    <2>4. Dist(u, word) > bound
      <3>1. \A j \in 0 .. Len(word) : Distances(u, word)[row][j] > bound
        BY <1>2, <2>3
      <3>2. row \in 0 .. Len(u) /\ Len(u) \in Nat
        BY <1>3
      <3> HIDE DEF u
      <3> QED  BY <1>3, <3>1, <3>2, RowGivesUp
    <2>5. best <= Away(text, word, start, width)
      <3>1. best \in 0 .. bound + 1
        BY <1>1 DEF Searching, Searched
      <3>2. Away(text, word, start, width) > bound /\ Away(text, word, start, width) \in Nat
        BY <1>1, <2>4, WindowAway DEF Away, Shape, Measuring
      <3> QED  BY <1>3, <3>1, <3>2
    <2>6. row' \in Nat
      BY <1>1, <1>4 DEF Shape
    <2> QED  BY <1>0, <1>1, <1>4, <2>5, <2>6, PassKeeps
  <1>5. CASE InRows' /\ row' = row + 1 /\ prev' = NextRow /\ UNCHANGED start
    <2>1. row' >= 1 /\ row' <= width + 1 /\ row' - 1 = row /\ row' \in Nat
      BY <1>3, <1>5
    <2>2. Measuring'
      BY <1>0, <1>1, <1>2, <1>5, <2>1 DEF Measuring
    <2>3. Shape' /\ Searching'
      BY <1>0, <1>1, <1>5, <2>1 DEF Shape, Searching
    <2>4. ~Idle' /\ ~InWindows'
      BY <1>5, Phases DEF Idle, InWindows, InRows
    <2> QED  BY <2>2, <2>3, <2>4 DEF IInv
  <1> QED  BY <1>0, <1>4, <1>5

\* The last entry of a complete table is the distance of the window.
LEMMA DistanceKnown ==
  ASSUME Shape, Measuring, row > width
  PROVE  prev[Len(word)] = Away(text, word, start, width)
  <1>1. Len(Window(text, start, width)) = width
    BY WindowRunes DEF Shape, Measuring
  <1>2. row - 1 = width
    BY DEF Shape, Measuring
  <1>3. prev = Distances(Window(text, start, width), word)[width]
    BY <1>2 DEF Measuring
  <1> QED  BY <1>1, <1>3 DEF Away, Dist

LEMMA CompareKeeps == IInv /\ Compare => IInv'
  <1> SUFFICES ASSUME IInv, Compare PROVE IInv'
    OBVIOUS
  <1> DEFINE a == Away(text, word, start, width)
  <1>0. /\ InRows /\ InWindows' /\ UNCHANGED <<word, bound, text, row>> /\ row > width
    BY DEF Compare, InWindows, InRows, rule, table
  <1>1. Shape /\ Searching /\ Measuring
    BY <1>0 DEF IInv
  <1>2. prev[Len(word)] = a
    BY <1>0, <1>1, DistanceKnown
  <1>3. /\ IF Closer(a) THEN evidence' = Window(text, start, width) /\ best' = a
                        ELSE UNCHANGED <<best, evidence>>
        /\ IF Closer(a) /\ a = 0
           THEN width' = MaxWindow(text) + 1 /\ UNCHANGED start
           ELSE start' = start + 1 /\ UNCHANGED width
    BY <1>2 DEF Compare, result
  <1>4. Fits(text, start, width) /\ a \in Nat
    BY <1>1, WindowAway DEF Shape, Measuring
  <1>5. best \in 0 .. bound + 1 /\ row' \in Nat /\ bound \in Nat /\ start \in Nat
    BY <1>0, <1>1 DEF Shape, Searching, Searched
  <1>6. ~Idle' /\ ~InRows'
    BY <1>0, Phases DEF Idle, InWindows, InRows
  <1>7. CASE ~Closer(a)
    <2>1. best <= a
      <3> HIDE DEF a
      <3> QED  BY <1>4, <1>5, <1>7 DEF Closer
    <2> QED  BY <1>0, <1>1, <1>3, <1>5, <1>7, <2>1, PassKeeps
  <1>8. CASE Closer(a)
    <2>1. /\ Searched(text, word, bound, start + 1, width, a, Window(text, start, width))
          /\ a = 0 => \A m : Searched(text, word, bound, start, m, a, Window(text, start, width))
      <3>1. a <= bound /\ a < best
        BY <1>8 DEF Closer
      <3> QED  BY <1>1, <1>4, <3>1, SearchFinds DEF Shape, Searching
    <2> HIDE DEF a
    <2>2. CASE a = 0
      <3>1. width' = MaxWindow(text) + 1 /\ start' = start
            /\ evidence' = Window(text, start, width) /\ best' = a
        BY <1>3, <1>8, <2>2
      <3>2. width' \in Nat /\ width' >= 1
        BY <1>1, <3>1 DEF Shape, MaxWindow
      <3>3. Shape' /\ Searching'
        BY <1>0, <1>1, <1>5, <2>1, <2>2, <3>1, <3>2 DEF Shape, Searching
      <3> QED  BY <1>6, <3>3 DEF IInv
    <2>3. CASE a # 0
      <3>1. width' = width /\ start' = start + 1
            /\ evidence' = Window(text, start, width) /\ best' = a
        BY <1>3, <1>8, <2>3
      <3>2. Shape' /\ Searching'
        BY <1>0, <1>1, <1>5, <2>1, <3>1 DEF Shape, Searching
      <3> QED  BY <1>6, <3>2 DEF IInv
    <2> QED  BY <2>2, <2>3
  <1> QED  BY <1>7, <1>8

LEMMA IInvAtFirst == Init => IInv
  <1> SUFFICES ASSUME Init PROVE IInv
    OBVIOUS
  <1>1. /\ Idle /\ word \in Words /\ bound \in Bounds /\ text = <<>> /\ evidence = <<>>
        /\ width = 0 /\ start = 0 /\ row = 0
    BY DEF Init, Idle
  <1>2. Shape
    BY <1>1, InputsAssumption DEF Shape
  <1>3. ASSUME NEW s \in Nat, NEW n \in Nat, Fits(text, s, n) PROVE FALSE
    <2>1. Len(text) = 0
      BY <1>1
    <2> QED  BY <1>3, <2>1 DEF Fits
  <1>4. Answered(text, word, bound, evidence)
    BY <1>1, <1>3 DEF Answered
  <1>5. ~InWindows /\ ~InRows
    BY <1>1, Phases
  <1> QED  BY <1>1, <1>2, <1>4, <1>5 DEF IInv

LEMMA IInvStep == IInv /\ [Next]_vars => IInv'
  <1>1. IInv /\ UNCHANGED vars => IInv'
    BY DEF vars, IInv, Shape, Idle, InWindows, InRows, Searching, Measuring
  <1> QED
    BY <1>1, CallShortKeeps, CallKeeps, WidenKeeps, ReturnKeeps,
       MeasureKeeps, AddRowKeeps, CompareKeeps DEF Next

\* A search knows, at each of its loops, the least distance of the windows it
\* has passed, and the row it builds on is that of the table of distances.
THEOREM SearchIsExact == Spec => []IInv
  BY IInvAtFirst, IInvStep, PTL DEF Spec

-----------------------------------------------------------------------------
(* What the answer means.                                                  *)

LEMMA PartsAreWindows ==
  ASSUME text \in Seq(Letters), NEW p
  PROVE  p \in Parts <=> \E s, n \in Nat : Fits(text, s, n) /\ p = Window(text, s, n)
  <1>0. Len(text) \in Nat
    OBVIOUS
  <1>1. ASSUME NEW s \in Nat, NEW n \in Nat, Fits(text, s, n)
        PROVE  Window(text, s, n) \in Parts
    <2>1. s + 1 \in 1 .. Len(text) /\ s + n \in 1 .. Len(text)
      BY <1>0, <1>1 DEF Fits
    <2>2. Window(text, s, n) # <<>>
      BY <1>1, WindowRunes
    <2> QED  BY <2>1, <2>2 DEF Parts, Window
  <1>2. ASSUME p \in Parts
        PROVE  \E s, n \in Nat : Fits(text, s, n) /\ p = Window(text, s, n)
    <2>1. PICK a \in 1 .. Len(text), b \in 1 .. Len(text) : p = SubSeq(text, a, b) /\ p # <<>>
      BY <1>2 DEF Parts
    <2>2. a <= b
      <3>1. ASSUME a > b PROVE FALSE
        <4>1. SubSeq(text, a, b) = <<>>
          BY <3>1, SubSeqProperties
        <4> QED  BY <2>1, <4>1
      <3> QED  BY <3>1
    <2>3. a - 1 \in Nat /\ b - a + 1 \in Nat /\ a - 1 + 1 = a /\ a - 1 + (b - a + 1) = b
      BY <2>2
    <2>4. Fits(text, a - 1, b - a + 1) /\ p = Window(text, a - 1, b - a + 1)
      BY <1>0, <2>1, <2>2, <2>3 DEF Fits, Window
    <2> QED  BY <2>3, <2>4
  <1> QED  BY <1>1, <1>2

\* So many edits make a part of the text exactly if it is that near.
LEMMA NearParts ==
  ASSUME Shape, NEW s, NEW n, Fits(text, s, n), NEW k \in 0 .. bound
  PROVE  Window(text, s, n) \in Around[k] <=> Away(text, word, s, n) <= k
  BY WindowRunes, AroundIsNear, NearIsAround DEF Shape, Away

LEMMA AnswerIsNearest == IInv => MatchesWhatIsNear /\ EvidenceIsNearest
  <1> SUFFICES ASSUME IInv PROVE MatchesWhatIsNear /\ EvidenceIsNearest
    OBVIOUS
  <1>0. Shape /\ bound \in Nat /\ bound \in 0 .. bound /\ text \in Seq(Letters)
    BY DEF IInv, Shape
  <1>1. ASSUME Idle, word # <<>>, evidence = <<>> PROVE Parts \cap Around[bound] = {}
    <2>1. \A s, n \in Nat : Fits(text, s, n) => Away(text, word, s, n) > bound
      BY <1>1 DEF IInv, Answered
    <2>2. ASSUME NEW p \in Parts, p \in Around[bound] PROVE FALSE
      <3>1. PICK s \in Nat, n \in Nat : Fits(text, s, n) /\ p = Window(text, s, n)
        BY <1>0, PartsAreWindows
      <3>2. Away(text, word, s, n) <= bound /\ Away(text, word, s, n) > bound
        BY <1>0, <2>1, <2>2, <3>1, NearParts
      <3>3. Away(text, word, s, n) \in Nat
        BY <3>1, WindowAway, <1>0 DEF Shape
      <3> QED  BY <1>0, <3>2, <3>3
    <2> QED  BY <2>2
  <1>2. ASSUME Idle, evidence # <<>>
        PROVE  /\ evidence \in Parts /\ evidence \in Around[bound]
               /\ \A n \in 0 .. bound : Parts \cap Around[n] # {} => evidence \in Around[n]
    <2>1. PICK d \in 0 .. bound :
            /\ IsAt(text, word, evidence, d)
            /\ \A s, n \in Nat : Fits(text, s, n) => d <= Away(text, word, s, n)
      BY <1>2 DEF IInv, Answered
    <2>2. PICK q \in Nat, m \in Nat :
            /\ Fits(text, q, m) /\ evidence = Window(text, q, m)
            /\ d = Away(text, word, q, m)
      BY <2>1 DEF IsAt
    <2>3. evidence \in Parts
      BY <1>0, <2>2, PartsAreWindows
    <2>4. ASSUME NEW k \in 0 .. bound, d <= k PROVE evidence \in Around[k]
      BY <1>0, <2>2, <2>4, NearParts
    <2>5. ASSUME NEW k \in 0 .. bound, NEW p \in Parts, p \in Around[k]
          PROVE  evidence \in Around[k]
      <3>1. PICK s \in Nat, n \in Nat : Fits(text, s, n) /\ p = Window(text, s, n)
        BY <1>0, PartsAreWindows
      <3>2. Away(text, word, s, n) <= k /\ d <= Away(text, word, s, n)
        BY <1>0, <2>1, <2>5, <3>1, NearParts
      <3>3. Away(text, word, s, n) \in Nat
        BY <3>1, WindowAway, <1>0 DEF Shape
      <3>4. d <= k
        BY <1>0, <3>2, <3>3
      <3> QED  BY <2>4, <3>4
    <2>6. evidence \in Around[bound]
      <3>1. d <= bound
        BY <1>0
      <3> QED  BY <1>0, <2>4, <3>1
    <2> QED  BY <2>3, <2>5, <2>6
  <1>3. MatchesWhatIsNear
    BY <1>1, <1>2 DEF MatchesWhatIsNear, Idle
  <1>4. EvidenceIsNearest
    BY <1>2 DEF EvidenceIsNearest, Idle
  <1> QED  BY <1>3, <1>4

\* For every rule and text, fuzzyContains finds evidence exactly if at most
\* max_edit_distance single edits turn the word of the rule into some part of
\* the text: the window lengths it tries and the rows at which it gives a
\* window up lose no match and make none.
THEOREM NothingNearIsMissed == Spec => []MatchesWhatIsNear
  BY SearchIsExact, AnswerIsNearest, PTL

\* The evidence fuzzyContains reports is a part of the text, and no part of the
\* text is fewer edits away from the word.
THEOREM NearestIsReported == Spec => []EvidenceIsNearest
  BY SearchIsExact, AnswerIsNearest, PTL
=============================================================================
