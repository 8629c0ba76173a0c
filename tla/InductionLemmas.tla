--------------------------- MODULE InductionLemmas ---------------------------
(* Induction over the naturals, stated of a set instead of an operator, and *)
(* what follows from it for the folds of the community modules.  The proof  *)
(* rests on the well-founded order of the finite sets.                      *)
EXTENDS Integers, SequencesExt, FiniteSetTheorems, SequenceTheorems, TLAPS

-----------------------------------------------------------------------------
\* A set of naturals that has 0 and every successor has them all.
LEMMA Induction ==
  ASSUME NEW P \in SUBSET Nat, 0 \in P, \A n \in P : n + 1 \in P
  PROVE  P = Nat
  <1> DEFINE R == StrictSubsetOrdering(Nat)
             T == {0 .. n - 1 : n \in Nat \ P}
  <1> SUFFICES ASSUME NEW k \in Nat \ P PROVE FALSE
    OBVIOUS
  <1>1. T \subseteq FiniteSubsetsOf(Nat) /\ T # {}
    <2>1. ASSUME NEW n \in Nat PROVE IsFiniteSet(0 .. n - 1)
      BY FS_Interval
    <2> QED  BY <2>1 DEF FiniteSubsetsOf
  <1>2. PICK x \in T : \A y \in T : ~(<<y, x>> \in R)
    <2> HIDE DEF T, R
    <2>1. IsWellFoundedOn(R, FiniteSubsetsOf(Nat))
      BY FS_StrictSubsetOrderingWellFounded DEF R
    <2> QED  BY <1>1, <2>1, WFMin
  <1>3. PICK n \in Nat \ P : x = 0 .. n - 1
    BY <1>2
  <1>4. n - 1 \in Nat \ P
    BY <1>3
  <1>5. (0 .. n - 2) \in T
    BY <1>4
  <1>6. <<0 .. n - 2, x>> \in R
    BY <1>3, <1>4 DEF StrictSubsetOrdering
  <1> QED  BY <1>2, <1>5, <1>6

\* The same up to a bound.
LEMMA InductionUpTo ==
  ASSUME NEW N \in Nat, NEW P, P \subseteq 0 .. N, 0 \in P,
         \A n \in P : n < N => n + 1 \in P
  PROVE  P = 0 .. N
  <1> DEFINE Q == P \cup {n \in Nat : n > N}
  <1>1. Q \subseteq Nat /\ 0 \in Q
    <2>1. 0 .. N \subseteq Nat
      OBVIOUS
    <2> QED  BY <2>1, Zenon
  <1>2. ASSUME NEW n \in Q PROVE n + 1 \in Q
    <2>1. CASE n \in P
      BY <2>1
    <2>2. CASE n > N
      BY <1>1, <2>2
    <2> QED  BY <1>2, <2>1, <2>2
  <1>3. Q = Nat
    <2> HIDE DEF Q
    <2> QED  BY <1>1, <1>2, Induction
  <1>4. ASSUME NEW n \in 0 .. N PROVE n \in P
    <2>1. n \in Q
      BY <1>3
    <2> QED  BY <2>1
  <1> QED  BY <1>4

-----------------------------------------------------------------------------
\* The equation by which MapThenFoldSet takes one element after the other from
\* the end of a sequence of N, each by a step from what the others yield.
Folds(iter, N, base, Step) ==
  iter = [s \in SUBSET (1 .. N) |->
            IF s = {} THEN base ELSE Step[Max(s)][iter[s \ {Max(s)}]]]

LEMMA MaxOfSome ==
  ASSUME NEW N \in Nat, NEW s \in SUBSET (1 .. N), s # {}
  PROVE  Max(s) \in s /\ \A n \in s : n <= Max(s)
  <1> DEFINE P == {n \in 0 .. N : s \cap (1 .. n) # {} =>
                     \E m \in s \cap (1 .. n) : \A k \in s \cap (1 .. n) : k <= m}
  <1>1. 0 \in P
    OBVIOUS
  <1>2. ASSUME NEW n \in P, n < N PROVE n + 1 \in P
    <2>1. CASE n + 1 \in s
      BY <1>2, <2>1
    <2>2. CASE n + 1 \notin s
      <3>1. s \cap (1 .. n + 1) = s \cap (1 .. n)
        BY <1>2, <2>2
      <3> QED  BY <1>2, <3>1
    <2> QED  BY <2>1, <2>2
  <1>3. N \in P
    <2> HIDE DEF P
    <2>1. P \subseteq 0 .. N
      BY DEF P
    <2>2. P = 0 .. N
      BY <1>1, <1>2, <2>1, InductionUpTo, Zenon
    <2> QED  BY <2>2
  <1>4. \E m \in s : \A k \in s : m >= k
    BY <1>3
  <1> QED  BY <1>4 DEF Max

LEMMA MinOfSome ==
  ASSUME NEW N \in Nat, NEW s \in SUBSET (1 .. N), s # {}
  PROVE  Min(s) \in s /\ \A n \in s : Min(s) <= n
  <1> DEFINE P == {n \in 0 .. N : s \cap (1 .. n) # {} =>
                     \E m \in s \cap (1 .. n) : \A k \in s \cap (1 .. n) : m <= k}
  <1>1. 0 \in P
    OBVIOUS
  <1>2. ASSUME NEW n \in P, n < N PROVE n + 1 \in P
    <2>1. CASE s \cap (1 .. n) = {}
      BY <1>2, <2>1
    <2>2. CASE s \cap (1 .. n) # {}
      BY <1>2, <2>2
    <2> QED  BY <2>1, <2>2
  <1>3. N \in P
    <2> HIDE DEF P
    <2>1. P \subseteq 0 .. N
      BY DEF P
    <2>2. P = 0 .. N
      BY <1>1, <1>2, <2>1, InductionUpTo, Zenon
    <2> QED  BY <2>2
  <1>4. \E m \in s : \A k \in s : m <= k
    BY <1>3
  <1> QED  BY <1>4 DEF Min

LEMMA MaxOfInterval ==
  ASSUME NEW N \in Nat, NEW n \in 1 .. N
  PROVE  /\ 1 .. n \in SUBSET (1 .. N) /\ 1 .. n # {}
         /\ Max(1 .. n) = n /\ (1 .. n) \ {n} = 1 .. n - 1
         /\ n \in 0 .. N /\ n - 1 \in 0 .. N
  <1>1. n \in Nat /\ 1 .. n \in SUBSET (1 .. n) /\ 1 .. n # {}
    OBVIOUS
  <1>2. Max(1 .. n) \in 1 .. n /\ \A k \in 1 .. n : k <= Max(1 .. n)
    BY <1>1, MaxOfSome
  <1>3. Max(1 .. n) = n
    BY <1>2
  <1>4. (1 .. n) \ {n} = 1 .. n - 1
    OBVIOUS
  <1>5. \A k \in 1 .. n : k \in 1 .. N
    OBVIOUS
  <1> QED  BY <1>1, <1>3, <1>4, <1>5

\* A step that stays within a set can be folded.
LEMMA FoldExists ==
  ASSUME NEW N \in Nat, NEW T, NEW base \in T, NEW Step \in [1 .. N -> [T -> T]]
  PROVE  \E iter \in [SUBSET (1 .. N) -> T] : Folds(iter, N, base, Step)
  <1> DEFINE P == {n \in 0 .. N :
                     \E iter \in [SUBSET (1 .. n) -> T] : Folds(iter, n, base, Step)}
  <1>1. 0 \in P
    <2> DEFINE iter == [s \in SUBSET (1 .. 0) |-> base]
    <2>1. \A s \in SUBSET (1 .. 0) : s = {}
      OBVIOUS
    <2>2. iter \in [SUBSET (1 .. 0) -> T] /\ Folds(iter, 0, base, Step)
      BY <2>1 DEF Folds
    <2> QED  BY <2>2
  <1>2. ASSUME NEW n \in P, n < N PROVE n + 1 \in P
    <2>1. PICK iter \in [SUBSET (1 .. n) -> T] : Folds(iter, n, base, Step)
      BY <1>2
    <2>0. n \in Nat /\ n + 1 \in 1 .. N
      BY <1>2
    <2> HIDE DEF P
    <2> DEFINE more == [s \in SUBSET (1 .. n + 1) |->
                          IF n + 1 \in s THEN Step[n + 1][iter[s \ {n + 1}]]
                          ELSE iter[s]]
    <2>2. ASSUME NEW s \in SUBSET (1 .. n + 1)
          PROVE  /\ more[s] \in T
                 /\ more[s] = (IF s = {} THEN base
                               ELSE Step[Max(s)][more[s \ {Max(s)}]])
      <3>1. CASE n + 1 \in s
        <4>1. Max(s) = n + 1
          <5> HIDE DEF more
          <5>1. n + 1 \in Nat /\ s # {}
            BY <2>0, <3>1
          <5>2. Max(s) \in s /\ \A k \in s : k <= Max(s)
            BY <2>0, <5>1, MaxOfSome
          <5>3. Max(s) \in 1 .. n + 1 /\ n + 1 <= Max(s)
            BY <3>1, <5>2
          <5> QED  BY <2>0, <5>3
        <4>2. s \ {n + 1} \in SUBSET (1 .. n) /\ s \ {n + 1} \in SUBSET (1 .. n + 1)
          BY <2>0
        <4>3. more[s \ {n + 1}] = iter[s \ {n + 1}] /\ iter[s \ {n + 1}] \in T
          BY <4>2
        <4> QED  BY <2>0, <3>1, <4>1, <4>2, <4>3
      <3>2. CASE n + 1 \notin s
        <4>1. s \in SUBSET (1 .. n) /\ more[s] = iter[s]
          BY <2>0, <3>2
        <4>2. iter[s] = IF s = {} THEN base ELSE Step[Max(s)][iter[s \ {Max(s)}]]
          BY <2>1, <4>1 DEF Folds
        <4>3. more[s \ {Max(s)}] = iter[s \ {Max(s)}]
          BY <3>2, <4>1
        <4> QED  BY <4>1, <4>2, <4>3
      <3> QED  BY <3>1, <3>2
    <2>3. more \in [SUBSET (1 .. n + 1) -> T] /\ Folds(more, n + 1, base, Step)
      <3> HIDE DEF more
      <3>1. more = [s \in SUBSET (1 .. n + 1) |-> more[s]]
        BY DEF more
      <3> QED  BY <2>2, <3>1 DEF Folds
    <2> HIDE DEF more
    <2>4. n + 1 \in 0 .. N
      BY <2>0
    <2> QED  BY <2>3, <2>4 DEF P
  <1>3. N \in P
    <2>1. P \subseteq 0 .. N
      OBVIOUS
    <2> HIDE DEF P
    <2>2. P = 0 .. N
      BY <1>1, <1>2, <2>1, InductionUpTo, Zenon
    <2> QED  BY <2>2
  <1> QED  BY <1>3

\* An element added to the end of the second of two sequences.
LEMMA AppendLast ==
  ASSUME NEW S, NEW s \in Seq(S), NEW u \in Seq(S), NEW e \in S
  PROVE  s \o Append(u, e) = Append(s \o u, e) /\ s \o u \in Seq(S)
  <1>1. <<e>> \in Seq(S) /\ s \o u \in Seq(S)
    BY ConcatProperties
  <1>2. Append(u, e) = u \o <<e>> /\ Append(s \o u, e) = (s \o u) \o <<e>>
    BY <1>1, AppendIsConcat
  <1>3. (s \o u) \o <<e>> = s \o (u \o <<e>>)
    BY <1>1, ConcatAssociative
  <1> QED  BY <1>1, <1>2, <1>3
=============================================================================
