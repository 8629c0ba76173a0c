--------------------------- MODULE RuleEngineProofs ---------------------------
(* Theorems about RuleEngine, for rules, fragments and configurations of   *)
(* any number: the decision is that of the strongest match, what is        *)
(* reported is what hits, compiling neither loses nor adds a rule, and a   *)
(* word is found however it is cased, spaced and interspersed.             *)
EXTENDS RuleEngine, InductionLemmas

-----------------------------------------------------------------------------
(* decide.                                                                 *)

Strongest(actions) ==
  IF "block" \in actions THEN "block"
  ELSE IF "tag_and_pass" \in actions THEN "tag_and_pass"
  ELSE IF "log_only" \in actions THEN "log_only" ELSE "allow"

ActionsOf(matches, n) == {matches[k].action : k \in 1 .. n}

\* One more match, and the strongest action is that or the one before.
LEMMA CombineIsStrongest ==
  ASSUME NEW actions, NEW match
  PROVE  Combine(Strongest(actions), match) = Strongest(actions \cup {match.action})
  BY DEF Combine, Strongest

LEMMA DecideUnfolds ==
  ASSUME NEW M, NEW matches \in Seq(M)
  PROVE  \E after :
           /\ after[0] = "allow"
           /\ \A n \in 1 .. Len(matches) : after[n] = Combine(after[n - 1], matches[n])
           /\ Decide(matches) = after[Len(matches)]
  <1> DEFINE N == Len(matches)
             T == {"allow", "log_only", "tag_and_pass", "block"}
             Step == [n \in 1 .. N |-> [t \in T |-> Combine(t, matches[n])]]
             Equation(iter) ==
               iter = [s \in SUBSET (1 .. N) |->
                         IF s = {} THEN "allow"
                         ELSE Combine(iter[s \ {Max(s)}], matches[Max(s)])]
             iter == CHOOSE iter : Equation(iter)
  <1>1. N \in Nat /\ DOMAIN matches = 1 .. N
    OBVIOUS
  <1>2. Step \in [1 .. N -> [T -> T]]
    BY DEF Combine
  <1>3. \E it : Equation(it)
    <2>1. PICK it \in [SUBSET (1 .. N) -> T] : Folds(it, N, "allow", Step)
      <3> HIDE DEF N, Step
      <3> QED  BY <1>1, <1>2, FoldExists
    <2>2. ASSUME NEW s \in SUBSET (1 .. N), s # {}
          PROVE  Step[Max(s)][it[s \ {Max(s)}]] = Combine(it[s \ {Max(s)}], matches[Max(s)])
      <3>1. Max(s) \in 1 .. N
        BY <1>1, <2>2, MaxOfSome
      <3>2. it[s \ {Max(s)}] \in T
        BY <2>1
      <3> QED  BY <3>1, <3>2
    <2>3. Equation(it)
      <3> HIDE DEF Step, N, T
      <3> QED  BY <2>1, <2>2 DEF Folds
    <2> QED  BY <2>3
  <1>4. Equation(iter)
    BY <1>3
  <1>5. Decide(matches) = iter[1 .. N]
    BY <1>1 DEF Decide, FoldLeft, MapThenFoldSet
  <1> DEFINE after == [n \in 0 .. N |-> iter[1 .. n]]
  <1>6. after[0] = "allow"
    <2>1. 1 .. 0 = {}
      OBVIOUS
    <2> HIDE DEF iter
    <2> QED  BY <1>1, <1>4, <2>1
  <1>7. ASSUME NEW n \in 1 .. N
        PROVE  after[n] = Combine(after[n - 1], matches[n])
    <2> HIDE DEF iter, Step, N
    <2>1. /\ 1 .. n \in SUBSET (1 .. N) /\ 1 .. n # {}
          /\ Max(1 .. n) = n /\ (1 .. n) \ {n} = 1 .. n - 1
          /\ n \in 0 .. N /\ n - 1 \in 0 .. N
      BY <1>1, MaxOfInterval
    <2>2. iter[1 .. n] = Combine(iter[1 .. n - 1], matches[n])
      BY <1>4, <2>1
    <2> QED  BY <2>1, <2>2
  <1>8. Decide(matches) = after[N]
    BY <1>1, <1>5
  <1> HIDE DEF after
  <1> QED  BY <1>6, <1>7, <1>8

\* The decision over all matches, in whatever order they were found.
THEOREM StrongestDecides ==
  ASSUME NEW M, NEW matches \in Seq(M)
  PROVE  Decide(matches) = Strongest({match.action : match \in ToSet(matches)})
  <1> DEFINE N == Len(matches)
  <1>1. N \in Nat /\ DOMAIN matches = 1 .. N
    OBVIOUS
  <1>2. PICK after :
          /\ after[0] = "allow"
          /\ \A n \in 1 .. N : after[n] = Combine(after[n - 1], matches[n])
          /\ Decide(matches) = after[N]
    BY DecideUnfolds
  <1> DEFINE P == {n \in 0 .. N : after[n] = Strongest(ActionsOf(matches, n))}
  <1> HIDE DEF N
  <1>3. 0 \in P
    <2>1. ActionsOf(matches, 0) = {}
      BY DEF ActionsOf
    <2> QED  BY <1>1, <1>2, <2>1 DEF Strongest
  <1>4. ASSUME NEW n \in P, n < N PROVE n + 1 \in P
    <2>1. n \in 0 .. N /\ n + 1 \in 1 .. N
      BY <1>1, <1>4
    <2>2. ActionsOf(matches, n + 1) = ActionsOf(matches, n) \cup {matches[n + 1].action}
      BY <2>1 DEF ActionsOf
    <2>3. after[n + 1] = Combine(after[n], matches[n + 1])
      BY <1>2, <2>1
    <2> QED  BY <2>1, <2>2, <2>3, CombineIsStrongest
  <1>5. N \in P
    <2>1. P \subseteq 0 .. N
      OBVIOUS
    <2> HIDE DEF P
    <2>2. P = 0 .. N
      BY <1>1, <1>3, <1>4, <2>1, InductionUpTo, Zenon
    <2> QED  BY <1>1, <2>2
  <1>6. ActionsOf(matches, N) = {match.action : match \in ToSet(matches)}
    BY <1>1 DEF ActionsOf, ToSet
  <1> QED  BY <1>2, <1>5, <1>6

-----------------------------------------------------------------------------
(* Evaluate.                                                               *)

HitsOf(rule, fragments, path) ==
  {MatchOf(rule, fragment) : fragment \in {f \in ToSet(fragments) : Hits(rule, f, path)}}

AddHit(found, rule, fragment, path) ==
  IF Hits(rule, fragment, path) THEN Append(found, MatchOf(rule, fragment)) ELSE found

LEMMA AddHitsUnfolds ==
  ASSUME NEW M, NEW matches \in Seq(M), NEW F, NEW fragments \in Seq(F), NEW rule, NEW path,
         \A fragment \in F : MatchOf(rule, fragment) \in M
  PROVE  \E after :
           /\ after[0] = matches
           /\ \A n \in 1 .. Len(fragments) :
                after[n] = AddHit(after[n - 1], rule, fragments[n], path)
           /\ AddHits(matches, rule, fragments, path) = after[Len(fragments)]
  <1> DEFINE N == Len(fragments)
             T == Seq(M)
             Step == [n \in 1 .. N |-> [t \in T |-> AddHit(t, rule, fragments[n], path)]]
             Equation(iter) ==
               iter = [s \in SUBSET (1 .. N) |->
                         IF s = {} THEN matches
                         ELSE AddHit(iter[s \ {Max(s)}], rule, fragments[Max(s)], path)]
             iter == CHOOSE iter : Equation(iter)
  <1>1. N \in Nat /\ DOMAIN fragments = 1 .. N
    OBVIOUS
  <1>2. Step \in [1 .. N -> [T -> T]]
    <2>1. ASSUME NEW n \in 1 .. N, NEW t \in T
          PROVE  AddHit(t, rule, fragments[n], path) \in T
      BY DEF AddHit
    <2> QED  BY <2>1
  <1>3. \E it : Equation(it)
    <2>1. PICK it \in [SUBSET (1 .. N) -> T] : Folds(it, N, matches, Step)
      <3> HIDE DEF N, Step
      <3> QED  BY <1>1, <1>2, FoldExists
    <2>2. ASSUME NEW s \in SUBSET (1 .. N), s # {}
          PROVE  Step[Max(s)][it[s \ {Max(s)}]]
                   = AddHit(it[s \ {Max(s)}], rule, fragments[Max(s)], path)
      <3>1. Max(s) \in 1 .. N
        BY <1>1, <2>2, MaxOfSome
      <3>2. it[s \ {Max(s)}] \in T
        BY <2>1
      <3> QED  BY <3>1, <3>2
    <2>3. Equation(it)
      <3> HIDE DEF Step, N, T
      <3> QED  BY <2>1, <2>2 DEF Folds
    <2> QED  BY <2>3
  <1>4. Equation(iter)
    BY <1>3
  <1>5. AddHits(matches, rule, fragments, path) = iter[1 .. N]
    BY <1>1 DEF AddHits, FoldLeft, MapThenFoldSet, AddHit
  <1> DEFINE after == [n \in 0 .. N |-> iter[1 .. n]]
  <1>6. after[0] = matches
    <2>1. 1 .. 0 = {}
      OBVIOUS
    <2> HIDE DEF iter
    <2> QED  BY <1>1, <1>4, <2>1
  <1>7. ASSUME NEW n \in 1 .. N
        PROVE  after[n] = AddHit(after[n - 1], rule, fragments[n], path)
    <2> HIDE DEF iter, Step, N
    <2>1. /\ 1 .. n \in SUBSET (1 .. N) /\ 1 .. n # {}
          /\ Max(1 .. n) = n /\ (1 .. n) \ {n} = 1 .. n - 1
          /\ n \in 0 .. N /\ n - 1 \in 0 .. N
      BY <1>1, MaxOfInterval
    <2>2. iter[1 .. n] = AddHit(iter[1 .. n - 1], rule, fragments[n], path)
      BY <1>4, <2>1
    <2> QED  BY <2>1, <2>2
  <1>8. AddHits(matches, rule, fragments, path) = after[N]
    BY <1>1, <1>5
  <1> HIDE DEF after
  <1> QED  BY <1>6, <1>7, <1>8

LEMMA AppendedSet ==
  ASSUME NEW M, NEW seq \in Seq(M), NEW e \in M
  PROVE  Append(seq, e) \in Seq(M) /\ ToSet(Append(seq, e)) = ToSet(seq) \cup {e}
  BY DEF ToSet

LEMMA AddHitsReports ==
  ASSUME NEW M, NEW matches \in Seq(M), NEW F, NEW fragments \in Seq(F), NEW rule, NEW path,
         \A fragment \in F : MatchOf(rule, fragment) \in M
  PROVE  /\ AddHits(matches, rule, fragments, path) \in Seq(M)
         /\ ToSet(AddHits(matches, rule, fragments, path))
              = ToSet(matches) \cup HitsOf(rule, fragments, path)
  <1> DEFINE N == Len(fragments)
  <1>1. N \in Nat /\ DOMAIN fragments = 1 .. N
    OBVIOUS
  <1>2. PICK after :
          /\ after[0] = matches
          /\ \A n \in 1 .. N : after[n] = AddHit(after[n - 1], rule, fragments[n], path)
          /\ AddHits(matches, rule, fragments, path) = after[N]
    BY AddHitsUnfolds
  <1> DEFINE Hit(n) == {MatchOf(rule, fragments[k]) :
                          k \in {m \in 1 .. n : Hits(rule, fragments[m], path)}}
             P == {n \in 0 .. N : /\ after[n] \in Seq(M)
                                  /\ ToSet(after[n]) = ToSet(matches) \cup Hit(n)}
  <1> HIDE DEF N
  <1>3. 0 \in P
    BY <1>1, <1>2
  <1>4. ASSUME NEW n \in P, n < N PROVE n + 1 \in P
    <2>1. n \in 0 .. N /\ n + 1 \in 1 .. N
      BY <1>1, <1>4
    <2>2. after[n + 1] = AddHit(after[n], rule, fragments[n + 1], path)
      BY <1>2, <2>1
    <2>3. MatchOf(rule, fragments[n + 1]) \in M
      BY <1>1, <2>1
    <2>4. 1 .. n + 1 = (1 .. n) \cup {n + 1}
      BY <2>1
    <2>5. CASE Hits(rule, fragments[n + 1], path)
      <3>1. Hit(n + 1) = Hit(n) \cup {MatchOf(rule, fragments[n + 1])}
        BY <2>4, <2>5
      <3> DEFINE hit == MatchOf(rule, fragments[n + 1])
      <3> HIDE DEF Hit, hit
      <3>2. after[n] \in Seq(M) /\ ToSet(after[n]) = ToSet(matches) \cup Hit(n)
        OBVIOUS
      <3>3. after[n + 1] = Append(after[n], hit) /\ hit \in M
        BY <2>2, <2>3, <2>5 DEF AddHit, hit
      <3>4. /\ after[n + 1] \in Seq(M)
            /\ ToSet(after[n + 1]) = ToSet(after[n]) \cup {hit}
        BY <3>2, <3>3, AppendedSet
      <3>5. ToSet(after[n + 1]) = ToSet(matches) \cup Hit(n + 1)
        BY <3>1, <3>2, <3>4 DEF hit
      <3> QED  BY <2>1, <3>4, <3>5
    <2>6. CASE ~Hits(rule, fragments[n + 1], path)
      <3>1. Hit(n + 1) = Hit(n)
        BY <2>4, <2>6
      <3> QED  BY <2>1, <2>2, <2>6, <3>1 DEF AddHit
    <2> QED  BY <2>5, <2>6
  <1>5. N \in P
    <2>1. P \subseteq 0 .. N
      OBVIOUS
    <2> HIDE DEF P
    <2>2. P = 0 .. N
      BY <1>1, <1>3, <1>4, <2>1, InductionUpTo, Zenon
    <2> QED  BY <1>1, <2>2
  <1>6. Hit(N) = HitsOf(rule, fragments, path)
    BY <1>1 DEF HitsOf, ToSet
  <1> QED  BY <1>2, <1>5, <1>6

\* The outer loop.
MatchesOf(R, F) == {MatchOf(rule, fragment) : rule \in R, fragment \in F}

LEMMA EvaluateUnfolds ==
  ASSUME NEW R, NEW engine \in Seq(R), NEW F, NEW fragments \in Seq(F), NEW path
  PROVE  \E after :
           /\ after[0] = <<>>
           /\ \A n \in 1 .. Len(engine) :
                after[n] = AddHits(after[n - 1], engine[n], fragments, path)
           /\ Evaluate(engine, fragments, path) = after[Len(engine)]
  <1> DEFINE N == Len(engine)
             T == Seq(MatchesOf(R, F))
             Step == [n \in 1 .. N |-> [t \in T |-> AddHits(t, engine[n], fragments, path)]]
             Equation(iter) ==
               iter = [s \in SUBSET (1 .. N) |->
                         IF s = {} THEN <<>>
                         ELSE AddHits(iter[s \ {Max(s)}], engine[Max(s)], fragments, path)]
             iter == CHOOSE iter : Equation(iter)
  <1>1. N \in Nat /\ DOMAIN engine = 1 .. N
    OBVIOUS
  <1>2. Step \in [1 .. N -> [T -> T]]
    <2>1. ASSUME NEW n \in 1 .. N, NEW t \in T
          PROVE  AddHits(t, engine[n], fragments, path) \in T
      <3>1. \A fragment \in F : MatchOf(engine[n], fragment) \in MatchesOf(R, F)
        BY DEF MatchesOf
      <3> QED  BY <3>1, AddHitsReports
    <2> QED  BY <2>1
  <1>3. \E it : Equation(it)
    <2>1. PICK it \in [SUBSET (1 .. N) -> T] : Folds(it, N, <<>>, Step)
      <3>1. <<>> \in T
        OBVIOUS
      <3> HIDE DEF N, Step, T
      <3> QED  BY <1>1, <1>2, <3>1, FoldExists
    <2>2. ASSUME NEW s \in SUBSET (1 .. N), s # {}
          PROVE  Step[Max(s)][it[s \ {Max(s)}]]
                   = AddHits(it[s \ {Max(s)}], engine[Max(s)], fragments, path)
      <3>1. Max(s) \in 1 .. N
        BY <1>1, <2>2, MaxOfSome
      <3>2. it[s \ {Max(s)}] \in T
        BY <2>1
      <3> QED  BY <3>1, <3>2
    <2>3. Equation(it)
      <3> HIDE DEF Step, N, T
      <3> QED  BY <2>1, <2>2 DEF Folds
    <2> QED  BY <2>3
  <1>4. Equation(iter)
    BY <1>3
  <1>5. Evaluate(engine, fragments, path) = iter[1 .. N]
    BY <1>1 DEF Evaluate, FoldLeft, MapThenFoldSet
  <1> DEFINE after == [n \in 0 .. N |-> iter[1 .. n]]
  <1>6. after[0] = <<>>
    <2>1. 1 .. 0 = {}
      OBVIOUS
    <2> HIDE DEF iter
    <2> QED  BY <1>1, <1>4, <2>1
  <1>7. ASSUME NEW n \in 1 .. N
        PROVE  after[n] = AddHits(after[n - 1], engine[n], fragments, path)
    <2> HIDE DEF iter, Step, N
    <2>1. /\ 1 .. n \in SUBSET (1 .. N) /\ 1 .. n # {}
          /\ Max(1 .. n) = n /\ (1 .. n) \ {n} = 1 .. n - 1
          /\ n \in 0 .. N /\ n - 1 \in 0 .. N
      BY <1>1, MaxOfInterval
    <2>2. iter[1 .. n] = AddHits(iter[1 .. n - 1], engine[n], fragments, path)
      BY <1>4, <2>1
    <2> QED  BY <2>1, <2>2
  <1>8. Evaluate(engine, fragments, path) = after[N]
    BY <1>1, <1>5
  <1> HIDE DEF after
  <1> QED  BY <1>6, <1>7, <1>8

First(seq, n) == {seq[k] : k \in 1 .. n}

AllHits(rules, fragments, path) ==
  UNION {HitsOf(rule, fragments, path) : rule \in rules}

\* What is reported is what hits, for rules and fragments of any number.
THEOREM EveryHitIsReported ==
  ASSUME NEW R, NEW engine \in Seq(R), NEW F, NEW fragments \in Seq(F), NEW path
  PROVE  /\ Evaluate(engine, fragments, path) \in Seq(MatchesOf(R, F))
         /\ ToSet(Evaluate(engine, fragments, path))
              = AllHits(ToSet(engine), fragments, path)
  <1> DEFINE N == Len(engine)
  <1>1. N \in Nat /\ DOMAIN engine = 1 .. N
    OBVIOUS
  <1>2. PICK after :
          /\ after[0] = <<>>
          /\ \A n \in 1 .. N : after[n] = AddHits(after[n - 1], engine[n], fragments, path)
          /\ Evaluate(engine, fragments, path) = after[N]
    BY EvaluateUnfolds
  <1> DEFINE M == MatchesOf(R, F)
             P == {n \in 0 .. N : /\ after[n] \in Seq(M)
                                  /\ ToSet(after[n]) = AllHits(First(engine, n), fragments, path)}
  <1>0. \A rule \in R, fragment \in F : MatchOf(rule, fragment) \in M
    BY DEF MatchesOf
  <1> HIDE DEF N, M
  <1>3. 0 \in P
    <2>1. First(engine, 0) = {}
      BY DEF First
    <2>2. AllHits(First(engine, 0), fragments, path) = {}
      BY <2>1 DEF AllHits
    <2>3. after[0] \in Seq(M) /\ ToSet(after[0]) = {}
      BY <1>2 DEF ToSet
    <2>4. 0 \in 0 .. N
      BY <1>1
    <2>5. ToSet(after[0]) = AllHits(First(engine, 0), fragments, path)
      BY <2>2, <2>3
    <2> QED  BY <2>3, <2>4, <2>5, Zenon
  <1>4. ASSUME NEW n \in P, n < N PROVE n + 1 \in P
    <2>1. n \in 0 .. N /\ n + 1 \in 1 .. N
      BY <1>1, <1>4
    <2>2. after[n + 1] = AddHits(after[n], engine[n + 1], fragments, path)
      BY <1>2, <2>1
    <2>3. First(engine, n + 1) = First(engine, n) \cup {engine[n + 1]} /\ engine[n + 1] \in R
      BY <1>1, <2>1 DEF First
    <2>4. after[n] \in Seq(M) /\ ToSet(after[n]) = AllHits(First(engine, n), fragments, path)
      OBVIOUS
    <2>5. /\ after[n + 1] \in Seq(M)
          /\ ToSet(after[n + 1])
               = ToSet(after[n]) \cup HitsOf(engine[n + 1], fragments, path)
      <3>1. \A fragment \in F : MatchOf(engine[n + 1], fragment) \in M
        BY <1>0, <2>3
      <3> HIDE DEF P
      <3> QED  BY <2>2, <2>4, <3>1, AddHitsReports
    <2>6. AllHits(First(engine, n + 1), fragments, path)
            = AllHits(First(engine, n), fragments, path) \cup HitsOf(engine[n + 1], fragments, path)
      <3> QED  BY <2>3 DEF AllHits
    <2>7. n + 1 \in 0 .. N
      BY <2>1
    <2>8. ToSet(after[n + 1]) = AllHits(First(engine, n + 1), fragments, path)
      BY <2>4, <2>5, <2>6
    <2> QED  BY <2>5, <2>7, <2>8, Zenon
  <1>5. N \in P
    <2>1. P \subseteq 0 .. N
      OBVIOUS
    <2> HIDE DEF P
    <2>2. P = 0 .. N
      BY <1>1, <1>3, <1>4, <2>1, InductionUpTo, Zenon
    <2> QED  BY <1>1, <2>2
  <1>6. First(engine, N) = ToSet(engine)
    BY <1>1 DEF First, ToSet
  <1>7. after[N] \in Seq(M) /\ ToSet(after[N]) = AllHits(First(engine, N), fragments, path)
    BY <1>5
  <1> QED  BY <1>2, <1>6, <1>7 DEF M

-----------------------------------------------------------------------------
(* engine.New.                                                             *)

LEMMA PriorityIsInt == \A rule \in RuleType : rule.priority \in Int
  BY DEF RuleType

\* The rank of a rule counts the rules up to it: no two have the same.
LEMMA RanksDiffer ==
  ASSUME NEW rules \in Seq(RuleType),
         NEW i \in DOMAIN rules, NEW j \in DOMAIN rules, i # j, Precedes(rules, j, i)
  PROVE  Rank(rules, j) < Rank(rules, i)
  <1>0. \A k \in DOMAIN rules : rules[k].priority \in Int
    BY PriorityIsInt
  <1> DEFINE UpTo(k) == {l \in DOMAIN rules : Precedes(rules, l, k)}
  <1>1. DOMAIN rules = 1 .. Len(rules) /\ Len(rules) \in Nat
    OBVIOUS
  <1>2. UpTo(j) \in SUBSET UpTo(i) /\ i \in UpTo(i) /\ i \notin UpTo(j)
    BY <1>0, <1>1 DEF Precedes
  <1>3. IsFiniteSet(UpTo(i))
    <2>1. IsFiniteSet(1 .. Len(rules))
      BY <1>1, FS_Interval
    <2> QED  BY <1>1, <2>1, FS_Subset
  <1>4. IsFiniteSet(UpTo(j))
    BY <1>2, <1>3, FS_Subset
  <1> HIDE DEF UpTo
  <1>5. /\ Cardinality(UpTo(i)) \in Nat /\ Cardinality(UpTo(j)) \in Nat
        /\ Cardinality(UpTo(j)) <= Cardinality(UpTo(i))
        /\ Cardinality(UpTo(j)) # Cardinality(UpTo(i))
    BY <1>2, <1>3, <1>4, FS_Subset, FS_CardinalityType
  <1> QED  BY <1>5 DEF Rank, UpTo

LEMMA RankIsPosition ==
  ASSUME NEW rules \in Seq(RuleType), NEW i \in DOMAIN rules
  PROVE  Rank(rules, i) \in DOMAIN rules
  <1> DEFINE N == Len(rules)
             UpTo == {l \in DOMAIN rules : Precedes(rules, l, i)}
  <1>1. DOMAIN rules = 1 .. N /\ N \in Nat
    OBVIOUS
  <1>2. IsFiniteSet(1 .. N) /\ Cardinality(1 .. N) = N
    <2> HIDE DEF N
    <2> QED  BY <1>1, FS_Interval
  <1>3. UpTo \in SUBSET (1 .. N) /\ i \in UpTo
    BY <1>1 DEF Precedes
  <1> HIDE DEF UpTo, N
  <1>4. IsFiniteSet(UpTo) /\ Cardinality(UpTo) \in Nat /\ Cardinality(UpTo) <= N
    BY <1>2, <1>3, FS_Subset, FS_CardinalityType
  <1>5. Cardinality(UpTo) # 0
    BY <1>3, <1>4, FS_EmptySet
  <1> QED  BY <1>1, <1>4, <1>5 DEF Rank, UpTo

\* The compiled rules are those of the configuration, each once, by descending
\* priority, and where priorities are equal in the order they were written.
THEOREM CompileSorts ==
  ASSUME NEW rules \in Seq(RuleType)
  PROVE  \E order \in Bijection(DOMAIN rules, DOMAIN rules) :
           /\ Compile(rules) = [k \in DOMAIN rules |-> CompileRule(rules[order[k]])]
           /\ \A k, l \in DOMAIN rules : k < l => Precedes(rules, order[k], order[l])
  <1> DEFINE D == DOMAIN rules
             rank == [i \in D |-> Rank(rules, i)]
             order == [k \in D |-> CHOOSE i \in D : Rank(rules, i) = k]
  <1>0. \A i \in D : rules[i].priority \in Int
    BY PriorityIsInt
  <1>1. D = 1 .. Len(rules) /\ Len(rules) \in Nat
    OBVIOUS
  <1>2. IsFiniteSet(D)
    BY <1>1, FS_Interval
  <1>3. \A i, j \in D : Precedes(rules, i, j) \/ Precedes(rules, j, i)
    BY <1>0, <1>1 DEF Precedes
  <1>4. \A i \in D : Rank(rules, i) \in D
    BY RankIsPosition
  <1>5. ASSUME NEW i \in D, NEW j \in D, i # j PROVE Rank(rules, i) # Rank(rules, j)
    <2>1. Rank(rules, i) \in Int /\ Rank(rules, j) \in Int
      BY <1>1, <1>4
    <2>2. Rank(rules, i) < Rank(rules, j) \/ Rank(rules, j) < Rank(rules, i)
      BY <1>3, <1>5, RanksDiffer
    <2> QED  BY <2>1, <2>2
  <1>6. rank \in Injection(D, D)
    <2> HIDE DEF D
    <2> QED  BY <1>4, <1>5 DEF Injection, IsInjective
  <1>7. rank \in Surjection(D, D)
    <2> HIDE DEF D, rank
    <2> QED  BY <1>2, <1>6, FS_Injection
  <1>8. ASSUME NEW k \in D PROVE order[k] \in D /\ Rank(rules, order[k]) = k
    <2>1. \E i \in D : Rank(rules, i) = k
      BY <1>7 DEF Surjection
    <2> HIDE DEF D
    <2> QED  BY <2>1
  <1>9. order \in Bijection(D, D)
    <2>1. order \in [D -> D]
      BY <1>8
    <2>2. \A i \in D : Rank(rules, i) \in D /\ order[Rank(rules, i)] = i
      <3> HIDE DEF order
      <3> QED  BY <1>4, <1>5, <1>8
    <2> HIDE DEF order, D
    <2>3. order \in Injection(D, D)
      BY <1>8, <2>1 DEF Injection, IsInjective
    <2>4. order \in Surjection(D, D)
      BY <2>1, <2>2 DEF Surjection
    <2> QED  BY <2>3, <2>4 DEF Bijection
  <1>10. Compile(rules) = [k \in D |-> CompileRule(rules[order[k]])]
    BY DEF Compile
  <1>11. ASSUME NEW k \in D, NEW l \in D, k < l
         PROVE  Precedes(rules, order[k], order[l])
    <2> SUFFICES ASSUME ~Precedes(rules, order[k], order[l]) PROVE FALSE
      OBVIOUS
    <2> HIDE DEF order
    <2>1. order[k] # order[l] /\ Precedes(rules, order[l], order[k])
      BY <1>3, <1>8, <1>11 DEF Precedes
    <2>2. Rank(rules, order[l]) < Rank(rules, order[k])
      BY <1>8, <2>1, RanksDiffer
    <2> QED  BY <1>1, <1>8, <1>11, <2>2
  <1> HIDE DEF order
  <1> QED  BY <1>9, <1>10, <1>11

\* Compiling leaves alone what a rule does.
LEMMA CompiledAction ==
  ASSUME NEW rule \in RuleType
  PROVE  CompileRule(rule).action = rule.action
  BY DEF CompileRule, RuleType

CompiledType == {CompileRule(rule) : rule \in RuleType}

LEMMA CompiledRules ==
  ASSUME NEW rules \in Seq(RuleType)
  PROVE  /\ Compile(rules) \in Seq({CompileRule(rule) : rule \in RuleType})
         /\ ToSet(Compile(rules)) = {CompileRule(rule) : rule \in ToSet(rules)}
  <1>1. PICK order \in Bijection(DOMAIN rules, DOMAIN rules) :
          Compile(rules) = [k \in DOMAIN rules |-> CompileRule(rules[order[k]])]
    BY CompileSorts
  <1>2. DOMAIN rules = 1 .. Len(rules) /\ Len(rules) \in Nat
    OBVIOUS
  <1>3. \A k \in DOMAIN rules : order[k] \in DOMAIN rules /\ rules[order[k]] \in RuleType
    BY <1>1 DEF Bijection, Injection
  <1>4. \A i \in DOMAIN rules : \E k \in DOMAIN rules : order[k] = i
    BY <1>1 DEF Bijection, Surjection
  <1>5. Compile(rules) \in Seq({CompileRule(rule) : rule \in RuleType})
    BY <1>1, <1>2, <1>3
  <1>6. ToSet(Compile(rules)) = {CompileRule(rules[order[k]]) : k \in DOMAIN rules}
    BY <1>1 DEF ToSet
  <1>7. {CompileRule(rules[order[k]]) : k \in DOMAIN rules}
          = {CompileRule(rules[i]) : i \in DOMAIN rules}
    BY <1>3, <1>4
  <1> QED  BY <1>5, <1>6, <1>7 DEF ToSet

-----------------------------------------------------------------------------
(* The order of a report.                                                  *)

\* Every match comes from a rule and a fragment that it hits, and the pairs
\* ascend, rule before fragment.
Ascends(found, engine, fragments, path, by, on) ==
  /\ \A m \in DOMAIN found :
       /\ Hits(engine[by[m]], fragments[on[m]], path)
       /\ found[m] = MatchOf(engine[by[m]], fragments[on[m]])
  /\ \A l, m \in DOMAIN found :
       l < m => by[l] < by[m] \/ (by[l] = by[m] /\ on[l] < on[m])

\* None of them is past the b-th fragment of the a-th rule.
EndsBy(found, by, on, a, b) ==
  \A m \in DOMAIN found : by[m] < a \/ (by[m] = a /\ on[m] <= b)

Sourced(found, engine, fragments, path, a, b) ==
  \E by \in [DOMAIN found -> DOMAIN engine], on \in [DOMAIN found -> DOMAIN fragments] :
    /\ Ascends(found, engine, fragments, path, by, on)
    /\ EndsBy(found, by, on, a, b)

LEMMA SourcedLater ==
  ASSUME NEW R, NEW engine \in Seq(R), NEW F, NEW fragments \in Seq(F), NEW path,
         NEW M, NEW found \in Seq(M), NEW a \in Nat, NEW b \in Nat,
         Sourced(found, engine, fragments, path, a, b)
  PROVE  /\ Sourced(found, engine, fragments, path, a, b + 1)
         /\ Sourced(found, engine, fragments, path, a + 1, 0)
  <1>1. PICK by \in [DOMAIN found -> DOMAIN engine], on \in [DOMAIN found -> DOMAIN fragments] :
          /\ Ascends(found, engine, fragments, path, by, on)
          /\ EndsBy(found, by, on, a, b)
    BY DEF Sourced
  <1>2. \A m \in DOMAIN found : by[m] \in Nat /\ on[m] \in Nat
    <2>1. DOMAIN engine \subseteq Nat /\ DOMAIN fragments \subseteq Nat
      OBVIOUS
    <2> QED  BY <2>1
  <1>a. \A m \in DOMAIN found : by[m] < a \/ (by[m] = a /\ on[m] <= b)
    BY <1>1 DEF EndsBy
  <1>3. EndsBy(found, by, on, a, b + 1)
    BY <1>2, <1>a DEF EndsBy
  <1>b. EndsBy(found, by, on, a + 1, 0)
    <2>1. ASSUME NEW m \in DOMAIN found PROVE by[m] < a + 1
      <3>1. by[m] \in Nat /\ on[m] \in Nat /\ (by[m] < a \/ by[m] = a)
        BY <1>2, <1>a
      <3> QED  BY <3>1
    <2> QED  BY <2>1, Zenon DEF EndsBy
  <1> QED  BY <1>1, <1>3, <1>b, Zenon DEF Sourced

LEMMA SourcedAppended ==
  ASSUME NEW R, NEW engine \in Seq(R), NEW F, NEW fragments \in Seq(F), NEW path,
         NEW M, NEW found \in Seq(M), NEW a \in DOMAIN engine, NEW b \in DOMAIN fragments,
         Sourced(found, engine, fragments, path, a, b - 1),
         Hits(engine[a], fragments[b], path), MatchOf(engine[a], fragments[b]) \in M
  PROVE  Sourced(Append(found, MatchOf(engine[a], fragments[b])),
                 engine, fragments, path, a, b)
  <1> DEFINE L == Len(found)
             hit == MatchOf(engine[a], fragments[b])
             now == Append(found, hit)
  <1>1. PICK by \in [DOMAIN found -> DOMAIN engine], on \in [DOMAIN found -> DOMAIN fragments] :
          /\ Ascends(found, engine, fragments, path, by, on)
          /\ EndsBy(found, by, on, a, b - 1)
    BY DEF Sourced
  <1>2. L \in Nat /\ DOMAIN found = 1 .. L /\ a \in Nat /\ b \in Nat
    OBVIOUS
  <1>3. /\ DOMAIN now = 1 .. L + 1 /\ now[L + 1] = hit
        /\ \A m \in 1 .. L : now[m] = found[m]
    <2> HIDE DEF hit
    <2> QED  OBVIOUS
  <1> DEFINE by2 == [m \in 1 .. L + 1 |-> IF m \in 1 .. L THEN by[m] ELSE a]
             on2 == [m \in 1 .. L + 1 |-> IF m \in 1 .. L THEN on[m] ELSE b]
  <1>4. /\ \A m \in 1 .. L : by2[m] = by[m] /\ on2[m] = on[m]
        /\ by2[L + 1] = a /\ on2[L + 1] = b
        /\ by2 \in [1 .. L + 1 -> DOMAIN engine]
        /\ on2 \in [1 .. L + 1 -> DOMAIN fragments]
    BY <1>2
  <1>5. \A m \in 1 .. L : by[m] \in Nat /\ on[m] \in Nat
    <2>1. DOMAIN engine \subseteq Nat /\ DOMAIN fragments \subseteq Nat
      OBVIOUS
    <2> QED  BY <1>2, <2>1
  <1>6. /\ \A m \in 1 .. L :
             /\ Hits(engine[by[m]], fragments[on[m]], path)
             /\ found[m] = MatchOf(engine[by[m]], fragments[on[m]])
        /\ \A l, m \in 1 .. L :
             l < m => by[l] < by[m] \/ (by[l] = by[m] /\ on[l] < on[m])
    BY <1>1, <1>2 DEF Ascends
  <1>7. \A m \in 1 .. L : by[m] < a \/ (by[m] = a /\ on[m] < b)
    <2>1. \A m \in 1 .. L : by[m] < a \/ (by[m] = a /\ on[m] <= b - 1)
      BY <1>1, <1>2 DEF EndsBy
    <2> QED  BY <1>2, <1>5, <2>1
  <1> HIDE DEF by2, on2, hit, now, L
  <1>8. \A m \in 1 .. L + 1 : m \in 1 .. L \/ m = L + 1
    BY <1>2
  <1>9. ASSUME NEW m \in 1 .. L + 1
        PROVE  /\ Hits(engine[by2[m]], fragments[on2[m]], path)
               /\ now[m] = MatchOf(engine[by2[m]], fragments[on2[m]])
    <2>1. CASE m \in 1 .. L
      BY <1>3, <1>4, <1>6, <2>1
    <2>2. CASE m = L + 1
      BY <1>3, <1>4, <2>2 DEF hit
    <2> QED  BY <1>8, <2>1, <2>2
  <1>10. ASSUME NEW l \in 1 .. L + 1, NEW m \in 1 .. L + 1, l < m
         PROVE  by2[l] < by2[m] \/ (by2[l] = by2[m] /\ on2[l] < on2[m])
    <2>1. l \in 1 .. L
      BY <1>2, <1>10
    <2>2. CASE m \in 1 .. L
      BY <1>4, <1>6, <1>10, <2>1, <2>2
    <2>3. CASE m = L + 1
      BY <1>4, <1>7, <2>1, <2>3
    <2> QED  BY <1>8, <2>2, <2>3
  <1>11. ASSUME NEW m \in 1 .. L + 1
         PROVE  by2[m] < a \/ (by2[m] = a /\ on2[m] <= b)
    <2>1. CASE m \in 1 .. L
      BY <1>2, <1>4, <1>5, <1>7, <2>1
    <2>2. CASE m = L + 1
      BY <1>2, <1>4, <2>2
    <2> QED  BY <1>8, <2>1, <2>2
  <1>12. Ascends(now, engine, fragments, path, by2, on2)
    BY <1>3, <1>9, <1>10, Zenon DEF Ascends
  <1>13. EndsBy(now, by2, on2, a, b)
    BY <1>3, <1>11, Zenon DEF EndsBy
  <1> QED  BY <1>3, <1>4, <1>12, <1>13, Zenon DEF Sourced, now, hit

\* The inner loop appends the hits of one rule in the order of the fragments.
LEMMA AddHitsInOrder ==
  ASSUME NEW R, NEW engine \in Seq(R), NEW F, NEW fragments \in Seq(F), NEW path,
         NEW M, NEW found \in Seq(M), NEW a \in DOMAIN engine,
         \A fragment \in F : MatchOf(engine[a], fragment) \in M,
         Sourced(found, engine, fragments, path, a, 0)
  PROVE  Sourced(AddHits(found, engine[a], fragments, path),
                 engine, fragments, path, a + 1, 0)
  <1> DEFINE N == Len(fragments)
  <1>1. N \in Nat /\ DOMAIN fragments = 1 .. N /\ a \in Nat
    OBVIOUS
  <1>2. PICK after :
          /\ after[0] = found
          /\ \A n \in 1 .. N : after[n] = AddHit(after[n - 1], engine[a], fragments[n], path)
          /\ AddHits(found, engine[a], fragments, path) = after[N]
    <2> DEFINE rule == engine[a]
    <2>1. \A fragment \in F : MatchOf(rule, fragment) \in M
      OBVIOUS
    <2> HIDE DEF rule
    <2>2. \E after :
            /\ after[0] = found
            /\ \A n \in 1 .. N : after[n] = AddHit(after[n - 1], rule, fragments[n], path)
            /\ AddHits(found, rule, fragments, path) = after[N]
      BY <2>1, AddHitsUnfolds, SMTT(30)
    <2> QED  BY <2>2 DEF rule
  <1> DEFINE P == {n \in 0 .. N : /\ after[n] \in Seq(M)
                                  /\ Sourced(after[n], engine, fragments, path, a, n)}
  <1> HIDE DEF N
  <1>3. 0 \in P
    BY <1>1, <1>2
  <1>4. ASSUME NEW n \in P, n < N PROVE n + 1 \in P
    <2>1. n \in 0 .. N /\ n + 1 \in 1 .. N /\ n \in Nat /\ (n + 1) - 1 = n /\ n + 1 \in 0 .. N
      BY <1>1, <1>4
    <2>2. after[n + 1] = AddHit(after[n], engine[a], fragments[n + 1], path)
      BY <1>2, <2>1
    <2>3. after[n] \in Seq(M) /\ Sourced(after[n], engine, fragments, path, a, n)
      OBVIOUS
    <2> DEFINE hit == MatchOf(engine[a], fragments[n + 1])
    <2>4. hit \in M /\ n + 1 \in DOMAIN fragments
      BY <1>1, <2>1
    <2> HIDE DEF P
    <2>5. CASE Hits(engine[a], fragments[n + 1], path)
      <3>1. after[n + 1] = Append(after[n], hit)
        BY <2>2, <2>5 DEF AddHit
      <3>2. Sourced(Append(after[n], hit), engine, fragments, path, a, n + 1)
        BY <2>1, <2>3, <2>4, <2>5, SourcedAppended
      <3> HIDE DEF hit
      <3>3. Append(after[n], hit) \in Seq(M)
        BY <2>3, <2>4
      <3> QED  BY <2>1, <3>1, <3>2, <3>3 DEF P
    <2>6. CASE ~Hits(engine[a], fragments[n + 1], path)
      <3>1. after[n + 1] = after[n]
        BY <2>2, <2>6 DEF AddHit
      <3>2. Sourced(after[n], engine, fragments, path, a, n + 1)
        BY <1>1, <2>1, <2>3, SourcedLater
      <3> QED  BY <2>1, <2>3, <3>1, <3>2 DEF P
    <2> QED  BY <2>5, <2>6
  <1>5. N \in P
    <2>1. P \subseteq 0 .. N
      OBVIOUS
    <2> HIDE DEF P
    <2>2. P = 0 .. N
      BY <1>1, <1>3, <1>4, <2>1, InductionUpTo, Zenon
    <2> QED  BY <1>1, <2>2
  <1>6. after[N] \in Seq(M) /\ Sourced(after[N], engine, fragments, path, a, N)
    BY <1>5
  <1> QED  BY <1>1, <1>2, <1>6, SourcedLater

\* A report lists the hits rule by rule in the order of the engine and, of one
\* rule, in the order of the fragments; no rule is reported twice for one.
THEOREM ReportedInOrder ==
  ASSUME NEW R, NEW engine \in Seq(R), NEW F, NEW fragments \in Seq(F), NEW path
  PROVE  Sourced(Evaluate(engine, fragments, path), engine, fragments, path,
                 Len(engine) + 1, 0)
  <1> DEFINE N == Len(engine)
             M == MatchesOf(R, F)
  <1>1. N \in Nat /\ DOMAIN engine = 1 .. N
    OBVIOUS
  <1>2. PICK after :
          /\ after[0] = <<>>
          /\ \A n \in 1 .. N : after[n] = AddHits(after[n - 1], engine[n], fragments, path)
          /\ Evaluate(engine, fragments, path) = after[N]
    BY EvaluateUnfolds
  <1>0. \A rule \in R, fragment \in F : MatchOf(rule, fragment) \in M
    BY DEF MatchesOf
  <1> DEFINE P == {n \in 0 .. N : /\ after[n] \in Seq(M)
                                  /\ Sourced(after[n], engine, fragments, path, n + 1, 0)}
  <1> HIDE DEF N, M
  <1>3. 0 \in P
    <2>1. Sourced(<<>>, engine, fragments, path, 1, 0)
      <3> DEFINE none == <<>>
      <3>1. DOMAIN none = {} /\ none \in [{} -> DOMAIN engine] /\ none \in [{} -> DOMAIN fragments]
        OBVIOUS
      <3> HIDE DEF none
      <3>2. Ascends(none, engine, fragments, path, none, none) /\ EndsBy(none, none, none, 1, 0)
        BY <3>1 DEF Ascends, EndsBy
      <3> QED  BY <3>1, <3>2 DEF Sourced, none
    <2>2. <<>> \in Seq(M) /\ 0 \in 0 .. N /\ 0 + 1 = 1
      BY <1>1
    <2> QED  BY <1>2, <2>1, <2>2
  <1>4. ASSUME NEW n \in P, n < N PROVE n + 1 \in P
    <2>1. n \in 0 .. N /\ n + 1 \in 1 .. N /\ (n + 1) - 1 = n /\ n + 1 \in 0 .. N
      BY <1>1, <1>4
    <2>2. after[n + 1] = AddHits(after[n], engine[n + 1], fragments, path)
      BY <1>2, <2>1
    <2>3. after[n] \in Seq(M) /\ Sourced(after[n], engine, fragments, path, n + 1, 0)
      OBVIOUS
    <2>4. n + 1 \in DOMAIN engine /\ \A fragment \in F : MatchOf(engine[n + 1], fragment) \in M
      BY <1>0, <1>1, <2>1
    <2> HIDE DEF P
    <2>5. Sourced(after[n + 1], engine, fragments, path, (n + 1) + 1, 0)
      BY <2>2, <2>3, <2>4, AddHitsInOrder
    <2>6. after[n + 1] \in Seq(M)
      BY <2>2, <2>3, <2>4, AddHitsReports
    <2> QED  BY <2>1, <2>5, <2>6 DEF P
  <1>5. N \in P
    <2>1. P \subseteq 0 .. N
      OBVIOUS
    <2> HIDE DEF P
    <2>2. P = 0 .. N
      BY <1>1, <1>3, <1>4, <2>1, InductionUpTo, Zenon
    <2> QED  BY <1>1, <2>2
  <1> QED  BY <1>2, <1>5 DEF N

\* Of two reported hits the first is of a rule of higher priority or, at the
\* same priority, of one written no later (their ids name the two rules where
\* Validate accepted them): which hit comes first never depends on the fragments.
THEOREM ReportedByPriority ==
  ASSUME NEW rules \in Seq(RuleType), NEW F, NEW fragments \in Seq(F), NEW path
  PROVE  LET matches == Evaluate(Compile(rules), fragments, path)
         IN  \A l, m \in DOMAIN matches : l < m =>
               \E i, j \in DOMAIN rules :
                 /\ rules[i].id = matches[l].id /\ rules[j].id = matches[m].id
                 /\ Precedes(rules, i, j)
  <1> DEFINE engine == Compile(rules)
             matches == Evaluate(engine, fragments, path)
  <1>1. PICK order \in Bijection(DOMAIN rules, DOMAIN rules) :
          /\ engine = [k \in DOMAIN rules |-> CompileRule(rules[order[k]])]
          /\ \A k, l \in DOMAIN rules : k < l => Precedes(rules, order[k], order[l])
    BY CompileSorts
  <1>2. engine \in Seq(CompiledType)
    BY CompiledRules DEF CompiledType
  <1>3. /\ DOMAIN rules = 1 .. Len(rules) /\ DOMAIN engine = DOMAIN rules
        /\ \A k \in DOMAIN rules :
             /\ order[k] \in DOMAIN rules /\ rules[order[k]] \in RuleType
             /\ engine[k] = CompileRule(rules[order[k]])
    BY <1>1 DEF Bijection, Injection
  <1>4. \A rule \in RuleType : \A f : MatchOf(CompileRule(rule), f).id = rule.id
    BY DEF MatchOf, CompileRule, RuleType
  <1> HIDE DEF engine
  <1>5. Sourced(matches, engine, fragments, path, Len(engine) + 1, 0)
    BY <1>2, ReportedInOrder
  <1> HIDE DEF matches
  <1>6. PICK by \in [DOMAIN matches -> DOMAIN engine], on \in [DOMAIN matches -> DOMAIN fragments] :
          /\ \A m \in DOMAIN matches : matches[m] = MatchOf(engine[by[m]], fragments[on[m]])
          /\ \A l, m \in DOMAIN matches :
               l < m => by[l] < by[m] \/ by[l] = by[m]
    <2>1. PICK by \in [DOMAIN matches -> DOMAIN engine],
                on \in [DOMAIN matches -> DOMAIN fragments] :
            Ascends(matches, engine, fragments, path, by, on)
      BY <1>5 DEF Sourced
    <2>2. /\ \A m \in DOMAIN matches : matches[m] = MatchOf(engine[by[m]], fragments[on[m]])
          /\ \A l, m \in DOMAIN matches : l < m => by[l] < by[m] \/ by[l] = by[m]
      BY <2>1, Zenon DEF Ascends
    <2> QED  BY <2>2, Zenon
  <1>7. \A m \in DOMAIN matches :
          by[m] \in DOMAIN rules /\ rules[order[by[m]]].id = matches[m].id
    BY <1>3, <1>4, <1>6
  <1>8. \A k \in DOMAIN rules : Precedes(rules, order[k], order[k])
    BY <1>3, PriorityIsInt DEF Precedes
  <1>9. ASSUME NEW l \in DOMAIN matches, NEW m \in DOMAIN matches, l < m
        PROVE  Precedes(rules, order[by[l]], order[by[m]])
    BY <1>1, <1>6, <1>7, <1>8, <1>9
  <1> QED  BY <1>3, <1>7, <1>9 DEF matches, engine

-----------------------------------------------------------------------------
(* Service.Inspect.                                                        *)

Decided == {"allow", "log_only", "tag_and_pass", "block"}

LEMMA StrongestIsDecided == ASSUME NEW actions PROVE Strongest(actions) \in Decided
  BY DEF Strongest, Decided

\* The actions of the rules that hit some fragment.
HittingActions(rules, fragments, path) ==
  {rule.action : rule \in {r \in ToSet(rules) :
     \E f \in ToSet(fragments) : Hits(CompileRule(r), f, path)}}

LEMMA EvaluatedActions ==
  ASSUME NEW rules \in Seq(RuleType), NEW F, NEW fragments \in Seq(F), NEW path
  PROVE  /\ Evaluate(Compile(rules), fragments, path) \in Seq(MatchesOf(CompiledType, F))
         /\ {match.action : match \in ToSet(Evaluate(Compile(rules), fragments, path))}
              = HittingActions(rules, fragments, path)
  <1> DEFINE engine == Compile(rules)
             matches == Evaluate(engine, fragments, path)
  <1>0. engine \in Seq(CompiledType)
    BY CompiledRules DEF CompiledType
  <1>a. ToSet(engine) = {CompileRule(rule) : rule \in ToSet(rules)}
    BY CompiledRules
  <1> HIDE DEF engine
  <1>1. /\ matches \in Seq(MatchesOf(CompiledType, F))
        /\ ToSet(matches) = AllHits(ToSet(engine), fragments, path)
    BY <1>0, EveryHitIsReported
  <1> HIDE DEF matches
  <1>3. \A rule \in ToSet(rules) : rule \in RuleType
    BY DEF ToSet
  <1>4. \A rule \in RuleType, f \in F : MatchOf(CompileRule(rule), f).action = rule.action
    BY CompiledAction DEF MatchOf
  <1>5. \A f \in ToSet(fragments) : f \in F
    BY DEF ToSet
  <1>6. {match.action : match \in ToSet(matches)} = HittingActions(rules, fragments, path)
    <2>1. ASSUME NEW match \in ToSet(matches)
          PROVE  \E r \in ToSet(rules), f \in ToSet(fragments) :
                   Hits(CompileRule(r), f, path) /\ match.action = r.action
      BY <1>1, <1>a, <1>3, <1>4, <1>5 DEF AllHits, HitsOf
    <2>2. ASSUME NEW r \in ToSet(rules), NEW f \in ToSet(fragments),
                 Hits(CompileRule(r), f, path)
          PROVE  \E match \in ToSet(matches) : match.action = r.action
      <3>1. MatchOf(CompileRule(r), f) \in HitsOf(CompileRule(r), fragments, path)
        BY <2>2 DEF HitsOf
      <3>2. CompileRule(r) \in ToSet(engine)
        BY <1>a
      <3>3. MatchOf(CompileRule(r), f) \in ToSet(matches)
        BY <1>1, <3>1, <3>2 DEF AllHits
      <3> QED  BY <1>3, <1>4, <1>5, <3>3
    <2> QED  BY <2>1, <2>2 DEF HittingActions
  <1> QED  BY <1>1, <1>6 DEF matches, engine

\* A text is blocked if and only if the service enforces its rules and a block
\* rule hits, whatever else hits and in whatever order the rules are written.
THEOREM BlocksIfHit ==
  ASSUME NEW c, c.rules \in Seq(RuleType), NEW path, NEW payload,
         NEW F, payload.fragments \in Seq(F), payload.extraction = "text"
  PROVE  /\ Inspect(c, path, payload).decision = "block" <=>
              /\ ~c.dryRun
              /\ \E rule \in ToSet(c.rules), fragment \in ToSet(payload.fragments) :
                   rule.action = "block" /\ Hits(CompileRule(rule), fragment, path)
         /\ Inspect(c, path, payload).decision \in Decided
         /\ ~Inspect(c, path, payload).failed /\ ~Inspect(c, path, payload).skipped
  <1> DEFINE matches == Evaluate(Compile(c.rules), payload.fragments, path)
             actions == HittingActions(c.rules, payload.fragments, path)
  <1>1. /\ matches \in Seq(MatchesOf(CompiledType, F))
        /\ {match.action : match \in ToSet(matches)} = actions
    BY EvaluatedActions
  <1> HIDE DEF actions, matches
  <1>2. Decide(matches) = Strongest(actions)
    BY <1>1, StrongestDecides
  <1>3. Decide(matches) = "block" <=> "block" \in actions
    BY <1>2 DEF Strongest
  <1>4. Decide(matches) \in Decided
    BY <1>2, StrongestIsDecided
  <1>5. Inspect(c, path, payload) =
          [decision |-> Enforced(c.dryRun, Decide(matches)),
           skipped |-> FALSE, failed |-> FALSE, matches |-> matches]
    BY DEF Inspect, matches
  <1>6. "block" \in actions <=>
          \E rule \in ToSet(c.rules), fragment \in ToSet(payload.fragments) :
            rule.action = "block" /\ Hits(CompileRule(rule), fragment, path)
    BY DEF actions, HittingActions
  <1> QED  BY <1>3, <1>4, <1>5, <1>6 DEF Enforced, Decided

-----------------------------------------------------------------------------
(* What a contains_any rule finds.                                         *)

Written(R) == {Lowered(rune) : rune \in R}
Wrote(written, rune) ==
  IF Lowered(rune) \in ZeroWidth \cup Spaces THEN written ELSE Append(written, Lowered(rune))

LEMMA NormalizeUnfolds ==
  ASSUME NEW R, NEW text \in Seq(R)
  PROVE  \E after :
           /\ after[0] = <<>>
           /\ \A n \in 0 .. Len(text) : after[n] \in Seq(Written(R))
           /\ \A n \in 1 .. Len(text) : after[n] = Wrote(after[n - 1], text[n])
           /\ Normalize(text) = after[Len(text)]
  <1> DEFINE N == Len(text)
             T == Seq(Written(R))
             Step == [n \in 1 .. N |-> [t \in T |-> Wrote(t, text[n])]]
             Equation(iter) ==
               iter = [s \in SUBSET (1 .. N) |->
                         IF s = {} THEN <<>> ELSE Wrote(iter[s \ {Max(s)}], text[Max(s)])]
             iter == CHOOSE iter : Equation(iter)
  <1>1. N \in Nat /\ DOMAIN text = 1 .. N
    OBVIOUS
  <1>11. ASSUME NEW n \in 1 .. N, NEW t \in T PROVE Wrote(t, text[n]) \in T
    BY DEF Wrote, Written
  <1>2. Step \in [1 .. N -> [T -> T]]
    BY <1>11
  <1>3. \E it : Equation(it)
    <2>1. PICK it \in [SUBSET (1 .. N) -> T] : Folds(it, N, <<>>, Step)
      <3>1. <<>> \in T
        OBVIOUS
      <3> HIDE DEF N, Step, T
      <3> QED  BY <1>1, <1>2, <3>1, FoldExists
    <2>2. ASSUME NEW s \in SUBSET (1 .. N), s # {}
          PROVE  Step[Max(s)][it[s \ {Max(s)}]] = Wrote(it[s \ {Max(s)}], text[Max(s)])
      <3>1. Max(s) \in 1 .. N
        BY <1>1, <2>2, MaxOfSome
      <3>2. it[s \ {Max(s)}] \in T
        BY <2>1
      <3> QED  BY <3>1, <3>2
    <2>3. Equation(it)
      <3> HIDE DEF Step, N, T
      <3> QED  BY <2>1, <2>2 DEF Folds
    <2> QED  BY <2>3
  <1>4. Equation(iter)
    BY <1>3
  <1>5. Normalize(text) = iter[1 .. N]
    BY <1>1 DEF Normalize, FoldLeft, MapThenFoldSet, Wrote
  <1> DEFINE after == [n \in 0 .. N |-> iter[1 .. n]]
  <1>6. after[0] = <<>>
    <2>1. 1 .. 0 = {}
      OBVIOUS
    <2> HIDE DEF iter
    <2> QED  BY <1>1, <1>4, <2>1
  <1>7. ASSUME NEW n \in 1 .. N
        PROVE  after[n] = Wrote(after[n - 1], text[n])
    <2> HIDE DEF iter, Step, N
    <2>1. /\ 1 .. n \in SUBSET (1 .. N) /\ 1 .. n # {}
          /\ Max(1 .. n) = n /\ (1 .. n) \ {n} = 1 .. n - 1
          /\ n \in 0 .. N /\ n - 1 \in 0 .. N
      BY <1>1, MaxOfInterval
    <2>2. iter[1 .. n] = Wrote(iter[1 .. n - 1], text[n])
      BY <1>4, <2>1
    <2> QED  BY <2>1, <2>2
  <1>8. Normalize(text) = after[N]
    BY <1>1, <1>5
  <1> HIDE DEF after
  <1> DEFINE P == {n \in 0 .. N : after[n] \in T}
  <1>9. P = 0 .. N
    <2>0. <<>> \in T
      OBVIOUS
    <2> HIDE DEF T, N
    <2>1. 0 \in P
      BY <1>1, <1>6, <2>0
    <2>2. ASSUME NEW n \in P, n < N PROVE n + 1 \in P
      <3>1. n + 1 \in 1 .. N /\ n + 1 - 1 = n /\ n + 1 \in 0 .. N
        BY <1>1, <2>2
      <3>2. after[n + 1] = Wrote(after[n], text[n + 1])
        BY <1>7, <3>1
      <3> QED  BY <1>11, <2>2, <3>1, <3>2
    <2>3. P \subseteq 0 .. N
      OBVIOUS
    <2> HIDE DEF P
    <2> QED  BY <1>1, <2>1, <2>2, <2>3, InductionUpTo, Zenon
  <1>10. \A n \in 0 .. N : after[n] \in T
    BY <1>9
  <1> QED  BY <1>6, <1>7, <1>8, <1>10

\* Normalize rune by rune.
LEMMA NormalizeSteps ==
  ASSUME NEW R, NEW text \in Seq(R)
  PROVE  /\ Normalize(<<>>) = <<>>
         /\ Normalize(text) \in Seq(Written(R))
         /\ \A rune \in R : Normalize(Append(text, rune)) = Wrote(Normalize(text), rune)
  <1>0. Len(text) \in Nat
    OBVIOUS
  <1>1. Normalize(<<>>) = <<>>
    <2> DEFINE none == <<>>
    <2>1. none \in Seq(R) /\ Len(none) = 0 /\ none = <<>>
      OBVIOUS
    <2> HIDE DEF none
    <2>2. PICK after : after[0] = <<>> /\ Normalize(none) = after[Len(none)]
      BY <2>1, NormalizeUnfolds
    <2> QED  BY <2>1, <2>2
  <1>2. PICK one : /\ one[0] = <<>>
                   /\ \A n \in 0 .. Len(text) : one[n] \in Seq(Written(R))
                   /\ \A n \in 1 .. Len(text) : one[n] = Wrote(one[n - 1], text[n])
                   /\ Normalize(text) = one[Len(text)]
    BY NormalizeUnfolds
  <1>3. Normalize(text) \in Seq(Written(R))
    BY <1>0, <1>2
  <1>4. ASSUME NEW rune \in R
        PROVE  Normalize(Append(text, rune)) = Wrote(Normalize(text), rune)
    <2> DEFINE more == Append(text, rune)
    <2>1. /\ more \in Seq(R) /\ Len(more) = Len(text) + 1
          /\ \A n \in 1 .. Len(text) : more[n] = text[n]
          /\ more[Len(text) + 1] = rune
      BY <1>0
    <2> HIDE DEF more
    <2>2. PICK two : /\ two[0] = <<>>
                     /\ \A n \in 1 .. Len(more) : two[n] = Wrote(two[n - 1], more[n])
                     /\ Normalize(more) = two[Len(more)]
      BY <2>1, NormalizeUnfolds
    <2> DEFINE P == {n \in 0 .. Len(text) : one[n] = two[n]}
    <2>3. P = 0 .. Len(text)
      <3>1. 0 \in P
        BY <1>0, <1>2, <2>2
      <3>2. ASSUME NEW n \in P, n < Len(text) PROVE n + 1 \in P
        <4>1. /\ n + 1 \in 1 .. Len(text) /\ n + 1 \in 1 .. Len(more) /\ n + 1 - 1 = n
              /\ n + 1 \in 0 .. Len(text)
          BY <1>0, <2>1, <3>2
        <4>2. one[n + 1] = Wrote(one[n], text[n + 1])
          BY <1>2, <4>1
        <4>3. two[n + 1] = Wrote(two[n], more[n + 1])
          BY <2>2, <4>1
        <4> QED  BY <2>1, <3>2, <4>1, <4>2, <4>3
      <3>3. P \subseteq 0 .. Len(text)
        OBVIOUS
      <3> HIDE DEF P
      <3> QED  BY <1>0, <3>1, <3>2, <3>3, InductionUpTo, Zenon
    <2>4. one[Len(text)] = two[Len(text)]
      <3>1. Len(text) \in 0 .. Len(text)
        BY <1>0
      <3> QED  BY <2>3, <3>1
    <2>5. two[Len(more)] = Wrote(two[Len(text)], rune)
      <3>1. Len(text) + 1 \in 1 .. Len(more) /\ Len(text) + 1 - 1 = Len(text)
        BY <1>0, <2>1
      <3> QED  BY <2>1, <2>2, <3>1
    <2> QED  BY <1>2, <2>2, <2>4, <2>5 DEF more
  <1> QED  BY <1>1, <1>3, <1>4

\* The first n runes of a text, and one more.
LEMMA FirstRunes ==
  ASSUME NEW R, NEW text \in Seq(R)
  PROVE  /\ SubSeq(text, 1, 0) = <<>> /\ SubSeq(text, 1, Len(text)) = text
         /\ \A n \in 0 .. Len(text) : SubSeq(text, 1, n) \in Seq(R)
         /\ \A n \in 1 .. Len(text) :
              SubSeq(text, 1, n) = Append(SubSeq(text, 1, n - 1), text[n]) /\ text[n] \in R
  <1>0. Len(text) \in Nat
    OBVIOUS
  <1>1. SubSeq(text, 1, 0) = <<>> /\ SubSeq(text, 1, Len(text)) = text
    BY SubSeqFull, SubSeqEmpty
  <1>2. ASSUME NEW n \in 0 .. Len(text) PROVE SubSeq(text, 1, n) \in Seq(R)
    BY <1>0
  <1>3. ASSUME NEW n \in 1 .. Len(text)
        PROVE  SubSeq(text, 1, n) = Append(SubSeq(text, 1, n - 1), text[n]) /\ text[n] \in R
    <2>1. 1 \in 1 .. Len(text) /\ n \in 1 .. Len(text) /\ n - 1 \in 0 .. Len(text)
      BY <1>0
    <2>2. SubSeq(text, 1, n) = SubSeq(text, 1, n - 1) \o <<text[n]>>
      BY <2>1, SubSeqRecursiveSecond
    <2>3. SubSeq(text, 1, n - 1) \in Seq(R) /\ text[n] \in R
      BY <1>2, <2>1
    <2> QED  BY <2>2, <2>3, AppendIsConcat
  <1> QED  BY <1>1, <1>2, <1>3

\* Texts are normalized part by part.
LEMMA NormalizeJoins ==
  ASSUME NEW R, NEW s \in Seq(R), NEW t \in Seq(R)
  PROVE  Normalize(s \o t) = Normalize(s) \o Normalize(t)
  <1> DEFINE Begin(n) == SubSeq(t, 1, n)
             P == {n \in 0 .. Len(t) : Normalize(s \o Begin(n)) = Normalize(s) \o Normalize(Begin(n))}
  <1>0. Len(t) \in Nat /\ Normalize(s) \in Seq(Written(R))
    BY NormalizeSteps
  <1>1. 0 \in P
    <2>1. Begin(0) = <<>> /\ Normalize(<<>>) = <<>> /\ s \o <<>> = s
      BY FirstRunes, NormalizeSteps, ConcatEmptySeq
    <2>2. Normalize(s) \o <<>> = Normalize(s)
      BY <1>0, ConcatEmptySeq
    <2>3. Normalize(s \o Begin(0)) = Normalize(s) \o Normalize(Begin(0))
      BY <2>1, <2>2, Zenon
    <2> HIDE DEF Begin
    <2> QED  BY <1>0, <2>3
  <1>2. ASSUME NEW n \in P, n < Len(t) PROVE n + 1 \in P
    <2>1. n + 1 \in 1 .. Len(t) /\ n + 1 - 1 = n /\ n + 1 \in 0 .. Len(t) /\ n \in 0 .. Len(t)
      BY <1>0, <1>2
    <2>2. Begin(n + 1) = Append(Begin(n), t[n + 1]) /\ t[n + 1] \in R /\ Begin(n) \in Seq(R)
      BY <2>1, FirstRunes
    <2>3. Normalize(s \o Begin(n)) = Normalize(s) \o Normalize(Begin(n))
      BY <1>2
    <2> HIDE DEF Begin
    <2> DEFINE e == t[n + 1]
               f == Begin(n)
    <2> HIDE DEF e, f
    <2>4. e \in R /\ f \in Seq(R) /\ Begin(n + 1) = Append(f, e)
      BY <2>2 DEF e, f
    <2>5. s \o Append(f, e) = Append(s \o f, e) /\ s \o f \in Seq(R)
      BY <2>4, AppendLast
    <2>6. Normalize(Append(s \o f, e)) = Wrote(Normalize(s \o f), e)
      BY <2>4, <2>5, NormalizeSteps
    <2>7. Normalize(Append(f, e)) = Wrote(Normalize(f), e) /\ Normalize(f) \in Seq(Written(R))
      BY <2>4, NormalizeSteps
    <2>8. Wrote(Normalize(s) \o Normalize(f), e) = Normalize(s) \o Wrote(Normalize(f), e)
      <3>1. Lowered(e) \in Written(R)
        BY <2>4 DEF Written
      <3>2. Normalize(s) \o Append(Normalize(f), Lowered(e)) = Append(Normalize(s) \o Normalize(f), Lowered(e))
        BY <1>0, <2>7, <3>1, AppendLast
      <3> QED  BY <3>2 DEF Wrote
    <2>9. Normalize(s \o Begin(n + 1)) = Normalize(s) \o Normalize(Begin(n + 1))
      BY <2>3, <2>4, <2>5, <2>6, <2>7, <2>8 DEF f
    <2> QED  BY <2>1, <2>9
  <1>3. P = 0 .. Len(t)
    <2>1. P \subseteq 0 .. Len(t)
      OBVIOUS
    <2> HIDE DEF P
    <2> QED  BY <1>0, <1>1, <1>2, <2>1, InductionUpTo, Zenon
  <1>4. Len(t) \in P /\ Begin(Len(t)) = t
    <2>1. Len(t) \in 0 .. Len(t)
      BY <1>0
    <2> HIDE DEF P
    <2> QED  BY <1>3, <2>1, FirstRunes
  <1> HIDE DEF Begin
  <1> QED  BY <1>4

\* A text that is split before rune i + 1 is the two parts together.
LEMMA SplitAt ==
  ASSUME NEW R, NEW text \in Seq(R), NEW i \in 0 .. Len(text)
  PROVE  /\ SubSeq(text, 1, i) \in Seq(R) /\ SubSeq(text, i + 1, Len(text)) \in Seq(R)
         /\ Len(SubSeq(text, 1, i)) = i
         /\ text = SubSeq(text, 1, i) \o SubSeq(text, i + 1, Len(text))
         /\ \A h \in 0 .. i : SubSeq(SubSeq(text, 1, i), h + 1, i) = SubSeq(text, h + 1, i)
         /\ \A h \in 0 .. i : SubSeq(SubSeq(text, 1, i), 1, h) = SubSeq(text, 1, h)
  <1> DEFINE u == SubSeq(text, 1, i)
             v == SubSeq(text, i + 1, Len(text))
             N == Len(text)
  <1>0. N \in Nat /\ i \in Nat /\ i <= N
    OBVIOUS
  <1>1. u \in Seq(R) /\ Len(u) = i /\ \A k \in 1 .. i : u[k] = text[k]
    BY <1>0
  <1>2. v \in Seq(R) /\ Len(v) = N - i /\ \A k \in 1 .. N - i : v[k] = text[i + k]
    BY <1>0
  <1> HIDE DEF u, v, N
  <1>3. /\ u \o v \in Seq(R) /\ Len(u \o v) = N
        /\ \A k \in 1 .. N : (u \o v)[k] = IF k <= i THEN u[k] ELSE v[k - i]
    <2>1. /\ u \o v \in Seq(R) /\ Len(u \o v) = Len(u) + Len(v)
          /\ \A k \in 1 .. Len(u) + Len(v) : (u \o v)[k] = IF k <= Len(u) THEN u[k] ELSE v[k - Len(u)]
      BY <1>1, <1>2, ConcatProperties
    <2>2. Len(u) + Len(v) = N
      BY <1>0, <1>1, <1>2
    <2> QED  BY <1>1, <2>1, <2>2
  <1>4. text = u \o v
    <2>1. ASSUME NEW k \in 1 .. N PROVE text[k] = (u \o v)[k]
      <3>1. CASE k <= i
        BY <1>1, <1>3, <3>1
      <3>2. CASE ~(k <= i)
        <4>1. k - i \in 1 .. N - i /\ i + (k - i) = k
          BY <1>0, <3>2
        <4> QED  BY <1>2, <1>3, <3>2, <4>1
      <3> QED  BY <3>1, <3>2
    <2> QED  BY <1>3, <2>1, SeqEqual DEF N
  <1>5. ASSUME NEW h \in 0 .. i PROVE SubSeq(u, h + 1, i) = SubSeq(text, h + 1, i)
    <2>1. /\ SubSeq(u, h + 1, i) \in Seq(R) /\ Len(SubSeq(u, h + 1, i)) = i - h
          /\ \A k \in 1 .. i - h : SubSeq(u, h + 1, i)[k] = u[h + k]
      BY <1>0, <1>1
    <2>2. /\ SubSeq(text, h + 1, i) \in Seq(R) /\ Len(SubSeq(text, h + 1, i)) = i - h
          /\ \A k \in 1 .. i - h : SubSeq(text, h + 1, i)[k] = text[h + k]
      BY <1>0 DEF N
    <2>3. \A k \in 1 .. i - h : h + k \in 1 .. i
      BY <1>0
    <2> QED  BY <1>1, <2>1, <2>2, <2>3, SeqEqual
  <1>6. ASSUME NEW h \in 0 .. i PROVE SubSeq(u, 1, h) = SubSeq(text, 1, h)
    <2>1. /\ SubSeq(u, 1, h) \in Seq(R) /\ Len(SubSeq(u, 1, h)) = h
          /\ \A k \in 1 .. h : SubSeq(u, 1, h)[k] = u[k]
      BY <1>0, <1>1
    <2>2. /\ SubSeq(text, 1, h) \in Seq(R) /\ Len(SubSeq(text, 1, h)) = h
          /\ \A k \in 1 .. h : SubSeq(text, 1, h)[k] = text[k]
      BY <1>0 DEF N
    <2>3. \A k \in 1 .. h : k \in 1 .. i
      BY <1>0
    <2> QED  BY <1>1, <2>1, <2>2, <2>3, SeqEqual
  <1> QED  BY <1>1, <1>2, <1>4, <1>5, <1>6 DEF u, v, N

\* What stands between two others is found there.
LEMMA Between ==
  ASSUME NEW R, NEW u \in Seq(R), NEW p \in Seq(R), NEW v \in Seq(R)
  PROVE  /\ Len((u \o p) \o v) = Len(u) + Len(p) + Len(v)
         /\ SubSeq((u \o p) \o v, Len(u) + 1, Len(u) + Len(p)) = p
  <1> DEFINE up == u \o p
             all == up \o v
             a == Len(u)
             b == Len(p)
             part == SubSeq(all, a + 1, a + b)
  <1>0. a \in Nat /\ b \in Nat /\ Len(v) \in Nat
    OBVIOUS
  <1>1. /\ up \in Seq(R) /\ Len(up) = a + b
        /\ \A k \in 1 .. a + b : up[k] = IF k <= a THEN u[k] ELSE p[k - a]
    BY ConcatProperties
  <1> HIDE DEF up
  <1>2. /\ all \in Seq(R) /\ Len(all) = a + b + Len(v)
        /\ \A k \in 1 .. a + b + Len(v) : all[k] = IF k <= a + b THEN up[k] ELSE v[k - (a + b)]
    <2>1. up \in Seq(R)
      BY <1>1
    <2>2. /\ all \in Seq(R) /\ Len(all) = Len(up) + Len(v)
          /\ \A k \in 1 .. Len(up) + Len(v) :
               all[k] = IF k <= Len(up) THEN up[k] ELSE v[k - Len(up)]
      BY <2>1, ConcatProperties, Zenon
    <2> HIDE DEF all
    <2> QED  BY <1>1, <2>2
  <1> HIDE DEF all
  <1>3. part \in Seq(R) /\ Len(part) = b /\ \A k \in 1 .. b : part[k] = all[a + k]
    BY <1>0, <1>2
  <1>4. ASSUME NEW k \in 1 .. b PROVE part[k] = p[k]
    <2>1. /\ a + k \in 1 .. a + b /\ a + k \in 1 .. a + b + Len(v) /\ a + k <= a + b
          /\ ~(a + k <= a) /\ a + k - a = k
      BY <1>0
    <2>2. part[k] = all[a + k] /\ all[a + k] = up[a + k]
      BY <1>2, <1>3, <2>1
    <2>3. up[a + k] = p[k]
      BY <1>1, <2>1
    <2> QED  BY <2>2, <2>3
  <1> HIDE DEF part
  <1>5. part = p
    BY <1>3, <1>4, SeqEqual
  <1> QED  BY <1>2, <1>5 DEF part, all, up

\* Every length of what is written is reached by some first runes of a text.
LEMMA SomeRunesWrite ==
  ASSUME NEW R, NEW text \in Seq(R), NEW k \in 0 .. Len(Normalize(text))
  PROVE  \E i \in 0 .. Len(text) : Len(Normalize(SubSeq(text, 1, i))) = k
  <1> DEFINE L(i) == Len(Normalize(SubSeq(text, 1, i)))
             P == {n \in 0 .. Len(text) : k <= L(n) => \E i \in 0 .. n : L(i) = k}
  <1>0. Len(text) \in Nat /\ k \in Nat
    BY NormalizeSteps
  <1>1. \A n \in 0 .. Len(text) : L(n) \in Nat
    <2>1. ASSUME NEW n \in 0 .. Len(text) PROVE L(n) \in Nat
      <3>1. SubSeq(text, 1, n) \in Seq(R)
        BY FirstRunes
      <3>2. Normalize(SubSeq(text, 1, n)) \in Seq(Written(R))
        BY <3>1, NormalizeSteps
      <3> QED  BY <3>2
    <2> QED  BY <2>1
  <1>2. L(0) = 0
    <2>1. SubSeq(text, 1, 0) = <<>> /\ Normalize(<<>>) = <<>>
      BY FirstRunes, NormalizeSteps
    <2>2. Len(<<>>) = 0
      OBVIOUS
    <2> QED  BY <2>1, <2>2, Zenon
  <1>3. ASSUME NEW n \in 1 .. Len(text) PROVE L(n) <= L(n - 1) + 1
    <2>1. SubSeq(text, 1, n) = Append(SubSeq(text, 1, n - 1), text[n]) /\ text[n] \in R
      BY FirstRunes
    <2>2. n - 1 \in 0 .. Len(text)
      OBVIOUS
    <2>3. SubSeq(text, 1, n - 1) \in Seq(R)
      BY <2>2, FirstRunes
    <2> DEFINE f == SubSeq(text, 1, n - 1)
               z == Normalize(f)
    <2> HIDE DEF f
    <2>4. Normalize(Append(f, text[n])) = Wrote(z, text[n]) /\ z \in Seq(Written(R))
      BY <2>1, <2>3, NormalizeSteps DEF f
    <2> HIDE DEF z
    <2>5. Len(Wrote(z, text[n])) <= Len(z) + 1
      <3>1. Lowered(text[n]) \in Written(R)
        BY <2>1 DEF Written
      <3> DEFINE low == Lowered(text[n])
      <3>2. Len(Append(z, low)) = Len(z) + 1 /\ Len(z) \in Nat
        BY <2>4, <3>1, AppendProperties
      <3>3. Wrote(z, text[n]) = z \/ Wrote(z, text[n]) = Append(z, low)
        BY DEF Wrote
      <3> HIDE DEF low
      <3> QED  BY <3>2, <3>3
    <2> QED  BY <2>1, <2>4, <2>5 DEF z, f
  <1> HIDE DEF L
  <1>4. P = 0 .. Len(text)
    <2>1. 0 \in P
      <3>1. 0 \in 0 .. 0 /\ 0 \in 0 .. Len(text)
        BY <1>0
      <3> QED  BY <1>0, <1>2, <3>1
    <2>2. ASSUME NEW n \in P, n < Len(text) PROVE n + 1 \in P
      <3>1. /\ n + 1 \in 1 .. Len(text) /\ n + 1 \in 0 .. Len(text) /\ n + 1 - 1 = n
            /\ n \in 0 .. Len(text) /\ n + 1 \in 0 .. n + 1
        BY <1>0, <2>2
      <3>2. L(n + 1) <= L(n) + 1 /\ L(n) \in Nat /\ L(n + 1) \in Nat
        BY <1>1, <1>3, <3>1
      <3>3. CASE k <= L(n)
        BY <2>2, <3>1, <3>3
      <3>4. CASE ~(k <= L(n))
        <4>1. k <= L(n + 1) => L(n + 1) = k
          BY <1>0, <3>2, <3>4
        <4> QED  BY <3>1, <4>1
      <3> QED  BY <3>3, <3>4
    <2>3. P \subseteq 0 .. Len(text)
      OBVIOUS
    <2> HIDE DEF P
    <2> QED  BY <1>0, <2>1, <2>2, <2>3, InductionUpTo, Zenon
  <1>5. Len(text) \in P
    BY <1>0, <1>4
  <1>6. k <= L(Len(text))
    <2>1. L(Len(text)) = Len(Normalize(text))
      BY FirstRunes, Zenon DEF L
    <2> QED  BY <1>0, <2>1, NormalizeSteps
  <1> QED  BY <1>5, <1>6 DEF L

\* The normalized word stands in the normalized text exactly if a part of the
\* text reads as the word.
LEMMA ReadsAsPart ==
  ASSUME NEW R, NEW text \in Seq(R), NEW word \in Seq(R)
  PROVE  HasWord(Normalize(text), Normalize(word)) <=>
           \E j \in 0 .. Len(text) : \E i \in 0 .. j :
             Normalize(SubSeq(text, i + 1, j)) = Normalize(word)
  <1> DEFINE w == Normalize(word)
             all == Normalize(text)
  <1>0. /\ w \in Seq(Written(R)) /\ all \in Seq(Written(R))
        /\ Len(w) \in Nat /\ Len(all) \in Nat /\ Len(text) \in Nat
    <2>1. w \in Seq(Written(R)) /\ all \in Seq(Written(R))
      BY NormalizeSteps
    <2> HIDE DEF w, all
    <2> QED  BY <2>1
  <1>1. ASSUME NEW j \in 0 .. Len(text), NEW i \in 0 .. j
        PROVE  LET u == Normalize(SubSeq(text, 1, i))
                   p == Normalize(SubSeq(text, i + 1, j))
                   v == Normalize(SubSeq(text, j + 1, Len(text)))
               IN  /\ u \in Seq(Written(R)) /\ p \in Seq(Written(R)) /\ v \in Seq(Written(R))
                   /\ all = (u \o p) \o v /\ Normalize(SubSeq(text, 1, j)) = u \o p
    <2> DEFINE f == SubSeq(text, 1, j)
               a == SubSeq(text, 1, i)
               b == SubSeq(text, i + 1, j)
               c == SubSeq(text, j + 1, Len(text))
    <2>1. /\ f \in Seq(R) /\ c \in Seq(R) /\ Len(f) = j /\ text = f \o c
          /\ SubSeq(f, i + 1, j) = b /\ SubSeq(f, 1, i) = a
      BY SplitAt
    <2>2. i \in 0 .. Len(f)
      BY <2>1
    <2> HIDE DEF f, c
    <2>3. a \in Seq(R) /\ b \in Seq(R) /\ f = a \o b
      <3> HIDE DEF a, b
      <3> QED  BY <2>1, <2>2, SplitAt
    <2> HIDE DEF a, b
    <2>4. all = Normalize(f) \o Normalize(c) /\ Normalize(f) = Normalize(a) \o Normalize(b)
      BY <2>1, <2>3, NormalizeJoins
    <2>5. /\ Normalize(a) \in Seq(Written(R)) /\ Normalize(b) \in Seq(Written(R))
          /\ Normalize(c) \in Seq(Written(R))
      BY <2>1, <2>3, NormalizeSteps
    <2> QED  BY <2>4, <2>5, Zenon DEF a, b, c, f
  <1>2. ASSUME NEW j \in 0 .. Len(text), NEW i \in 0 .. j, Normalize(SubSeq(text, i + 1, j)) = w
        PROVE  HasWord(all, w)
    <2> DEFINE u == Normalize(SubSeq(text, 1, i))
               v == Normalize(SubSeq(text, j + 1, Len(text)))
    <2>1. u \in Seq(Written(R)) /\ v \in Seq(Written(R)) /\ all = (u \o w) \o v
      BY <1>1, <1>2, Zenon
    <2> HIDE DEF u, v, w, all
    <2>2. Len(all) = Len(u) + Len(w) + Len(v) /\ SubSeq(all, Len(u) + 1, Len(u) + Len(w)) = w
      BY <1>0, <2>1, Between
    <2>3. Len(u) \in 0 .. Len(all) - Len(w)
      BY <1>0, <2>1, <2>2
    <2> QED  BY <2>2, <2>3 DEF HasWord
  <1>3. ASSUME HasWord(all, w)
        PROVE  \E j \in 0 .. Len(text) : \E i \in 0 .. j :
                 Normalize(SubSeq(text, i + 1, j)) = w
    <2>1. PICK start \in 0 .. Len(all) - Len(w) : SubSeq(all, start + 1, start + Len(w)) = w
      BY <1>3 DEF HasWord
    <2>2. start + Len(w) \in 0 .. Len(all)
      BY <1>0
    <2>3. PICK j \in 0 .. Len(text) : Len(Normalize(SubSeq(text, 1, j))) = start + Len(w)
      <3> HIDE DEF w
      <3> QED  BY <2>2, SomeRunesWrite
    <2> DEFINE f == SubSeq(text, 1, j)
    <2>4. f \in Seq(R) /\ Len(f) = j
      BY SplitAt
    <2>5. PICK i \in 0 .. j : Len(Normalize(SubSeq(text, 1, i))) = start
      <3>1. start \in 0 .. Len(Normalize(f))
        <4> HIDE DEF w
        <4> QED  BY <1>0, <2>3
      <3>2. PICK i \in 0 .. Len(f) : Len(Normalize(SubSeq(f, 1, i))) = start
        <4> HIDE DEF f
        <4> QED  BY <2>4, <3>1, SomeRunesWrite
      <3>3. i \in 0 .. j
        BY <2>4, <3>2
      <3>4. SubSeq(f, 1, i) = SubSeq(text, 1, i)
        BY <3>3, SplitAt
      <3> QED  BY <3>2, <3>3, <3>4
    <2> DEFINE u == Normalize(SubSeq(text, 1, i))
               p == Normalize(SubSeq(text, i + 1, j))
               v == Normalize(SubSeq(text, j + 1, Len(text)))
    <2>6. /\ u \in Seq(Written(R)) /\ p \in Seq(Written(R)) /\ v \in Seq(Written(R))
          /\ all = (u \o p) \o v /\ Normalize(f) = u \o p
      BY <1>1, Zenon
    <2>7. Len(u) = start /\ Len(Normalize(f)) = start + Len(w)
      BY <2>3, <2>5
    <2> HIDE DEF u, p, v, f, w, all
    <2>8. Len(p) = Len(w)
      <3>1. Len(u \o p) = Len(u) + Len(p) /\ Len(p) \in Nat
        BY <2>6, ConcatProperties
      <3> QED  BY <1>0, <2>6, <2>7, <3>1
    <2>9. SubSeq(all, Len(u) + 1, Len(u) + Len(p)) = p
      BY <2>6, Between
    <2>10. p = w
      BY <2>1, <2>7, <2>8, <2>9
    <2> QED  BY <2>10 DEF p
  <1> HIDE DEF w, all
  <1>4. HasWord(all, w) <=> \E j \in 0 .. Len(text) : \E i \in 0 .. j :
                              Normalize(SubSeq(text, i + 1, j)) = w
    BY <1>2, <1>3, Zenon
  <1> QED  BY <1>4 DEF w, all

\* What is left of the part is what is left of the word.
ReadsAs(part, word) == Normalize(part) = Normalize(word)

Shows(text, rule) ==
  \E word \in rule.match.words : \E j \in 0 .. Len(text) : \E i \in 0 .. j :
    ReadsAs(SubSeq(text, i + 1, j), word)

\* A contains_any rule hits a text exactly if some part of the text reads as
\* one of its words when case, white space and invisible runes are dropped:
\* spacing a word out or hiding runes in it does not get it past the rule, and
\* nothing hits that no part of the text accounts for.  (A word of which nothing
\* is left reads as the part without runes, which every text has: such a rule
\* hits everything.)
THEOREM ContainsWhatReads ==
  ASSUME NEW rule \in RuleType, rule.match.type = "contains_any", NEW text \in Seq(STRING)
  PROVE  Matches(CompileRule(rule).match, text) <=> Shows(text, rule)
  <1>1. rule.match.words \in SUBSET Seq(STRING)
    BY DEF RuleType
  <1>2. /\ CompileRule(rule).match.type = "contains_any"
        /\ CompileRule(rule).match.words = {Normalize(word) : word \in rule.match.words}
    BY DEF CompileRule, RuleType
  <1>3. Matches(CompileRule(rule).match, text) <=>
          \E word \in rule.match.words : HasWord(Normalize(text), Normalize(word))
    BY <1>2 DEF Matches
  <1>4. ASSUME NEW word \in rule.match.words
        PROVE  HasWord(Normalize(text), Normalize(word)) <=>
                 \E j \in 0 .. Len(text) : \E i \in 0 .. j : ReadsAs(SubSeq(text, i + 1, j), word)
    <2>1. word \in Seq(STRING)
      BY <1>1
    <2> QED  BY <2>1, ReadsAsPart DEF ReadsAs
  <1> QED  BY <1>3, <1>4, Zenon DEF Shows

\* A request is blocked, whatever other rules say, if an enabled block rule of
\* its path has a word that a text within the scopes of the rule shows.
THEOREM ShownWordsAreBlocked ==
  ASSUME NEW c, c.rules \in Seq(RuleType), ~c.dryRun, NEW path,
         NEW payload, NEW F, payload.fragments \in Seq(F), payload.extraction = "text",
         NEW rule \in ToSet(c.rules), rule.action = "block", rule.match.type = "contains_any",
         rule.enabled, path \in rule.endpoints,
         NEW fragment \in ToSet(payload.fragments), fragment.text \in Seq(STRING),
         ScopeMatches(rule, fragment), Shows(fragment.text, rule)
  PROVE  Inspect(c, path, payload).decision = "block"
  <1>1. rule \in RuleType
    BY DEF ToSet
  <1>2. Matches(CompileRule(rule).match, fragment.text)
    BY <1>1, ContainsWhatReads
  <1>3. /\ CompileRule(rule).enabled = rule.enabled /\ CompileRule(rule).endpoints = rule.endpoints
        /\ CompileRule(rule).scopes = rule.scopes
    BY <1>1 DEF CompileRule, RuleType
  <1>4. Hits(CompileRule(rule), fragment, path)
    BY <1>2, <1>3 DEF Hits, ScopeMatches
  <1> QED  BY <1>4, BlocksIfHit, Zenon
=============================================================================
