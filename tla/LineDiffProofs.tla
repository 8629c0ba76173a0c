---------------------------- MODULE LineDiffProofs ----------------------------
(***************************************************************************)
(* Theorems about LineDiff, for every pair of files: the edit script holds *)
(* both (BothAreRebuilt), none has fewer changes (NoScriptIsShorter), and  *)
(* what is shown leaves out nothing but unchanged lines                    *)
(* (NothingElseIsHidden).                                                  *)
(*                                                                         *)
(* Lines and Position are folds: LinesUnfolds and SumUnfolds turn a fold   *)
(* into the values it has after each entry, LinesGrows and SumGrows say    *)
(* what one entry more does.                                               *)
(***************************************************************************)
EXTENDS LineDiff, InductionLemmas

-----------------------------------------------------------------------------
(* The folds of the properties, one entry after the other.                 *)

AddLine(lines, op, ps) == IF op.prefix \in ps THEN Append(lines, op.line) ELSE lines

AddHidden(sum, entry) == sum + Hides(entry)
Sum(script) == FoldLeft(AddHidden, 1, script)

LEMMA LinesUnfolds ==
  ASSUME NEW S, \A op \in S : op.line \in Text, NEW ps, NEW script \in Seq(S)
  PROVE  \E after :
           /\ after[0] = <<>>
           /\ \A n \in 1 .. Len(script) : after[n] \in Seq(Text) /\ after[n] = AddLine(after[n - 1], script[n], ps)
           /\ Lines(script, ps) = after[Len(script)]
  <1> DEFINE N == Len(script)
             T == Seq(Text)
             Step == [n \in 1 .. N |-> [t \in T |-> AddLine(t, script[n], ps)]]
             Equation(iter) ==
               iter = [s \in SUBSET (1 .. N) |->
                         IF s = {} THEN <<>>
                         ELSE AddLine(iter[s \ {Max(s)}], script[Max(s)], ps)]
             iter == CHOOSE iter : Equation(iter)
  <1>1. N \in Nat /\ DOMAIN script = 1 .. N /\ \A n \in 1 .. N : script[n] \in S
    OBVIOUS
  <1>b. <<>> \in T
    OBVIOUS
  <1>t. ASSUME NEW n \in 1 .. N, NEW t \in T PROVE AddLine(t, script[n], ps) \in T
    <2>1. script[n] \in S /\ script[n].line \in Text
      BY <1>1
    <2>2. Append(t, script[n].line) \in T
      BY <2>1
    <2> QED  BY <2>2 DEF AddLine
  <1>2. Step \in [1 .. N -> [T -> T]]
    BY <1>t
  <1>3. \E it : Equation(it)
    <2>1. PICK it \in [SUBSET (1 .. N) -> T] : Folds(it, N, <<>>, Step)
      <3> HIDE DEF N, Step, T
      <3> QED  BY <1>1, <1>2, <1>b, FoldExists
    <2>2. ASSUME NEW s \in SUBSET (1 .. N), s # {}
          PROVE  Step[Max(s)][it[s \ {Max(s)}]]
                   = AddLine(it[s \ {Max(s)}], script[Max(s)], ps)
      <3>1. Max(s) \in 1 .. N
        BY <1>1, <2>2, MaxOfSome
      <3>2. it[s \ {Max(s)}] \in T
        BY <2>1
      <3> QED  BY <3>1, <3>2
    <2>3. Equation(it)
      <3> HIDE DEF Step, N, T
      <3> QED  BY <2>1, <2>2 DEF Folds
    <2> QED  BY <2>3
  <1>4. Equation(iter)
    BY <1>3
  <1>5. Lines(script, ps) = iter[1 .. N]
    BY <1>1 DEF Lines, AddLine, FoldLeft, MapThenFoldSet
  <1> DEFINE after == [n \in 0 .. N |-> iter[1 .. n]]
  <1>6. after[0] = <<>>
    <2>1. 1 .. 0 = {}
      OBVIOUS
    <2> HIDE DEF iter
    <2> QED  BY <1>1, <1>4, <2>1
  <1>7. ASSUME NEW n \in 1 .. N
        PROVE  after[n] = AddLine(after[n - 1], script[n], ps)
    <2> HIDE DEF iter, Step, N
    <2>1. /\ 1 .. n \in SUBSET (1 .. N) /\ 1 .. n # {}
          /\ Max(1 .. n) = n /\ (1 .. n) \ {n} = 1 .. n - 1
          /\ n \in 0 .. N /\ n - 1 \in 0 .. N
      BY <1>1, MaxOfInterval
    <2>2. iter[1 .. n] = AddLine(iter[1 .. n - 1], script[n], ps)
      BY <1>4, <2>1
    <2> QED  BY <2>1, <2>2
  <1>8. Lines(script, ps) = after[N]
    BY <1>1, <1>5
  <1> HIDE DEF after, iter, Step, N, T
  <1> DEFINE P == {n \in 0 .. N : after[n] \in T}
  <1>9. 0 \in P
    <2>1. 0 \in 0 .. N
      BY <1>1
    <2> QED  BY <1>6, <1>b, <2>1
  <1>10. ASSUME NEW n \in P, n < N PROVE n + 1 \in P
    <2>1. n + 1 \in 1 .. N /\ n + 1 \in 0 .. N /\ (n + 1) - 1 = n /\ after[n] \in T
      BY <1>1, <1>10
    <2>2. after[n + 1] = AddLine(after[n], script[n + 1], ps)
      BY <1>7, <2>1
    <2>3. after[n + 1] \in T
      BY <1>t, <2>1, <2>2
    <2> QED  BY <2>1, <2>3
  <1>11. P = 0 .. N
    <2>1. P \subseteq 0 .. N
      OBVIOUS
    <2> HIDE DEF P
    <2> QED  BY <1>1, <1>9, <1>10, <2>1, InductionUpTo, Zenon
  <1>12. \A n \in 1 .. N : after[n] \in T
    BY <1>1, <1>11
  <1> QED  BY <1>6, <1>7, <1>8, <1>12 DEF N, T

LEMMA LinesOfNothing ==
  ASSUME NEW S, \A op \in S : op.line \in Text, NEW ps
  PROVE  Lines(<<>>, ps) = <<>>
  <1> DEFINE empty == <<>>
  <1>1. empty \in Seq(S) /\ Len(empty) = 0
    OBVIOUS
  <1> HIDE DEF empty
  <1>2. Lines(empty, ps) = <<>>
    BY <1>1, LinesUnfolds
  <1> QED  BY <1>2 DEF empty

LEMMA LinesGrows ==
  ASSUME NEW S, \A op \in S : op.line \in Text, NEW ps, NEW script \in Seq(S), NEW op \in S
  PROVE  /\ Lines(script, ps) \in Seq(Text)
         /\ Lines(Append(script, op), ps) = AddLine(Lines(script, ps), op, ps)
  <1> DEFINE N == Len(script)
             more == Append(script, op)
  <1>b. <<>> \in Seq(Text)
    OBVIOUS
  <1>1. PICK after :
          /\ after[0] = <<>>
          /\ \A n \in 1 .. N : after[n] \in Seq(Text) /\ after[n] = AddLine(after[n - 1], script[n], ps)
          /\ Lines(script, ps) = after[N]
    BY LinesUnfolds
  <1>2. /\ more \in Seq(S) /\ Len(more) = N + 1 /\ N \in Nat
        /\ \A n \in 1 .. N : more[n] = script[n]
        /\ more[N + 1] = op
    <2>1. more \in Seq(S) /\ Len(more) = N + 1 /\ N \in Nat
      OBVIOUS
    <2>2. \A n \in 1 .. N : more[n] = script[n]
      BY SMTT(30)
    <2>3. more[N + 1] = op
      BY SMTT(30)
    <2> QED  BY <2>1, <2>2, <2>3
  <1> HIDE DEF N, more
  <1>3. PICK next :
          /\ next[0] = <<>>
          /\ \A n \in 1 .. N + 1 : next[n] \in Seq(Text) /\ next[n] = AddLine(next[n - 1], more[n], ps)
          /\ Lines(more, ps) = next[N + 1]
    BY <1>2, LinesUnfolds
  <1> DEFINE P == {n \in 0 .. N : next[n] = after[n]}
  <1>4. 0 \in P
    BY <1>1, <1>2, <1>3
  <1>5. ASSUME NEW n \in P, n < N PROVE n + 1 \in P
    <2>1. n + 1 \in 1 .. N /\ n + 1 \in 1 .. N + 1 /\ n + 1 \in 0 .. N /\ (n + 1) - 1 = n
      BY <1>2, <1>5
    <2>2. after[n + 1] = AddLine(after[n], script[n + 1], ps)
      BY <1>1, <2>1
    <2>3. next[n + 1] = AddLine(next[n], more[n + 1], ps)
      BY <1>3, <2>1
    <2> QED  BY <1>2, <1>5, <2>1, <2>2, <2>3
  <1>6. N \in P
    <2>1. P \subseteq 0 .. N
      OBVIOUS
    <2> HIDE DEF P
    <2>2. P = 0 .. N
      BY <1>2, <1>4, <1>5, <2>1, InductionUpTo, Zenon
    <2> QED  BY <1>2, <2>2
  <1>7. next[N + 1] = AddLine(next[N], op, ps)
    <2>1. N + 1 \in 1 .. N + 1 /\ (N + 1) - 1 = N
      BY <1>2
    <2> QED  BY <1>2, <1>3, <2>1
  <1>8. next[N] = after[N]
    BY <1>6
  <1>9. after[N] \in Seq(Text)
    <2>1. CASE N = 0
      BY <1>1, <1>b, <2>1
    <2>2. CASE N # 0
      BY <1>1, <1>2, <2>2
    <2> QED  BY <2>1, <2>2
  <1> QED  BY <1>1, <1>3, <1>7, <1>8, <1>9 DEF more

LEMMA SumUnfolds ==
  ASSUME NEW S, \A entry \in S : Hides(entry) \in Nat, NEW script \in Seq(S)
  PROVE  \E after :
           /\ after[0] = 1
           /\ \A n \in 1 .. Len(script) : after[n] \in Nat /\ after[n] = AddHidden(after[n - 1], script[n])
           /\ Sum(script) = after[Len(script)]
  <1> DEFINE N == Len(script)
             T == Nat
             Step == [n \in 1 .. N |-> [t \in T |-> AddHidden(t, script[n])]]
             Equation(iter) ==
               iter = [s \in SUBSET (1 .. N) |->
                         IF s = {} THEN 1
                         ELSE AddHidden(iter[s \ {Max(s)}], script[Max(s)])]
             iter == CHOOSE iter : Equation(iter)
  <1>1. N \in Nat /\ DOMAIN script = 1 .. N /\ \A n \in 1 .. N : script[n] \in S
    OBVIOUS
  <1>b. 1 \in T
    OBVIOUS
  <1>t. ASSUME NEW n \in 1 .. N, NEW t \in T PROVE AddHidden(t, script[n]) \in T
    <2>1. script[n] \in S /\ Hides(script[n]) \in Nat
      BY <1>1
    <2> QED  BY <2>1 DEF AddHidden
  <1>2. Step \in [1 .. N -> [T -> T]]
    BY <1>t
  <1>3. \E it : Equation(it)
    <2>1. PICK it \in [SUBSET (1 .. N) -> T] : Folds(it, N, 1, Step)
      <3> HIDE DEF N, Step, T
      <3> QED  BY <1>1, <1>2, <1>b, FoldExists
    <2>2. ASSUME NEW s \in SUBSET (1 .. N), s # {}
          PROVE  Step[Max(s)][it[s \ {Max(s)}]]
                   = AddHidden(it[s \ {Max(s)}], script[Max(s)])
      <3>1. Max(s) \in 1 .. N
        BY <1>1, <2>2, MaxOfSome
      <3>2. it[s \ {Max(s)}] \in T
        BY <2>1
      <3> QED  BY <3>1, <3>2
    <2>3. Equation(it)
      <3> HIDE DEF Step, N, T
      <3> QED  BY <2>1, <2>2 DEF Folds
    <2> QED  BY <2>3
  <1>4. Equation(iter)
    BY <1>3
  <1>5. Sum(script) = iter[1 .. N]
    BY <1>1 DEF Sum, AddHidden, FoldLeft, MapThenFoldSet
  <1> DEFINE after == [n \in 0 .. N |-> iter[1 .. n]]
  <1>6. after[0] = 1
    <2>1. 1 .. 0 = {}
      OBVIOUS
    <2> HIDE DEF iter
    <2> QED  BY <1>1, <1>4, <2>1
  <1>7. ASSUME NEW n \in 1 .. N
        PROVE  after[n] = AddHidden(after[n - 1], script[n])
    <2> HIDE DEF iter, Step, N
    <2>1. /\ 1 .. n \in SUBSET (1 .. N) /\ 1 .. n # {}
          /\ Max(1 .. n) = n /\ (1 .. n) \ {n} = 1 .. n - 1
          /\ n \in 0 .. N /\ n - 1 \in 0 .. N
      BY <1>1, MaxOfInterval
    <2>2. iter[1 .. n] = AddHidden(iter[1 .. n - 1], script[n])
      BY <1>4, <2>1
    <2> QED  BY <2>1, <2>2
  <1>8. Sum(script) = after[N]
    BY <1>1, <1>5
  <1> HIDE DEF after, iter, Step, N, T
  <1> DEFINE P == {n \in 0 .. N : after[n] \in T}
  <1>9. 0 \in P
    <2>1. 0 \in 0 .. N
      BY <1>1
    <2> QED  BY <1>6, <1>b, <2>1
  <1>10. ASSUME NEW n \in P, n < N PROVE n + 1 \in P
    <2>1. n + 1 \in 1 .. N /\ n + 1 \in 0 .. N /\ (n + 1) - 1 = n /\ after[n] \in T
      BY <1>1, <1>10
    <2>2. after[n + 1] = AddHidden(after[n], script[n + 1])
      BY <1>7, <2>1
    <2>3. after[n + 1] \in T
      BY <1>t, <2>1, <2>2
    <2> QED  BY <2>1, <2>3
  <1>11. P = 0 .. N
    <2>1. P \subseteq 0 .. N
      OBVIOUS
    <2> HIDE DEF P
    <2> QED  BY <1>1, <1>9, <1>10, <2>1, InductionUpTo, Zenon
  <1>12. \A n \in 1 .. N : after[n] \in T
    BY <1>1, <1>11
  <1> QED  BY <1>6, <1>7, <1>8, <1>12 DEF N, T

LEMMA SumOfNothing ==
  ASSUME NEW S, \A entry \in S : Hides(entry) \in Nat
  PROVE  Sum(<<>>) = 1
  <1> DEFINE empty == <<>>
  <1>1. empty \in Seq(S) /\ Len(empty) = 0
    OBVIOUS
  <1> HIDE DEF empty
  <1>2. Sum(empty) = 1
    BY <1>1, SumUnfolds
  <1> QED  BY <1>2 DEF empty

LEMMA SumGrows ==
  ASSUME NEW S, \A entry \in S : Hides(entry) \in Nat, NEW script \in Seq(S), NEW entry \in S
  PROVE  /\ Sum(script) \in Nat
         /\ Sum(Append(script, entry)) = AddHidden(Sum(script), entry)
  <1> DEFINE N == Len(script)
             more == Append(script, entry)
  <1>b. 1 \in Nat
    OBVIOUS
  <1>1. PICK after :
          /\ after[0] = 1
          /\ \A n \in 1 .. N : after[n] \in Nat /\ after[n] = AddHidden(after[n - 1], script[n])
          /\ Sum(script) = after[N]
    BY SumUnfolds
  <1>2. /\ more \in Seq(S) /\ Len(more) = N + 1 /\ N \in Nat
        /\ \A n \in 1 .. N : more[n] = script[n]
        /\ more[N + 1] = entry
    OBVIOUS
  <1> HIDE DEF N, more
  <1>3. PICK next :
          /\ next[0] = 1
          /\ \A n \in 1 .. N + 1 : next[n] \in Nat /\ next[n] = AddHidden(next[n - 1], more[n])
          /\ Sum(more) = next[N + 1]
    BY <1>2, SumUnfolds
  <1> DEFINE P == {n \in 0 .. N : next[n] = after[n]}
  <1>4. 0 \in P
    BY <1>1, <1>2, <1>3
  <1>5. ASSUME NEW n \in P, n < N PROVE n + 1 \in P
    <2>1. n + 1 \in 1 .. N /\ n + 1 \in 1 .. N + 1 /\ n + 1 \in 0 .. N /\ (n + 1) - 1 = n
      BY <1>2, <1>5
    <2>2. after[n + 1] = AddHidden(after[n], script[n + 1])
      BY <1>1, <2>1
    <2>3. next[n + 1] = AddHidden(next[n], more[n + 1])
      BY <1>3, <2>1
    <2> QED  BY <1>2, <1>5, <2>1, <2>2, <2>3
  <1>6. N \in P
    <2>1. P \subseteq 0 .. N
      OBVIOUS
    <2> HIDE DEF P
    <2>2. P = 0 .. N
      BY <1>2, <1>4, <1>5, <2>1, InductionUpTo, Zenon
    <2> QED  BY <1>2, <2>2
  <1>7. next[N + 1] = AddHidden(next[N], entry)
    <2>1. N + 1 \in 1 .. N + 1 /\ (N + 1) - 1 = N
      BY <1>2
    <2> QED  BY <1>2, <1>3, <2>1
  <1>8. next[N] = after[N]
    BY <1>6
  <1>9. after[N] \in Nat
    <2>1. CASE N = 0
      BY <1>1, <1>b, <2>1
    <2>2. CASE N # 0
      BY <1>1, <1>2, <2>2
    <2> QED  BY <2>1, <2>2
  <1> QED  BY <1>1, <1>3, <1>7, <1>8, <1>9 DEF more

-----------------------------------------------------------------------------
(* The walk takes every line of both files.                                *)

Op == [prefix : {" ", "-", "+"}, line : Text]

Shape ==
  /\ current \in Seq(Text) /\ proposed \in Seq(Text)
  /\ ops \in Seq(Op)
  /\ i \in Nat /\ j \in Nat
  /\ pc \in {"fill", "walk", "squash", "done"}
  /\ pc = "fill" => ops = <<>>
  /\ pc = "walk" => i \in 1 .. Len(current) + 1 /\ j \in 1 .. Len(proposed) + 1

LEMMA OpMade ==
  ASSUME NEW prefix \in {" ", "-", "+"}, NEW line \in Text
  PROVE  LET op == [prefix |-> prefix, line |-> line]
         IN  op \in Op /\ op.prefix = prefix /\ op.line = line
  BY DEF Op

LEMMA OpLines == \A op \in Op : op.line \in Text
  BY DEF Op

LEMMA ShapeStep == Shape /\ [Next]_vars => Shape'
  <1> SUFFICES ASSUME Shape, [Next]_vars PROVE Shape'
    OBVIOUS
  <1> DEFINE N == Len(current)
             M == Len(proposed)
  <1>0. N \in Nat /\ M \in Nat
    BY DEF Shape
  <1>1. CASE Fill
    BY <1>0, <1>1 DEF Fill, files, Shape
  <1>2. CASE Filled
    <2>1. UNCHANGED <<current, proposed, ops>> /\ i' = 1 /\ j' = 1 /\ pc' = "walk"
      BY <1>2 DEF Filled, files
    <2> QED  BY <1>0, <2>1 DEF Shape
  <1>3. CASE Keep
    <2>1. UNCHANGED <<current, proposed, pc>> /\ i' = i + 1 /\ j' = j + 1 /\ pc = "walk"
      BY <1>3 DEF Keep, files
    <2>2. i <= N /\ j <= M
      BY <1>3 DEF Keep, Same, Both
    <2>3. current[i] \in Text
      BY <1>0, <2>1, <2>2 DEF Shape
    <2> DEFINE op == [prefix |-> " ", line |-> current[i]]
    <2>4. ops' = Append(ops, op)
      BY <1>3 DEF Keep, Emit
    <2>6. op \in Op
      BY <2>3, OpMade
    <2> HIDE DEF op
    <2>5. ops' \in Seq(Op)
      BY <2>4, <2>6 DEF Shape
    <2> QED  BY <1>0, <2>1, <2>2, <2>5 DEF Shape
  <1>4. CASE Delete
    <2>1. UNCHANGED <<current, proposed, pc, j>> /\ i' = i + 1 /\ pc = "walk" /\ i <= N
      BY <1>4 DEF Delete, files
    <2>3. current[i] \in Text
      BY <1>0, <2>1 DEF Shape
    <2> DEFINE op == [prefix |-> "-", line |-> current[i]]
    <2>4. ops' = Append(ops, op)
      BY <1>4 DEF Delete, Emit
    <2>6. op \in Op
      BY <2>3, OpMade
    <2> HIDE DEF op
    <2>5. ops' \in Seq(Op)
      BY <2>4, <2>6 DEF Shape
    <2> QED  BY <1>0, <2>1, <2>5 DEF Shape
  <1>5. CASE Insert
    <2>1. UNCHANGED <<current, proposed, pc, i>> /\ j' = j + 1 /\ pc = "walk" /\ j <= M
      BY <1>5 DEF Insert, files
    <2>3. proposed[j] \in Text
      BY <1>0, <2>1 DEF Shape
    <2> DEFINE op == [prefix |-> "+", line |-> proposed[j]]
    <2>4. ops' = Append(ops, op)
      BY <1>5 DEF Insert, Emit
    <2>6. op \in Op
      BY <2>3, OpMade
    <2> HIDE DEF op
    <2>5. ops' \in Seq(Op)
      BY <2>4, <2>6 DEF Shape
    <2> QED  BY <1>0, <2>1, <2>5 DEF Shape
  <1>6. CASE Walked \/ HoldEqual \/ ShowChange \/ Finish
    <2>1. /\ UNCHANGED <<current, proposed, ops, j>> /\ pc' \in {"squash", "done"}
          /\ i' \in {1, i, i + 1}
      BY <1>6 DEF Walked, HoldEqual, ShowChange, Finish, files
    <2> QED  BY <2>1 DEF Shape
  <1>7. CASE UNCHANGED vars
    BY <1>7 DEF vars, Shape
  <1> QED  BY <1>1, <1>2, <1>3, <1>4, <1>5, <1>6, <1>7 DEF Next

LEMMA SubSeqGrows ==
  ASSUME NEW S, NEW s \in Seq(S), NEW n \in 1 .. Len(s)
  PROVE  SubSeq(s, 1, n) = Append(SubSeq(s, 1, n - 1), s[n])
  OBVIOUS

\* Both files are rebuilt up to lines n and m.
Rebuilt(n, m) ==
  /\ Lines(ops, {" ", "-"}) = SubSeq(current, 1, n)
  /\ Lines(ops, {" ", "+"}) = SubSeq(proposed, 1, m)

RebuiltSoFar ==
  /\ pc = "walk" => Rebuilt(i - 1, j - 1)
  /\ pc \in {"squash", "done"} => Rebuilt(Len(current), Len(proposed))

LEMMA NoLines == \A ps : Lines(<<>>, ps) = <<>>
  BY OpLines, LinesOfNothing

LEMMA LinesOfOp ==
  ASSUME ops \in Seq(Op), NEW op \in Op, NEW ps
  PROVE  Lines(Append(ops, op), ps)
           = IF op.prefix \in ps THEN Append(Lines(ops, ps), op.line) ELSE Lines(ops, ps)
  BY OpLines, LinesGrows DEF AddLine

LEMMA RebuiltStep == Shape /\ RebuiltSoFar /\ [Next]_vars => RebuiltSoFar'
  <1> SUFFICES ASSUME Shape, RebuiltSoFar, [Next]_vars PROVE RebuiltSoFar'
    OBVIOUS
  <1> DEFINE N == Len(current)
             M == Len(proposed)
             Old(script) == Lines(script, {" ", "-"})
             New(script) == Lines(script, {" ", "+"})
  <1>0. N \in Nat /\ M \in Nat /\ ops \in Seq(Op) /\ i \in Nat /\ j \in Nat
    BY DEF Shape
  <1>r. pc = "walk" => i \in 1 .. N + 1 /\ j \in 1 .. M + 1
    BY DEF Shape
  <1>w. pc = "walk" => /\ Old(ops) = SubSeq(current, 1, i - 1)
                       /\ New(ops) = SubSeq(proposed, 1, j - 1)
    BY DEF RebuiltSoFar, Rebuilt
  <1>1. CASE Fill
    BY <1>1 DEF Fill, RebuiltSoFar
  <1>2. CASE Filled
    <2>1. pc = "fill" /\ UNCHANGED <<current, proposed, ops>> /\ i' = 1 /\ j' = 1 /\ pc' = "walk"
      BY <1>2 DEF Filled, files
    <2>2. ops' = <<>>
      BY <2>1 DEF Shape
    <2>3. Lines(ops', {" ", "-"}) = <<>> /\ Lines(ops', {" ", "+"}) = <<>>
      BY <2>2, NoLines
    <2>4. SubSeq(current', 1, i' - 1) = <<>> /\ SubSeq(proposed', 1, j' - 1) = <<>>
      BY <2>1 DEF Shape
    <2> QED  BY <2>1, <2>3, <2>4 DEF RebuiltSoFar, Rebuilt
  <1>3. CASE Keep
    <2> DEFINE op == [prefix |-> " ", line |-> current[i]]
    <2>1. UNCHANGED <<current, proposed, pc>> /\ i' = i + 1 /\ j' = j + 1 /\ pc = "walk"
      BY <1>3 DEF Keep, files
    <2>2. i \in 1 .. N /\ j \in 1 .. M /\ current[i] = proposed[j]
      <3>1. i <= N /\ j <= M /\ current[i] = proposed[j]
        BY <1>3 DEF Keep, Same, Both
      <3>2. i \in 1 .. N + 1 /\ j \in 1 .. M + 1
        BY <1>r, <2>1
      <3> QED  BY <1>0, <3>1, <3>2
    <2>3. current[i] \in Text
      BY <1>0, <2>1, <2>2 DEF Shape
    <2>4. ops' = Append(ops, op)
      BY <1>3 DEF Keep, Emit
    <2>5. op \in Op /\ op.prefix = " " /\ op.line = current[i]
      BY <2>3, OpMade
    <2> HIDE DEF op
    <2>6. Old(ops') = Append(Old(ops), current[i]) /\ New(ops') = Append(New(ops), current[i])
      BY <1>0, <2>4, <2>5, LinesOfOp
    <2>7. /\ SubSeq(current, 1, i) = Append(SubSeq(current, 1, i - 1), current[i])
          /\ SubSeq(proposed, 1, j) = Append(SubSeq(proposed, 1, j - 1), current[i])
      BY <2>2, SubSeqGrows DEF Shape
    <2>8. i' - 1 = i /\ j' - 1 = j
      BY <1>0, <2>1
    <2>9. Old(ops') = SubSeq(current', 1, i' - 1) /\ New(ops') = SubSeq(proposed', 1, j' - 1)
      BY <1>w, <2>1, <2>6, <2>7, <2>8
    <2> QED  BY <2>1, <2>9 DEF RebuiltSoFar, Rebuilt
  <1>4. CASE Delete
    <2> DEFINE op == [prefix |-> "-", line |-> current[i]]
    <2>1. UNCHANGED <<current, proposed, pc, j>> /\ i' = i + 1 /\ pc = "walk"
      BY <1>4 DEF Delete, files
    <2>2. i \in 1 .. N
      BY <1>0, <1>r, <1>4, <2>1 DEF Delete
    <2>3. current[i] \in Text
      BY <1>0, <2>1, <2>2 DEF Shape
    <2>4. ops' = Append(ops, op)
      BY <1>4 DEF Delete, Emit
    <2>5. op \in Op /\ op.prefix = "-" /\ op.line = current[i]
      BY <2>3, OpMade
    <2> HIDE DEF op
    <2>6. Old(ops') = Append(Old(ops), current[i]) /\ New(ops') = New(ops)
      BY <1>0, <2>4, <2>5, LinesOfOp
    <2>7. SubSeq(current, 1, i) = Append(SubSeq(current, 1, i - 1), current[i])
      BY <2>2, SubSeqGrows DEF Shape
    <2>8. i' - 1 = i
      BY <1>0, <2>1
    <2>9. Old(ops') = SubSeq(current', 1, i' - 1) /\ New(ops') = SubSeq(proposed', 1, j' - 1)
      BY <1>w, <2>1, <2>6, <2>7, <2>8
    <2> QED  BY <2>1, <2>9 DEF RebuiltSoFar, Rebuilt
  <1>5. CASE Insert
    <2> DEFINE op == [prefix |-> "+", line |-> proposed[j]]
    <2>1. UNCHANGED <<current, proposed, pc, i>> /\ j' = j + 1 /\ pc = "walk"
      BY <1>5 DEF Insert, files
    <2>2. j \in 1 .. M
      BY <1>0, <1>r, <1>5, <2>1 DEF Insert
    <2>3. proposed[j] \in Text
      BY <1>0, <2>1, <2>2 DEF Shape
    <2>4. ops' = Append(ops, op)
      BY <1>5 DEF Insert, Emit
    <2>5. op \in Op /\ op.prefix = "+" /\ op.line = proposed[j]
      BY <2>3, OpMade
    <2> HIDE DEF op
    <2>6. Old(ops') = Old(ops) /\ New(ops') = Append(New(ops), proposed[j])
      BY <1>0, <2>4, <2>5, LinesOfOp
    <2>7. SubSeq(proposed, 1, j) = Append(SubSeq(proposed, 1, j - 1), proposed[j])
      BY <2>2, SubSeqGrows DEF Shape
    <2>8. j' - 1 = j
      BY <1>0, <2>1
    <2>9. Old(ops') = SubSeq(current', 1, i' - 1) /\ New(ops') = SubSeq(proposed', 1, j' - 1)
      BY <1>w, <2>1, <2>6, <2>7, <2>8
    <2> QED  BY <2>1, <2>9 DEF RebuiltSoFar, Rebuilt
  <1>6. CASE Walked
    <2>1. /\ UNCHANGED <<current, proposed, ops>> /\ pc = "walk" /\ pc' = "squash"
          /\ i > N /\ j > M
      BY <1>6 DEF Walked, files
    <2>2. i - 1 = N /\ j - 1 = M
      BY <1>0, <1>r, <2>1
    <2>3. Old(ops') = SubSeq(current', 1, Len(current')) /\ New(ops') = SubSeq(proposed', 1, Len(proposed'))
      BY <1>w, <2>1, <2>2
    <2> QED  BY <2>1, <2>3 DEF RebuiltSoFar, Rebuilt
  <1>7. CASE HoldEqual \/ ShowChange \/ Finish
    <2>1. UNCHANGED <<current, proposed, ops>> /\ pc = "squash" /\ pc' \in {"squash", "done"}
      BY <1>7 DEF HoldEqual, ShowChange, Finish, files
    <2> QED  BY <2>1 DEF RebuiltSoFar, Rebuilt
  <1>8. CASE UNCHANGED vars
    BY <1>8 DEF vars, RebuiltSoFar, Rebuilt
  <1> QED  BY <1>1, <1>2, <1>3, <1>4, <1>5, <1>6, <1>7, <1>8 DEF Next

LEMMA ShapeInvariance == Spec => []Shape
  <1>1. Init => Shape
    <2> SUFFICES ASSUME Init PROVE Shape
      OBVIOUS
    <2>1. PICK p \in Pairs : current = p[1] /\ proposed = p[2]
      BY DEF Init
    <2>2. current \in Seq(Text) /\ proposed \in Seq(Text)
      BY <2>1, PairsAssumption
    <2>3. ops = <<>> /\ <<>> \in Seq(Op) /\ pc = "fill" /\ i = Len(current) /\ j = Len(proposed)
      BY DEF Init
    <2> QED  BY <2>2, <2>3 DEF Shape
  <1> QED  BY <1>1, ShapeStep, PTL DEF Spec

\* The theorem of RebuildsBoth: for files of any length, at every cell diffLines
\* has come to, what it has written is the first lines of both, no line lost,
\* doubled or out of order; at the end that is the whole of both.
THEOREM BothAreRebuilt == Spec => []RebuildsBoth
  <1>1. Init => RebuiltSoFar
    BY DEF Init, RebuiltSoFar
  <1>2. Shape /\ RebuiltSoFar => RebuildsBoth
    BY DEF RebuiltSoFar, Rebuilt, RebuildsBoth, Shape
  <1> QED  BY <1>1, <1>2, RebuiltStep, ShapeInvariance, PTL DEF Spec

-----------------------------------------------------------------------------
(* What is shown.                                                          *)

Marker(n) == [prefix |-> "@", hidden |-> n]
Shown == Op \cup {Marker(n) : n \in Nat}

\* Where in the script the entry n of what is shown begins.
Begins(shown, n) == Sum(SubSeq(shown, 1, n - 1))

Unchanged(script, k) == k \in DOMAIN script /\ script[k].prefix = " "

Stands(shown, script, n) ==
  IF shown[n].prefix = "@"
  THEN \A k \in Begins(shown, n) - 3 .. Begins(shown, n) + shown[n].hidden + 2 :
         Unchanged(script, k)
  ELSE shown[n] = script[Begins(shown, n)]

\* What is shown stands for the script up to its line p.
Covers(shown, script, p) ==
  /\ shown \in Seq(Shown)
  /\ Sum(shown) = p
  /\ \A n \in DOMAIN shown : Stands(shown, script, n)

LEMMA MarkerHides ==
  ASSUME NEW n \in Nat
  PROVE  /\ Marker(n) \in Shown /\ Marker(n).prefix = "@" /\ Marker(n).hidden = n
         /\ Hides(Marker(n)) = n
  BY DEF Marker, Shown, Hides

LEMMA OpHides ==
  ASSUME NEW op \in Op
  PROVE  op \in Shown /\ op.prefix # "@" /\ Hides(op) = 1
  BY DEF Op, Shown, Hides

LEMMA ShownHides == \A entry \in Shown : Hides(entry) \in Nat
  <1> TAKE entry \in Shown
  <1>1. CASE entry \in Op
    BY <1>1, OpHides
  <1>2. CASE entry \notin Op
    <2>1. PICK n \in Nat : entry = Marker(n)
      BY <1>2 DEF Shown
    <2> QED  BY <2>1, MarkerHides
  <1> QED  BY <1>1, <1>2

LEMMA SumOfShown ==
  ASSUME NEW shown \in Seq(Shown), NEW entry \in Shown
  PROVE  Sum(shown) \in Nat /\ Sum(Append(shown, entry)) = Sum(shown) + Hides(entry)
  BY ShownHides, SumGrows DEF AddHidden

LEMMA SumOfNone == Sum(<<>>) = 1
  BY ShownHides, SumOfNothing

\* One entry more leaves the others where they were.
LEMMA BeginsBefore ==
  ASSUME NEW shown \in Seq(Shown), NEW entry \in Shown
  PROVE  /\ \A n \in DOMAIN shown : Begins(Append(shown, entry), n) = Begins(shown, n)
         /\ Begins(Append(shown, entry), Len(shown) + 1) = Sum(shown)
         /\ Begins(shown, Len(shown) + 1) = Sum(shown)
  <1> DEFINE more == Append(shown, entry)
             N == Len(shown)
  <1>1. /\ more \in Seq(Shown) /\ Len(more) = N + 1 /\ N \in Nat /\ DOMAIN shown = 1 .. N
        /\ \A n \in 1 .. N : more[n] = shown[n]
    OBVIOUS
  <1>2. ASSUME NEW n \in 1 .. N + 1 PROVE SubSeq(more, 1, n - 1) = SubSeq(shown, 1, n - 1)
    <2> HIDE DEF more
    <2> QED  BY <1>1
  <1>3. SubSeq(shown, 1, (N + 1) - 1) = shown
    BY <1>1, SubSeqFull
  <1> HIDE DEF more, N
  <1>4. \A n \in 1 .. N : Begins(more, n) = Begins(shown, n)
    <2>1. ASSUME NEW n \in 1 .. N PROVE Begins(more, n) = Begins(shown, n)
      <3>1. n \in 1 .. N + 1
        BY <1>1
      <3>2. SubSeq(more, 1, n - 1) = SubSeq(shown, 1, n - 1)
        BY <1>2, <3>1
      <3> QED  BY <3>2 DEF Begins
    <2> QED  BY <2>1
  <1>5. Begins(more, N + 1) = Sum(shown) /\ Begins(shown, N + 1) = Sum(shown)
    <2>1. N + 1 \in 1 .. N + 1
      BY <1>1
    <2>2. SubSeq(more, 1, (N + 1) - 1) = shown
      BY <1>2, <1>3, <2>1
    <2> QED  BY <1>3, <2>2 DEF Begins
  <1> QED  BY <1>1, <1>4, <1>5 DEF more, N

\* A shown entry more, that stands for what comes next in the script.
LEMMA CoversMore ==
  ASSUME NEW shown, NEW script, NEW p, Covers(shown, script, p), NEW entry \in Shown,
         entry.prefix = "@" => \A k \in p - 3 .. p + entry.hidden + 2 : Unchanged(script, k),
         entry.prefix # "@" => entry = script[p]
  PROVE  Covers(Append(shown, entry), script, p + Hides(entry))
  <1> DEFINE more == Append(shown, entry)
             N == Len(shown)
  <1>1. shown \in Seq(Shown) /\ Sum(shown) = p /\ \A n \in DOMAIN shown : Stands(shown, script, n)
    BY DEF Covers
  <1>2. /\ more \in Seq(Shown) /\ DOMAIN shown = 1 .. N /\ N \in Nat /\ DOMAIN more = 1 .. N + 1
        /\ \A n \in 1 .. N : more[n] = shown[n]
        /\ more[N + 1] = entry
    BY <1>1
  <1>3. Sum(more) = p + Hides(entry)
    BY <1>1, SumOfShown
  <1>4. /\ \A n \in 1 .. N : Begins(more, n) = Begins(shown, n)
        /\ Begins(more, N + 1) = p
    BY <1>1, <1>2, BeginsBefore
  <1> HIDE DEF more, N
  <1>5. ASSUME NEW n \in 1 .. N PROVE Stands(more, script, n)
    BY <1>1, <1>2, <1>4 DEF Stands
  <1>6. Stands(more, script, N + 1)
    BY <1>2, <1>4 DEF Stands
  <1>7. \A n \in 1 .. N + 1 : Stands(more, script, n)
    BY <1>2, <1>5, <1>6
  <1> QED  BY <1>2, <1>3, <1>7 DEF Covers, more

LEMMA CoversOp ==
  ASSUME NEW script \in Seq(Op), NEW shown, NEW p \in 1 .. Len(script),
         Covers(shown, script, p)
  PROVE  Covers(Append(shown, script[p]), script, p + 1)
  <1>1. script[p] \in Op
    OBVIOUS
  <1>2. script[p] \in Shown /\ script[p].prefix # "@" /\ Hides(script[p]) = 1
    BY <1>1, OpHides
  <1> QED  BY <1>2, CoversMore

LEMMA CoversRun ==
  ASSUME NEW script \in Seq(Op), NEW shown, NEW p \in Nat \ {0}, NEW q \in Nat,
         p - 1 <= q, q <= Len(script), Covers(shown, script, p)
  PROVE  Covers(shown \o SubSeq(script, p, q), script, q + 1)
  <1> DEFINE N == q - (p - 1)
             part(n) == SubSeq(script, p, p - 1 + n)
             P == {n \in 0 .. N : Covers(shown \o part(n), script, p + n)}
  <1>1. N \in Nat /\ p - 1 + N = q /\ p + N = q + 1 /\ shown \in Seq(Shown)
    BY DEF Covers
  <1>2. 0 \in P
    <2>1. part(0) = <<>> /\ p + 0 = p
      OBVIOUS
    <2>2. shown \o <<>> = shown
      BY <1>1
    <2> HIDE DEF N, part
    <2>3. shown \o part(0) = shown /\ 0 \in 0 .. N
      BY <1>1, <2>1, <2>2
    <2>4. Covers(shown \o part(0), script, p + 0)
      BY <2>1, <2>3, Zenon
    <2> QED  BY <2>3, <2>4
  <1>3. ASSUME NEW n \in P, n < N PROVE n + 1 \in P
    <2>1. n \in Nat /\ n + 1 \in 0 .. N /\ p + n \in 1 .. Len(script) /\ p + (n + 1) = (p + n) + 1
      BY <1>1, <1>3
    <2>2. Covers(shown \o part(n), script, p + n)
      BY <1>3
    <2>3. part(n + 1) = Append(part(n), script[p + n]) /\ part(n) \in Seq(Op) /\ script[p + n] \in Op
      BY <2>1
    <2> HIDE DEF P, N, part
    <2>4. part(n) \in Seq(Shown) /\ script[p + n] \in Shown
      BY <2>3, OpHides DEF Shown
    <2>5. shown \o part(n + 1) = Append(shown \o part(n), script[p + n])
      <3>1. shown \o Append(part(n), script[p + n]) = Append(shown \o part(n), script[p + n])
        <4> DEFINE u == part(n)
                   e == script[p + n]
        <4>1. shown \in Seq(Shown) /\ u \in Seq(Shown) /\ e \in Shown
          BY <1>1, <2>4
        <4> HIDE DEF u, e
        <4>2. shown \o Append(u, e) = Append(shown \o u, e) /\ shown \o u \in Seq(Shown)
          BY <4>1, AppendLast, Zenon
        <4> QED  BY <4>2 DEF u, e
      <3> QED  BY <2>3, <3>1, Zenon
    <2>6. Covers(shown \o part(n + 1), script, p + (n + 1))
      BY <2>1, <2>2, <2>5, CoversOp
    <2> QED  BY <2>1, <2>6 DEF P
  <1>4. P = 0 .. N
    <2>1. P \subseteq 0 .. N
      OBVIOUS
    <2> HIDE DEF P, N
    <2> QED  BY <1>1, <1>2, <1>3, <2>1, InductionUpTo, Zenon
  <1>5. Covers(shown \o part(N), script, p + N)
    <2> HIDE DEF P, N
    <2>1. N \in P
      BY <1>1, <1>4
    <2> QED  BY <2>1 DEF P
  <1> QED  BY <1>1, <1>5

LEMMA ShownAround ==
  ASSUME NEW s \in Seq(Shown), NEW u \in Seq(Shown), NEW e \in Shown, NEW t \in Seq(Shown)
  PROVE  /\ s \o (Append(u, e) \o t) = Append(s \o u, e) \o t
         /\ Append(s \o u, e) \in Seq(Shown)
  <1> DEFINE w == Append(u, e)
  <1>1. w \in Seq(Shown)
    OBVIOUS
  <1>2. s \o w = Append(s \o u, e) /\ s \o u \in Seq(Shown)
    BY AppendLast
  <1> HIDE DEF w
  <1>3. (s \o w) \o t = s \o (w \o t) /\ s \o w \in Seq(Shown)
    BY <1>1, ConcatAssociative
  <1> QED  BY <1>2, <1>3 DEF w

AllUnchanged(script, p, q) == \A k \in p .. q : Unchanged(script, k)

LEMMA NoneUnchanged ==
  ASSUME NEW script, NEW p \in Int
  PROVE  AllUnchanged(script, p, p - 1)
  <1>1. p .. p - 1 = {}
    OBVIOUS
  <1> QED  BY <1>1 DEF AllUnchanged

LEMMA OneMoreUnchanged ==
  ASSUME NEW script, NEW p \in Int, NEW q \in Int, q >= p,
         AllUnchanged(script, p, q - 1), Unchanged(script, q)
  PROVE  AllUnchanged(script, p, q)
  <1>1. \A k \in p .. q : k \in p .. q - 1 \/ k = q
    OBVIOUS
  <1> QED  BY <1>1 DEF AllUnchanged

\* squashEqualRuns' flush: a run of unchanged lines, shortened or not.
LEMMA CoversSquashed ==
  ASSUME NEW script \in Seq(Op), NEW shown, NEW p \in Nat \ {0}, NEW q \in Nat,
         p - 1 <= q, q <= Len(script), Covers(shown, script, p),
         AllUnchanged(script, p, q)
  PROVE  Covers(shown \o Squashed(SubSeq(script, p, q)), script, q + 1)
  <1> DEFINE run == SubSeq(script, p, q)
             N == q - p + 1
             h == N - 6
             first == SubSeq(run, 1, 3)
             last == SubSeq(run, N - 2, N)
             head == SubSeq(script, p, p + 2)
             tail == SubSeq(script, q - 2, q)
  <1>1. N \in Nat /\ Len(run) = N /\ run \in Seq(Op)
    OBVIOUS
  <1>2. CASE N <= 6
    <2>1. Squashed(run) = run
      BY <1>1, <1>2 DEF Squashed
    <2> QED  BY <2>1, CoversRun
  <1>3. CASE N > 6
    <2>1. Squashed(run) = (first \o <<Marker(h)>>) \o last
      BY <1>1, <1>3 DEF Squashed, Marker
    <2>2. h \in Nat /\ p + 2 \in Nat /\ p - 1 <= p + 2 /\ p + 2 <= Len(script)
          /\ p + 3 = (p + 2) + 1 /\ q - 2 = p + 3 + h /\ q - 2 \in Nat \ {0}
      BY <1>1, <1>3
    <2>3. first = head
      BY <1>1, <1>3
    <2>4. last = tail
      BY <1>1, <1>3
    <2>5. Marker(h) \in Shown /\ Marker(h).prefix = "@" /\ Marker(h).hidden = h /\ Hides(Marker(h)) = h
      BY <2>2, MarkerHides
    <2>6. head \in Seq(Shown) /\ tail \in Seq(Shown) /\ shown \in Seq(Shown)
      <3>1. head \in Seq(Op) /\ tail \in Seq(Op)
        BY <2>2
      <3>2. Op \subseteq Shown
        BY DEF Shown
      <3>3. \A s \in Seq(Op) : s \in Seq(Shown)
        BY <3>2, SeqMonotonic
      <3> QED  BY <3>1, <3>3 DEF Covers
    <2>7. Covers(shown \o head, script, p + 3)
      <3> HIDE DEF N, h, run, first, last
      <3>1. Covers(shown \o SubSeq(script, p, p + 2), script, (p + 2) + 1)
        BY <2>2, CoversRun
      <3> QED  BY <2>2, <3>1
    <2>8. \A k \in (p + 3) - 3 .. (p + 3) + Marker(h).hidden + 2 : Unchanged(script, k)
      <3>1. (p + 3) - 3 = p /\ (p + 3) + h + 2 = q
        BY <2>2
      <3> QED  BY <2>5, <3>1 DEF AllUnchanged
    <2> HIDE DEF h, head, tail, first, last, N, run
    <2>9. Covers(Append(shown \o head, Marker(h)), script, q - 2)
      <3>1. Covers(Append(shown \o head, Marker(h)), script, (p + 3) + Hides(Marker(h)))
        BY <2>5, <2>7, <2>8, CoversMore
      <3> QED  BY <2>2, <2>5, <3>1
    <2>10. Covers(Append(shown \o head, Marker(h)) \o tail, script, q + 1)
      <3>1. (q - 2) - 1 <= q
        OBVIOUS
      <3> QED  BY <2>2, <2>9, <3>1, CoversRun DEF tail
    <2>11. shown \o Squashed(run) = Append(shown \o head, Marker(h)) \o tail
      <3> DEFINE m == Marker(h)
      <3>1. m \in Shown
        BY <2>5
      <3>2. Squashed(run) = (head \o <<m>>) \o tail
        BY <2>1, <2>3, <2>4
      <3> HIDE DEF m
      <3>3. head \o <<m>> = Append(head, m)
        BY <2>6, <3>1, AppendIsConcat
      <3>4. /\ shown \o (Append(head, m) \o tail) = Append(shown \o head, m) \o tail
            /\ Append(shown \o head, m) \in Seq(Shown)
        BY <2>6, <3>1, ShownAround, Zenon
      <3>5. shown \o Squashed(run) = Append(shown \o head, m) \o tail
        BY <3>2, <3>3, <3>4, Zenon
      <3> QED  BY <3>5 DEF m
    <2> QED  BY <2>10, <2>11 DEF run
  <1> QED  BY <1>1, <1>2, <1>3

SquashedSoFar ==
  /\ pc \in {"fill", "walk"} => out = <<>> /\ equals = <<>>
  /\ pc = "squash" =>
       \E p \in Nat \ {0} :
         /\ i <= Len(ops) + 1 /\ p <= i
         /\ equals = SubSeq(ops, p, i - 1)
         /\ Covers(out, ops, p)
         /\ AllUnchanged(ops, p, i - 1)
  /\ pc = "done" => Covers(out, ops, Len(ops) + 1)

LEMMA SquashedStep == Shape /\ SquashedSoFar /\ [Next]_vars => SquashedSoFar'
  <1> SUFFICES ASSUME Shape, SquashedSoFar, [Next]_vars PROVE SquashedSoFar'
    OBVIOUS
  <1> DEFINE N == Len(ops)
  <1>0. N \in Nat /\ ops \in Seq(Op) /\ i \in Nat
    BY DEF Shape
  <1>1. CASE Fill \/ Filled \/ Keep \/ Delete \/ Insert
    <2>1. pc \in {"fill", "walk"} /\ pc' \in {"fill", "walk"} /\ UNCHANGED <<equals, out>>
      BY <1>1 DEF Fill, Filled, Keep, Delete, Insert
    <2> QED  BY <2>1 DEF SquashedSoFar
  <1>2. CASE Walked
    <2>1. /\ pc = "walk" /\ pc' = "squash" /\ i' = 1
          /\ ops' = ops /\ out' = out /\ equals' = equals
      BY <1>2 DEF Walked
    <2>2. out' = <<>> /\ equals' = <<>>
      BY <2>1 DEF SquashedSoFar
    <2>3. Covers(<<>>, ops', 1)
      <3>1. <<>> \in Seq(Shown) /\ DOMAIN <<>> = {}
        OBVIOUS
      <3> QED  BY <3>1, SumOfNone DEF Covers
    <2>4. SubSeq(ops', 1, i' - 1) = <<>>
      BY <1>0, <2>1
    <2>5. i' <= Len(ops') + 1 /\ 1 <= i' /\ 1 \in Nat \ {0}
      BY <1>0, <2>1
    <2>6. AllUnchanged(ops', 1, i' - 1)
      <3>1. AllUnchanged(ops', 1, 1 - 1)
        BY NoneUnchanged
      <3> QED  BY <2>1, <3>1
    <2> QED  BY <2>1, <2>2, <2>3, <2>4, <2>5, <2>6 DEF SquashedSoFar
  <1>3. ASSUME pc = "squash",
               NEW p \in Nat \ {0}, i <= N + 1, p <= i, equals = SubSeq(ops, p, i - 1),
               Covers(out, ops, p), AllUnchanged(ops, p, i - 1)
        PROVE  SquashedSoFar'
    <2> HIDE DEF N
    <2>1. CASE HoldEqual
      <3>0. Unchanged(ops, i)
        <4>1. i <= Len(ops)
          BY <2>1 DEF HoldEqual
        <4>2. i >= 1
          BY <1>0, <1>3
        <4>3. i \in DOMAIN ops
          BY <1>0, <4>1, <4>2
        <4> QED  BY <2>1, <4>3 DEF HoldEqual, Unchanged
      <3>1. /\ i <= N /\ pc' = pc /\ ops' = ops /\ i' = i + 1
            /\ \/ equals' = Append(equals, ops[i]) /\ out' = out
               \/ equals' = <<>> /\ out' = out \o Squashed(Append(equals, ops[i]))
        BY <2>1 DEF HoldEqual, N
      <3>2. Append(equals, ops[i]) = SubSeq(ops, p, i)
        BY <1>0, <1>3, <3>1 DEF N
      <3>3. /\ p - 1 <= i /\ i' - 1 = i /\ i' <= N + 1 /\ p <= i' /\ i' <= i'
            /\ i' \in Nat \ {0} /\ Len(ops') = N
        BY <1>0, <1>3, <3>1 DEF N
      <3>6. AllUnchanged(ops, p, i)
        BY <1>0, <1>3, <3>0, OneMoreUnchanged
      <3>4. CASE equals' = Append(equals, ops[i]) /\ out' = out
        <4>1. equals' = SubSeq(ops', p, i' - 1) /\ Covers(out', ops', p)
              /\ AllUnchanged(ops', p, i' - 1)
          BY <1>3, <3>1, <3>2, <3>3, <3>4, <3>6
        <4> QED  BY <1>3, <3>1, <3>3, <4>1 DEF SquashedSoFar
      <3>5. CASE equals' = <<>> /\ out' = out \o Squashed(Append(equals, ops[i]))
        <4>1. Covers(out', ops', i')
          BY <1>0, <1>3, <3>1, <3>2, <3>3, <3>5, <3>6, CoversSquashed DEF N
        <4>2. SubSeq(ops', i', i' - 1) = <<>>
          BY <1>0, <3>1, <3>3
        <4>3. AllUnchanged(ops', i', i' - 1)
          <5>1. i' \in Int
            BY <3>3
          <5> QED  BY <5>1, NoneUnchanged
        <4> QED  BY <1>3, <3>1, <3>3, <3>5, <4>1, <4>2, <4>3 DEF SquashedSoFar
      <3> QED  BY <3>1, <3>4, <3>5
    <2>2. CASE ShowChange
      <3>1. /\ i <= N /\ pc' = pc /\ ops' = ops /\ i' = i + 1
            /\ equals' = <<>> /\ out' = Append(out \o Squashed(equals), ops[i])
        BY <2>2 DEF ShowChange, N
      <3>2. /\ i - 1 \in Nat /\ p - 1 <= i - 1 /\ i - 1 <= N /\ (i - 1) + 1 = i
            /\ i' <= N + 1 /\ i' <= i' /\ i' \in Nat \ {0} /\ Len(ops') = N /\ i \in 1 .. N
        BY <1>0, <1>3, <3>1 DEF N
      <3>3. Covers(out \o Squashed(equals), ops, i)
        <4>1. Covers(out \o Squashed(SubSeq(ops, p, i - 1)), ops, (i - 1) + 1)
          BY <1>0, <1>3, <3>2, CoversSquashed DEF N
        <4> QED  BY <1>3, <3>2, <4>1
      <3>4. Covers(out', ops', i')
        BY <1>0, <3>1, <3>2, <3>3, CoversOp DEF N
      <3>5. SubSeq(ops', i', i' - 1) = <<>>
        BY <1>0, <3>1, <3>2
      <3>6. AllUnchanged(ops', i', i' - 1)
        <4>1. i' \in Int
          BY <3>2
        <4> QED  BY <4>1, NoneUnchanged
      <3> QED  BY <1>3, <3>1, <3>2, <3>4, <3>5, <3>6 DEF SquashedSoFar
    <2>3. CASE Finish
      <3>1. i > N /\ pc' = "done" /\ ops' = ops /\ out' = out \o equals
        BY <2>3 DEF Finish, N
      <3>2. i - 1 = N /\ p - 1 <= N /\ Len(ops') = N
        BY <1>0, <1>3, <3>1 DEF N
      <3>3. Covers(out', ops', Len(ops') + 1)
        BY <1>0, <1>3, <3>1, <3>2, CoversRun DEF N
      <3> QED  BY <3>1, <3>3 DEF SquashedSoFar
    <2>4. CASE UNCHANGED vars
      BY <2>4 DEF vars, SquashedSoFar
    <2> QED
      BY <1>3, <2>1, <2>2, <2>3, <2>4 DEF Next, Fill, Filled, Keep, Delete, Insert, Walked
  <1>4. CASE HoldEqual \/ ShowChange \/ Finish
    <2>1. pc = "squash"
      BY <1>4 DEF HoldEqual, ShowChange, Finish
    <2> QED  BY <1>3, <2>1 DEF SquashedSoFar
  <1>5. CASE UNCHANGED vars
    BY <1>5 DEF vars, SquashedSoFar
  <1> QED  BY <1>1, <1>2, <1>4, <1>5 DEF Next

\* The theorem of OnlyUnchangedIsHidden: squashEqualRuns shows every line that
\* was removed or added, in its place, and what it leaves out for a marker are
\* unchanged lines, as many as it says, each three lines or more from a change.
THEOREM NothingElseIsHidden == Spec => []OnlyUnchangedIsHidden
  <1>1. Init => SquashedSoFar
    BY DEF Init, SquashedSoFar
  <1>2. SquashedSoFar => OnlyUnchangedIsHidden
    <2> SUFFICES ASSUME SquashedSoFar, pc = "done"
                 PROVE  /\ Position(Len(out) + 1) = Len(ops) + 1
                        /\ \A n \in DOMAIN out :
                             IF out[n].prefix = "@"
                             THEN \A k \in Position(n) - 3 .. Position(n) + out[n].hidden + 2 :
                                    k \in DOMAIN ops /\ ops[k].prefix = " "
                             ELSE out[n] = ops[Position(n)]
      BY DEF OnlyUnchangedIsHidden
    <2>1. Covers(out, ops, Len(ops) + 1)
      BY DEF SquashedSoFar
    <2>2. ASSUME NEW n PROVE Position(n) = Begins(out, n)
      BY DEF Position, Begins, Sum, AddHidden
    <2>3. Begins(out, Len(out) + 1) = Len(ops) + 1
      <3>1. Marker(0) \in Shown
        BY MarkerHides
      <3> QED  BY <2>1, <3>1, BeginsBefore DEF Covers
    <2>4. ASSUME NEW n \in DOMAIN out PROVE Stands(out, ops, n)
      BY <2>1 DEF Covers
    <2> QED  BY <2>2, <2>3, <2>4 DEF Stands, Unchanged
  <1> QED  BY <1>1, <1>2, SquashedStep, ShapeInvariance, PTL DEF Spec

-----------------------------------------------------------------------------
(* The table of longest common subsequences.                               *)

\* The loop of diffLines has been at the cell.
Ready(n, m) == pc # "fill" \/ n > i \/ (n = i /\ m > j)

\* The cell holds what its neighbours say, and at most one more than each.
Settled(n, m) ==
  /\ lcs[<<n, m>>] = Cell(n, m)
  /\ lcs[<<n, m>>] - lcs[<<n + 1, m>>] \in {0, 1}
  /\ lcs[<<n, m>>] - lcs[<<n, m + 1>>] \in {0, 1}

Table ==
  /\ lcs \in [(1 .. Len(current) + 1) \X (1 .. Len(proposed) + 1) -> Nat]
  /\ \A n \in 1 .. Len(current) + 1 : lcs[<<n, Len(proposed) + 1>>] = 0
  /\ \A m \in 1 .. Len(proposed) + 1 : lcs[<<Len(current) + 1, m>>] = 0
  /\ pc = "fill" => /\ i \in 0 .. Len(current) /\ j \in 0 .. Len(proposed)
                    /\ j = 0 => Len(proposed) = 0
  /\ \A n \in 1 .. Len(current), m \in 1 .. Len(proposed) : Ready(n, m) => Settled(n, m)

LEMMA CellSettles ==
  ASSUME NEW x \in Nat, NEW y \in Nat, NEW z \in Nat, NEW same \in BOOLEAN,
         x - z \in {0, 1}, y - z \in {0, 1}
  PROVE  LET v == IF same THEN z + 1 ELSE IF x >= y THEN x ELSE y
         IN  v \in Nat /\ v - x \in {0, 1} /\ v - y \in {0, 1}
  OBVIOUS

LEMMA TableStep == Shape /\ Table /\ [Next]_vars => Table'
  <1> SUFFICES ASSUME Shape, Table, [Next]_vars PROVE Table'
    OBVIOUS
  <1> DEFINE N == Len(current)
             M == Len(proposed)
             C == (1 .. N + 1) \X (1 .. M + 1)
  <1>0. N \in Nat /\ M \in Nat
    BY DEF Shape
  <1>1. CASE Fill
    <2>1. /\ pc = "fill" /\ pc' = pc /\ current' = current /\ proposed' = proposed
          /\ i > 0 /\ j > 0 /\ i \in 1 .. N /\ j \in 1 .. M
          /\ lcs' = [lcs EXCEPT ![<<i, j>>] = Cell(i, j)]
          /\ \/ j > 1 /\ j' = j - 1 /\ i' = i
             \/ j <= 1 /\ j' = M /\ i' = i - 1
      BY <1>0, <1>1 DEF Fill, files, Table
    <2>2. /\ lcs \in [C -> Nat]
          /\ \A n \in 1 .. N + 1 : lcs[<<n, M + 1>>] = 0
          /\ \A m \in 1 .. M + 1 : lcs[<<N + 1, m>>] = 0
      BY DEF Table
    <2>3. ASSUME NEW n \in 1 .. N, NEW m \in 1 .. M, n > i \/ (n = i /\ m > j)
          PROVE  Settled(n, m)
      BY <2>3 DEF Table, Ready
    <2> HIDE DEF N, M
    <2> DEFINE x == lcs[<<i + 1, j>>]
               y == lcs[<<i, j + 1>>]
               z == lcs[<<i + 1, j + 1>>]
               v == Cell(i, j)
    <2>4. x \in Nat /\ y \in Nat /\ z \in Nat
      BY <1>0, <2>1, <2>2
    <2>5. x - z \in {0, 1}
      <3>1. CASE i = N
        BY <1>0, <2>1, <2>2, <3>1
      <3>2. CASE i # N
        <4>1. i + 1 \in 1 .. N /\ i + 1 > i
          BY <1>0, <2>1, <3>2
        <4>2. Settled(i + 1, j)
          BY <2>1, <2>3, <4>1
        <4> QED  BY <4>2 DEF Settled
      <3> QED  BY <3>1, <3>2
    <2>6. y - z \in {0, 1}
      <3>1. CASE j = M
        BY <1>0, <2>1, <2>2, <3>1
      <3>2. CASE j # M
        <4>1. j + 1 \in 1 .. M /\ j + 1 > j
          BY <1>0, <2>1, <3>2
        <4>2. Settled(i, j + 1)
          BY <2>1, <2>3, <4>1
        <4> QED  BY <4>2 DEF Settled
      <3> QED  BY <3>1, <3>2
    <2>7. v \in Nat /\ v - x \in {0, 1} /\ v - y \in {0, 1}
      <3>1. v = IF current[i] = proposed[j] THEN z + 1 ELSE IF x >= y THEN x ELSE y
        BY DEF Cell
      <3> HIDE DEF v, x, y, z
      <3> QED  BY <2>4, <2>5, <2>6, <3>1, CellSettles
    <2>8. /\ lcs' \in [C -> Nat] /\ lcs'[<<i, j>>] = v
          /\ \A n \in 1 .. N + 1, m \in 1 .. M + 1 :
               n # i \/ m # j => lcs'[<<n, m>>] = lcs[<<n, m>>]
      <3> HIDE DEF v
      <3>1. <<i, j>> \in C
        BY <1>0, <2>1
      <3>2. lcs' = [lcs EXCEPT ![<<i, j>>] = v]
        BY <2>1 DEF v
      <3>3. ASSUME NEW n \in 1 .. N + 1, NEW m \in 1 .. M + 1, n # i \/ m # j
            PROVE  lcs'[<<n, m>>] = lcs[<<n, m>>]
        <4>1. <<n, m>> # <<i, j>> /\ <<n, m>> \in C
          BY <3>3
        <4> HIDE DEF C
        <4> QED  BY <2>2, <3>2, <4>1
      <3>4. lcs' \in [C -> Nat] /\ lcs'[<<i, j>>] = v
        <4> HIDE DEF C
        <4> QED  BY <2>2, <2>7, <3>1, <3>2
      <3> QED  BY <3>3, <3>4
    <2>9. ASSUME NEW n \in 1 .. N, NEW m \in 1 .. M, Ready(n, m)'
          PROVE  Settled(n, m)'
      <3>0. /\ n \in 1 .. N + 1 /\ n + 1 \in 1 .. N + 1
            /\ m \in 1 .. M + 1 /\ m + 1 \in 1 .. M + 1
        BY <1>0
      <3>1. CASE n = i /\ m = j
        <4>1. /\ lcs'[<<i + 1, j>>] = x /\ lcs'[<<i, j + 1>>] = y
              /\ lcs'[<<i + 1, j + 1>>] = z
          BY <1>0, <2>1, <2>8, <3>0, <3>1
        <4>2. v = IF current[i] = proposed[j] THEN z + 1 ELSE IF x >= y THEN x ELSE y
          BY DEF Cell
        <4> HIDE DEF v, x, y, z
        <4> QED  BY <2>1, <2>7, <2>8, <3>1, <4>1, <4>2 DEF Settled, Cell
      <3>2. CASE n # i \/ m # j
        <4>1. n > i \/ (n = i /\ m > j)
          BY <1>0, <2>1, <2>9, <3>2 DEF Ready
        <4>2. Settled(n, m)
          BY <2>3, <4>1
        <4>3. /\ lcs'[<<n, m>>] = lcs[<<n, m>>] /\ lcs'[<<n + 1, m>>] = lcs[<<n + 1, m>>]
              /\ lcs'[<<n, m + 1>>] = lcs[<<n, m + 1>>]
              /\ lcs'[<<n + 1, m + 1>>] = lcs[<<n + 1, m + 1>>]
          BY <1>0, <2>1, <2>8, <3>0, <4>1
        <4> QED  BY <2>1, <4>2, <4>3 DEF Settled, Cell
      <3> QED  BY <3>1, <3>2
    <2>10. /\ \A n \in 1 .. N + 1 : lcs'[<<n, M + 1>>] = 0
           /\ \A m \in 1 .. M + 1 : lcs'[<<N + 1, m>>] = 0
      BY <1>0, <2>1, <2>2, <2>8
    <2>11. i' \in 0 .. N /\ j' \in 0 .. M /\ j' # 0
      BY <1>0, <2>1
    <2>12. N' = N /\ M' = M
      BY <2>1 DEF N, M
    <2> QED  BY <2>1, <2>8, <2>9, <2>10, <2>11, <2>12 DEF Table, N, M
  <1>2. CASE Filled
    <2>1. /\ pc = "fill" /\ pc' = "walk" /\ (i = 0 \/ j = 0)
          /\ current' = current /\ proposed' = proposed /\ lcs' = lcs
      BY <1>2 DEF Filled, files
    <2>2. ASSUME NEW n \in 1 .. N, NEW m \in 1 .. M PROVE Settled(n, m)
      <3>1. Ready(n, m)
        BY <1>0, <2>1 DEF Ready, Table
      <3> QED  BY <3>1 DEF Table
    <2> QED  BY <2>1, <2>2 DEF Table, Settled, Cell
  <1>3. CASE Keep \/ Delete \/ Insert \/ Walked \/ HoldEqual \/ ShowChange \/ Finish
    <2>1. /\ pc # "fill" /\ pc' # "fill"
          /\ current' = current /\ proposed' = proposed /\ lcs' = lcs
      BY <1>3 DEF Keep, Delete, Insert, Walked, HoldEqual, ShowChange, Finish, files
    <2> QED  BY <2>1 DEF Table, Ready, Settled, Cell
  <1>4. CASE UNCHANGED vars
    BY <1>4 DEF vars, Table, Ready, Settled, Cell
  <1> QED  BY <1>1, <1>2, <1>3, <1>4 DEF Next

LEMMA TableInvariance == Spec => []Table
  <1>1. Shape /\ Init => Table
    BY DEF Init, Table, Ready, Shape
  <1> QED  BY <1>1, TableStep, ShapeInvariance, PTL DEF Spec

-----------------------------------------------------------------------------
(* Nothing in common is longer than the first cell says.                   *)

LEMMA TableFalls ==
  ASSUME Shape, Table, pc # "fill",
         NEW n \in 1 .. Len(current) + 1, NEW m \in 1 .. Len(proposed) + 1
  PROVE  /\ lcs[<<n, m>>] \in Nat
         /\ n <= Len(current) => lcs[<<n + 1, m>>] <= lcs[<<n, m>>]
         /\ m <= Len(proposed) => lcs[<<n, m + 1>>] <= lcs[<<n, m>>]
  <1> DEFINE N == Len(current)
             M == Len(proposed)
  <1>0. N \in Nat /\ M \in Nat
    BY DEF Shape
  <1>1. ASSUME NEW a \in 1 .. N + 1, NEW b \in 1 .. M + 1 PROVE lcs[<<a, b>>] \in Nat
    BY DEF Table
  <1>2. ASSUME n <= N, m <= M PROVE Settled(n, m)
    BY <1>0, <1>2 DEF Table, Ready
  <1>3. ASSUME n <= N, m = M + 1 PROVE lcs[<<n, m>>] = 0 /\ lcs[<<n + 1, m>>] = 0
    BY <1>0, <1>3 DEF Table
  <1>4. ASSUME n = N + 1, m <= M PROVE lcs[<<n, m>>] = 0 /\ lcs[<<n, m + 1>>] = 0
    BY <1>0, <1>4 DEF Table
  <1> HIDE DEF N, M
  <1>5. ASSUME n <= N PROVE lcs[<<n + 1, m>>] <= lcs[<<n, m>>]
    <2>1. n + 1 \in 1 .. N + 1 /\ n \in 1 .. N + 1 /\ m \in 1 .. M + 1
      BY <1>0, <1>5 DEF N, M
    <2>2. lcs[<<n + 1, m>>] \in Nat /\ lcs[<<n, m>>] \in Nat
      BY <1>1, <2>1
    <2>3. CASE m <= M
      BY <1>2, <1>5, <2>2, <2>3 DEF Settled
    <2>4. CASE m = M + 1
      BY <1>3, <1>5, <2>4
    <2> QED  BY <1>0, <2>1, <2>3, <2>4
  <1>6. ASSUME m <= M PROVE lcs[<<n, m + 1>>] <= lcs[<<n, m>>]
    <2>1. m + 1 \in 1 .. M + 1 /\ n \in 1 .. N + 1 /\ m \in 1 .. M + 1
      BY <1>0, <1>6 DEF N, M
    <2>2. lcs[<<n, m + 1>>] \in Nat /\ lcs[<<n, m>>] \in Nat
      BY <1>1, <2>1
    <2>3. CASE n <= N
      BY <1>2, <1>6, <2>2, <2>3 DEF Settled
    <2>4. CASE n = N + 1
      BY <1>4, <1>6, <2>4
    <2> QED  BY <1>0, <2>1, <2>3, <2>4
  <1> QED  BY <1>1, <1>5, <1>6 DEF N, M

\* No cell is less than one of the cells after it.
LEMMA TableFallsFar ==
  ASSUME Shape, Table, pc # "fill",
         NEW n \in 1 .. Len(current) + 1, NEW m \in 1 .. Len(proposed) + 1,
         NEW a \in n .. Len(current) + 1, NEW b \in m .. Len(proposed) + 1
  PROVE  lcs[<<a, b>>] <= lcs[<<n, m>>]
  <1> DEFINE N == Len(current)
             M == Len(proposed)
             down == a - n
             right == b - m
             P == {d \in 0 .. down : lcs[<<n + d, m>>] <= lcs[<<n, m>>]}
             Q == {d \in 0 .. right : lcs[<<a, m + d>>] <= lcs[<<n, m>>]}
  <1>0. N \in Nat /\ M \in Nat
    BY DEF Shape
  <1>1. /\ down \in Nat /\ right \in Nat /\ n + down = a /\ m + right = b
        /\ n + 0 = n /\ m + 0 = m /\ a \in 1 .. N + 1 /\ b \in 1 .. M + 1
    BY <1>0
  <1>2. ASSUME NEW d \in 0 .. down
        PROVE  /\ n + d \in 1 .. N + 1 /\ n + (d + 1) = (n + d) + 1
               /\ d < down => n + d <= N /\ d + 1 \in 0 .. down
    BY <1>0
  <1>3. ASSUME NEW d \in 0 .. right
        PROVE  /\ m + d \in 1 .. M + 1 /\ m + (d + 1) = (m + d) + 1
               /\ d < right => m + d <= M /\ d + 1 \in 0 .. right
    BY <1>0
  <1>4. ASSUME NEW k \in 1 .. N + 1, NEW l \in 1 .. M + 1
        PROVE  /\ lcs[<<k, l>>] \in Nat
               /\ k <= N => lcs[<<k + 1, l>>] \in Nat /\ lcs[<<k + 1, l>>] <= lcs[<<k, l>>]
               /\ l <= M => lcs[<<k, l + 1>>] \in Nat /\ lcs[<<k, l + 1>>] <= lcs[<<k, l>>]
    <2>1. k <= N => k + 1 \in 1 .. N + 1
      BY <1>0
    <2>2. l <= M => l + 1 \in 1 .. M + 1
      BY <1>0
    <2> QED  BY <2>1, <2>2, TableFalls
  <1>5. n \in 1 .. N + 1 /\ m \in 1 .. M + 1
    OBVIOUS
  <1> HIDE DEF N, M, down, right
  <1>6. down \in P
    <2>1. 0 \in P
      <3>1. 0 \in 0 .. down /\ lcs[<<n + 0, m>>] = lcs[<<n, m>>]
        BY <1>1
      <3>2. lcs[<<n, m>>] \in Nat
        BY <1>4, <1>5
      <3> QED  BY <3>1, <3>2
    <2>2. ASSUME NEW d \in P, d < down PROVE d + 1 \in P
      <3>1. /\ n + d \in 1 .. N + 1 /\ n + (d + 1) = (n + d) + 1
            /\ n + d <= N /\ d + 1 \in 0 .. down
        BY <1>2, <2>2
      <3>2. /\ lcs[<<n + d, m>>] \in Nat /\ lcs[<<(n + d) + 1, m>>] \in Nat
            /\ lcs[<<(n + d) + 1, m>>] <= lcs[<<n + d, m>>] /\ lcs[<<n, m>>] \in Nat
        BY <1>4, <1>5, <3>1
      <3>3. lcs[<<n + d, m>>] <= lcs[<<n, m>>]
        OBVIOUS
      <3>4. lcs[<<(n + d) + 1, m>>] <= lcs[<<n, m>>]
        BY <3>2, <3>3
      <3> QED  BY <3>1, <3>4
    <2>3. P \subseteq 0 .. down
      OBVIOUS
    <2> HIDE DEF P
    <2>4. P = 0 .. down
      BY <1>1, <2>1, <2>2, <2>3, InductionUpTo, Zenon
    <2> QED  BY <1>1, <2>4
  <1>7. lcs[<<a, m>>] <= lcs[<<n, m>>]
    BY <1>1, <1>6
  <1>8. right \in Q
    <2>1. 0 \in Q
      BY <1>1, <1>7
    <2>2. ASSUME NEW d \in Q, d < right PROVE d + 1 \in Q
      <3>1. /\ m + d \in 1 .. M + 1 /\ m + (d + 1) = (m + d) + 1
            /\ m + d <= M /\ d + 1 \in 0 .. right
        BY <1>3, <2>2
      <3>2. /\ lcs[<<a, m + d>>] \in Nat /\ lcs[<<a, (m + d) + 1>>] \in Nat
            /\ lcs[<<a, (m + d) + 1>>] <= lcs[<<a, m + d>>] /\ lcs[<<n, m>>] \in Nat
        BY <1>1, <1>4, <1>5, <3>1
      <3>3. lcs[<<a, m + d>>] <= lcs[<<n, m>>]
        OBVIOUS
      <3>4. lcs[<<a, (m + d) + 1>>] <= lcs[<<n, m>>]
        BY <3>2, <3>3
      <3> QED  BY <3>1, <3>4
    <2>3. Q \subseteq 0 .. right
      OBVIOUS
    <2> HIDE DEF Q
    <2>4. Q = 0 .. right
      BY <1>1, <2>1, <2>2, <2>3, InductionUpTo, Zenon
    <2> QED  BY <1>1, <2>4
  <1> QED  BY <1>1, <1>8

\* K line numbers of a file of N lines, in their order.
Chain(f, K, N) ==
  /\ f \in [1 .. K -> 1 .. N]
  /\ \A k \in 1 .. K : k < K => f[k] < f[k + 1]

LEMMA NoLongerChain ==
  ASSUME Shape, Table, pc # "fill", NEW K \in Nat, NEW f, NEW g,
         Chain(f, K, Len(current)), Chain(g, K, Len(proposed)),
         \A k \in 1 .. K : current[f[k]] = proposed[g[k]]
  PROVE  K <= lcs[<<1, 1>>]
  <1> DEFINE N == Len(current)
             M == Len(proposed)
             cell(k) == lcs[<<f[k], g[k]>>]
             P == {d \in 0 .. K : \A k \in 1 .. K : k = K + 1 - d => d <= cell(k)}
  <1>0. N \in Nat /\ M \in Nat
    BY DEF Shape
  <1>1. ASSUME NEW k \in 1 .. K
        PROVE  /\ f[k] \in 1 .. N /\ g[k] \in 1 .. M /\ current[f[k]] = proposed[g[k]]
               /\ k < K => f[k] < f[k + 1] /\ g[k] < g[k + 1]
    BY DEF Chain
  <1>2. ASSUME NEW n \in 1 .. N, NEW m \in 1 .. M, current[n] = proposed[m]
        PROVE  lcs[<<n, m>>] = lcs[<<n + 1, m + 1>>] + 1
    <2>1. Settled(n, m)
      BY DEF Table, Ready
    <2> QED  BY <1>2, <2>1 DEF Settled, Cell
  <1>3. ASSUME NEW n \in 1 .. N + 1, NEW m \in 1 .. M + 1, NEW a \in n .. N + 1, NEW b \in m .. M + 1
        PROVE  lcs[<<n, m>>] \in Nat /\ lcs[<<a, b>>] <= lcs[<<n, m>>]
    BY TableFalls, TableFallsFar
  <1> HIDE DEF N, M
  <1>10. ASSUME NEW L \in Nat, NEW a \in 1 .. L
         PROVE  a + 1 \in 1 .. L + 1 /\ \A b \in 1 .. L : a < b => b \in a + 1 .. L + 1
    OBVIOUS
  <1>4. 0 \in P
    OBVIOUS
  <1>5. ASSUME NEW d \in P, d < K PROVE d + 1 \in P
    <2> DEFINE k == K + 1 - (d + 1)
    <2>1. k \in 1 .. K /\ d + 1 \in 0 .. K /\ d \in Nat /\ (d > 0 => k < K /\ k + 1 \in 1 .. K /\ k + 1 = K + 1 - d)
      BY <1>5
    <2> HIDE DEF k
    <2>2. /\ f[k] \in 1 .. N /\ g[k] \in 1 .. M /\ f[k] + 1 \in 1 .. N + 1 /\ g[k] + 1 \in 1 .. M + 1
          /\ cell(k) = lcs[<<f[k] + 1, g[k] + 1>>] + 1
      <3>1. f[k] \in 1 .. N /\ g[k] \in 1 .. M /\ current[f[k]] = proposed[g[k]]
        BY <1>1, <2>1
      <3>2. cell(k) = lcs[<<f[k] + 1, g[k] + 1>>] + 1
        BY <1>2, <3>1
      <3>3. f[k] + 1 \in 1 .. N + 1 /\ g[k] + 1 \in 1 .. M + 1
        BY <1>0, <1>10, <3>1
      <3> QED  BY <3>1, <3>2, <3>3
    <2>3. lcs[<<f[k] + 1, g[k] + 1>>] \in Nat
      <3>1. f[k] + 1 \in f[k] + 1 .. N + 1 /\ g[k] + 1 \in g[k] + 1 .. M + 1
        BY <1>0, <2>2
      <3> QED  BY <1>3, <2>2, <3>1
    <2>4. d <= lcs[<<f[k] + 1, g[k] + 1>>]
      <3>1. CASE d = 0
        BY <2>3, <3>1
      <3>2. CASE d > 0
        <4>1. k + 1 \in 1 .. K /\ d <= cell(k + 1)
          BY <1>5, <2>1, <3>2
        <4>2. f[k + 1] \in f[k] + 1 .. N + 1 /\ g[k + 1] \in g[k] + 1 .. M + 1
          <5>1. f[k] < f[k + 1] /\ g[k] < g[k + 1]
            BY <1>1, <2>1, <3>2
          <5>2. f[k + 1] \in 1 .. N /\ g[k + 1] \in 1 .. M
            BY <1>1, <4>1
          <5>3. f[k] \in 1 .. N /\ g[k] \in 1 .. M
            BY <2>2
          <5> QED  BY <1>0, <1>10, <5>1, <5>2, <5>3
        <4>3. cell(k + 1) <= lcs[<<f[k] + 1, g[k] + 1>>]
          BY <1>3, <2>2, <4>2
        <4>4. cell(k + 1) \in Nat
          <5>1. /\ f[k + 1] \in 1 .. N + 1 /\ g[k + 1] \in 1 .. M + 1
                /\ f[k + 1] \in f[k + 1] .. N + 1 /\ g[k + 1] \in g[k + 1] .. M + 1
            BY <1>0, <1>1, <4>1
          <5> QED  BY <1>3, <5>1
        <4> HIDE DEF cell
        <4> QED  BY <2>1, <2>3, <4>1, <4>3, <4>4
      <3> QED  BY <2>1, <3>1, <3>2
    <2>5. d + 1 <= cell(k)
      BY <2>1, <2>2, <2>3, <2>4
    <2> HIDE DEF cell
    <2> QED  BY <2>1, <2>5 DEF k
  <1>6. K \in P
    <2>1. P \subseteq 0 .. K
      OBVIOUS
    <2> HIDE DEF P
    <2>2. P = 0 .. K
      BY <1>4, <1>5, <2>1, InductionUpTo, Zenon
    <2> QED  BY <2>2
  <1>7. 1 \in 1 .. N + 1 /\ 1 \in 1 .. M + 1
    BY <1>0
  <1>8. CASE K = 0
    <2>1. lcs[<<1, 1>>] \in Nat
      BY <1>3, <1>7
    <2> QED  BY <1>8, <2>1
  <1>9. CASE K # 0
    <2>1. 1 \in 1 .. K /\ 1 = K + 1 - K
      BY <1>9
    <2>2. K <= cell(1)
      BY <1>6, <2>1
    <2>3. f[1] \in 1 .. N + 1 /\ g[1] \in 1 .. M + 1
      BY <1>0, <1>1, <2>1
    <2>4. cell(1) <= lcs[<<1, 1>>] /\ lcs[<<1, 1>>] \in Nat
      BY <1>3, <1>7, <2>3
    <2>5. cell(1) \in Nat
      <3>1. f[1] \in f[1] .. N + 1 /\ g[1] \in g[1] .. M + 1
        BY <1>0, <2>3
      <3> QED  BY <1>3, <2>3, <3>1
    <2> HIDE DEF cell
    <2> QED  BY <2>2, <2>4, <2>5
  <1> QED  BY <1>8, <1>9

\* What is left of a file has the lines of a chain of its line numbers.
Marks(f, text, file, n) ==
  /\ text \in Seq(Text)
  /\ Chain(f, Len(text), n)
  /\ \A k \in 1 .. Len(text) : text[k] = file[f[k]]

LEMMA MarksOn ==
  ASSUME NEW file \in Seq(Text), NEW n \in Nat, n < Len(file), NEW text, NEW f,
         Marks(f, text, file, n)
  PROVE  /\ Marks(f, text, file, n + 1)
         /\ \E g : Marks(g, Append(text, file[n + 1]), file, n + 1)
  <1> DEFINE K == Len(text)
             line == file[n + 1]
             more == Append(text, line)
             g == [k \in 1 .. K + 1 |-> IF k <= K THEN f[k] ELSE n + 1]
  <1>0. text \in Seq(Text) /\ K \in Nat /\ line \in Text
    BY DEF Marks
  <1>1. /\ f \in [1 .. K -> 1 .. n]
        /\ \A k \in 1 .. K : k < K => f[k] < f[k + 1]
        /\ \A k \in 1 .. K : text[k] = file[f[k]]
    BY DEF Marks, Chain
  <1>2. /\ more \in Seq(Text) /\ Len(more) = K + 1 /\ more[K + 1] = line
        /\ \A k \in 1 .. K : more[k] = text[k]
    BY <1>0
  <1> HIDE DEF K, more, line
  <1>3. \A k \in 1 .. K : f[k] \in 1 .. n /\ f[k] \in 1 .. n + 1 /\ f[k] < n + 1
    BY <1>1
  <1>4. f \in [1 .. K -> 1 .. n + 1]
    BY <1>1, <1>3
  <1>5. g \in [1 .. K + 1 -> 1 .. n + 1]
    BY <1>0, <1>3
  <1>6. /\ g[K + 1] = n + 1
        /\ \A k \in 1 .. K : g[k] = f[k]
    BY <1>0
  <1> HIDE DEF g
  <1>7. ASSUME NEW k \in 1 .. K + 1, k < K + 1 PROVE g[k] < g[k + 1]
    <2>1. k \in 1 .. K
      BY <1>0, <1>7
    <2>2. CASE k = K
      BY <1>3, <1>6, <2>1, <2>2
    <2>3. CASE k < K
      <3>1. k + 1 \in 1 .. K
        BY <1>0, <2>1, <2>3
      <3> QED  BY <1>1, <1>6, <2>1, <2>3, <3>1
    <2> QED  BY <1>0, <2>1, <2>2, <2>3
  <1>8. ASSUME NEW k \in 1 .. K + 1 PROVE more[k] = file[g[k]]
    <2>1. CASE k = K + 1
      BY <1>2, <1>6, <2>1 DEF line
    <2>2. CASE k # K + 1
      <3>1. k \in 1 .. K
        BY <1>0, <2>2
      <3> QED  BY <1>1, <1>2, <1>6, <3>1
    <2> QED  BY <2>1, <2>2
  <1>9. Marks(f, text, file, n + 1)
    BY <1>0, <1>1, <1>4 DEF Marks, Chain, K
  <1>10. Marks(g, more, file, n + 1)
    BY <1>2, <1>5, <1>7, <1>8 DEF Marks, Chain
  <1> QED  BY <1>9, <1>10 DEF more, line

LEMMA ThinnedIsMarked ==
  ASSUME NEW file \in Seq(Text), NEW kept
  PROVE  \E f : Marks(f, Thinned(file, kept), file, Len(file))
  <1> DEFINE N == Len(file)
             S == [prefix : Nat, line : Text]
             numbered == [n \in DOMAIN file |-> [prefix |-> n, line |-> file[n]]]
  <1>1. /\ N \in Nat /\ DOMAIN file = 1 .. N
        /\ numbered \in Seq(S) /\ Len(numbered) = N
        /\ \A n \in 1 .. N : numbered[n].prefix = n /\ numbered[n].line = file[n]
    <2>1. N \in Nat /\ DOMAIN file = 1 .. N /\ \A n \in 1 .. N : file[n] \in Text
      OBVIOUS
    <2> HIDE DEF N
    <2>2. numbered = [n \in 1 .. N |-> [prefix |-> n, line |-> file[n]]]
      BY <2>1
    <2>3. numbered \in [1 .. N -> S]
      BY <2>1, <2>2
    <2> HIDE DEF S
    <2>4. numbered \in Seq(S)
      BY <2>1, <2>3
    <2> HIDE DEF numbered
    <2>5. Len(numbered) = N
      BY <2>1, <2>3, <2>4
    <2> QED  BY <2>1, <2>2, <2>4, <2>5
  <1>2. \A op \in S : op.line \in Text
    OBVIOUS
  <1>3. Thinned(file, kept) = Lines(numbered, kept)
    BY DEF Thinned
  <1> HIDE DEF S, numbered, N
  <1>4. PICK after :
          /\ after[0] = <<>>
          /\ \A n \in 1 .. N : /\ after[n] \in Seq(Text)
                               /\ after[n] = AddLine(after[n - 1], numbered[n], kept)
          /\ Lines(numbered, kept) = after[N]
    BY <1>1, <1>2, LinesUnfolds
  <1> DEFINE P == {n \in 0 .. N : \E f : Marks(f, after[n], file, n)}
  <1>5. 0 \in P
    <2> DEFINE f == [k \in 1 .. 0 |-> k]
    <2>1. <<>> \in Seq(Text) /\ Len(<<>>) = 0 /\ f \in [1 .. 0 -> 1 .. 0]
      OBVIOUS
    <2> HIDE DEF f
    <2>2. Marks(f, <<>>, file, 0)
      BY <2>1 DEF Marks, Chain
    <2>3. Marks(f, after[0], file, 0) /\ 0 \in 0 .. N
      BY <1>1, <1>4, <2>2
    <2> QED  BY <2>3
  <1>6. ASSUME NEW n \in P, n < N PROVE n + 1 \in P
    <2>1. n + 1 \in 1 .. N /\ n + 1 \in 0 .. N /\ (n + 1) - 1 = n /\ n \in Nat /\ n < Len(file)
      BY <1>1, <1>6 DEF N
    <2>2. PICK f : Marks(f, after[n], file, n)
      BY <1>6
    <2>3. after[n + 1] = IF n + 1 \in kept THEN Append(after[n], file[n + 1]) ELSE after[n]
      BY <1>1, <1>4, <2>1 DEF AddLine
    <2>4. \E g : Marks(g, after[n + 1], file, n + 1)
      <3>1. Marks(f, after[n], file, n + 1) /\ \E g : Marks(g, Append(after[n], file[n + 1]), file, n + 1)
        BY <2>1, <2>2, MarksOn
      <3> QED  BY <2>3, <3>1, Zenon
    <2> QED  BY <2>1, <2>4
  <1>7. N \in P
    <2>1. P \subseteq 0 .. N
      OBVIOUS
    <2> HIDE DEF P
    <2>2. P = 0 .. N
      BY <1>1, <1>5, <1>6, <2>1, InductionUpTo, Zenon
    <2> QED  BY <1>1, <2>2
  <1> QED  BY <1>3, <1>4, <1>7 DEF N

-----------------------------------------------------------------------------
(* The walk keeps as many lines as the first cell says.                    *)

Kept(script) == Len(Lines(script, {" "}))

KeptSoFar ==
  /\ pc = "walk" => Kept(ops) + lcs[<<i, j>>] = lcs[<<1, 1>>]
  /\ pc \in {"squash", "done"} => Kept(ops) = lcs[<<1, 1>>]

LEMMA LinesAreText == ops \in Seq(Op) => \A ps : Lines(ops, ps) \in Seq(Text)
  <1> SUFFICES ASSUME ops \in Seq(Op), NEW ps PROVE Lines(ops, ps) \in Seq(Text)
    OBVIOUS
  <1>1. PICK after :
          /\ after[0] = <<>>
          /\ \A n \in 1 .. Len(ops) : after[n] \in Seq(Text)
          /\ Lines(ops, ps) = after[Len(ops)]
    BY OpLines, LinesUnfolds
  <1>2. Len(ops) = 0 \/ Len(ops) \in 1 .. Len(ops)
    OBVIOUS
  <1>3. <<>> \in Seq(Text)
    OBVIOUS
  <1> QED  BY <1>1, <1>2, <1>3

LEMMA LenOfMore ==
  ASSUME NEW text \in Seq(Text), NEW line
  PROVE  Len(text) \in Nat /\ Len(Append(text, line)) = Len(text) + 1
  OBVIOUS

LEMMA KeptOfNothing == Kept(<<>>) = 0
  <1> DEFINE ps == {" "}
  <1> HIDE DEF ps
  <1>1. Len(Lines(<<>>, ps)) = 0
    BY NoLines
  <1> QED  BY <1>1 DEF Kept, ps

LEMMA KeptIsNat == ops \in Seq(Op) => Kept(ops) \in Nat
  <1> SUFFICES ASSUME ops \in Seq(Op) PROVE Kept(ops) \in Nat
    OBVIOUS
  <1> DEFINE ps == {" "}
  <1> HIDE DEF ps
  <1>1. Lines(ops, ps) \in Seq(Text)
    BY LinesAreText
  <1>2. Len(Lines(ops, ps)) \in Nat
    BY <1>1
  <1> QED  BY <1>2 DEF Kept, ps

LEMMA KeptOfOp ==
  ASSUME ops \in Seq(Op), NEW prefix \in {" ", "-", "+"}, NEW line \in Text
  PROVE  /\ Kept(ops) \in Nat
         /\ Kept(Append(ops, [prefix |-> prefix, line |-> line]))
              = IF prefix = " " THEN Kept(ops) + 1 ELSE Kept(ops)
  <1> DEFINE op == [prefix |-> prefix, line |-> line]
             ps == {" "}
             lines == Lines(ops, ps)
             more == Lines(Append(ops, op), ps)
  <1>1. op \in Op /\ op.prefix = prefix /\ op.line = line
    BY OpMade
  <1>2. prefix \in ps <=> prefix = " "
    OBVIOUS
  <1> HIDE DEF op, ps
  <1>3. more = IF prefix \in ps THEN Append(lines, line) ELSE lines
    BY <1>1, LinesOfOp
  <1>4. lines \in Seq(Text)
    BY LinesAreText
  <1> HIDE DEF lines, more
  <1>5. Len(lines) \in Nat /\ Len(Append(lines, line)) = Len(lines) + 1
    BY <1>4, LenOfMore, Zenon
  <1>6. Len(more) = IF prefix = " " THEN Len(lines) + 1 ELSE Len(lines)
    BY <1>2, <1>3, <1>5
  <1> QED  BY <1>5, <1>6 DEF Kept, lines, more, op, ps

LEMMA KeptStep == Shape /\ Table /\ KeptSoFar /\ [Next]_vars => KeptSoFar'
  <1> SUFFICES ASSUME Shape, Table, KeptSoFar, [Next]_vars PROVE KeptSoFar'
    OBVIOUS
  <1> DEFINE N == Len(current)
             M == Len(proposed)
             cell(n, m) == lcs[<<n, m>>]
  <1>0. N \in Nat /\ M \in Nat /\ ops \in Seq(Op)
    BY DEF Shape
  <1>r. pc = "walk" => i \in 1 .. N + 1 /\ j \in 1 .. M + 1
    BY DEF Shape
  <1>w. pc = "walk" => Kept(ops) + cell(i, j) = cell(1, 1)
    BY DEF KeptSoFar
  <1>c. ASSUME NEW n \in 1 .. N + 1, NEW m \in 1 .. M + 1
        PROVE  cell(n, m) \in Nat /\ (n = N + 1 \/ m = M + 1 => cell(n, m) = 0)
    BY DEF Table
  <1>d. ASSUME pc = "walk", i <= N, j <= M PROVE cell(i, j) = Cell(i, j)
    <2>1. i \in 1 .. N /\ j \in 1 .. M
      BY <1>0, <1>r, <1>d
    <2>2. Ready(i, j)
      BY <1>d DEF Ready
    <2> QED  BY <2>1, <2>2 DEF Table, Settled
  <1>1. CASE Fill
    BY <1>1 DEF Fill, KeptSoFar
  <1>2. CASE Filled
    <2>1. pc = "fill" /\ ops' = ops /\ lcs' = lcs /\ i' = 1 /\ j' = 1 /\ pc' = "walk"
      BY <1>2 DEF Filled
    <2>2. Kept(ops') = 0
      BY <2>1, KeptOfNothing DEF Shape
    <2>3. cell(1, 1) \in Nat
      BY <1>0, <1>c
    <2> QED  BY <2>1, <2>2, <2>3 DEF KeptSoFar
  <1>3. CASE Keep
    <2>1. /\ pc = "walk" /\ pc' = pc /\ lcs' = lcs /\ i' = i + 1 /\ j' = j + 1
          /\ i <= N /\ j <= M /\ current[i] = proposed[j]
      BY <1>3 DEF Keep, Same, Both
    <2>2. /\ i \in 1 .. N /\ i + 1 \in 1 .. N + 1 /\ j + 1 \in 1 .. M + 1
      BY <1>0, <1>r, <2>1
    <2>3. cell(i, j) = cell(i + 1, j + 1) + 1
      BY <1>d, <2>1 DEF Cell
    <2>4. current[i] \in Text
      BY <2>2 DEF Shape
    <2>5. Kept(ops) \in Nat /\ Kept(ops') = Kept(ops) + 1
      <3>1. ops' = Append(ops, [prefix |-> " ", line |-> current[i]])
        BY <1>3 DEF Keep, Emit
      <3> QED  BY <1>0, <2>4, <3>1, KeptOfOp
    <2>6. cell(i + 1, j + 1) \in Nat
      BY <1>c, <2>2
    <2>7. Kept(ops') + cell(i + 1, j + 1) = cell(1, 1)
      <3>1. Kept(ops) + cell(i, j) = cell(1, 1)
        BY <1>w, <2>1
      <3> HIDE DEF cell
      <3> QED  BY <2>3, <2>5, <2>6, <3>1
    <2> QED  BY <2>1, <2>7 DEF KeptSoFar
  <1>4. CASE Delete
    <2>1. /\ pc = "walk" /\ pc' = pc /\ lcs' = lcs /\ i' = i + 1 /\ j' = j /\ i <= N
          /\ j <= M => current[i] # proposed[j] /\ cell(i + 1, j) >= cell(i, j + 1)
      BY <1>4 DEF Delete, Same, Both
    <2>2. /\ i \in 1 .. N /\ i \in 1 .. N + 1 /\ i + 1 \in 1 .. N + 1
          /\ j \in 1 .. M + 1 /\ (j > M => j = M + 1)
      BY <1>0, <1>r, <2>1
    <2>3. cell(i, j) = cell(i + 1, j)
      <3>1. CASE j <= M
        BY <1>d, <2>1, <3>1 DEF Cell
      <3>2. CASE j = M + 1
        BY <1>c, <2>2, <3>2
      <3> QED  BY <1>0, <2>2, <3>1, <3>2
    <2>4. current[i] \in Text
      BY <2>2 DEF Shape
    <2>5. Kept(ops') = Kept(ops)
      <3>1. ops' = Append(ops, [prefix |-> "-", line |-> current[i]])
        BY <1>4 DEF Delete, Emit
      <3> QED  BY <1>0, <2>4, <3>1, KeptOfOp
    <2>6. Kept(ops) + cell(i, j) = cell(1, 1)
      BY <1>w, <2>1
    <2> QED  BY <2>1, <2>3, <2>5, <2>6 DEF KeptSoFar
  <1>5. CASE Insert
    <2>1. /\ pc = "walk" /\ pc' = pc /\ lcs' = lcs /\ i' = i /\ j' = j + 1 /\ j <= M
          /\ i <= N => current[i] # proposed[j] /\ cell(i + 1, j) < cell(i, j + 1)
      BY <1>5 DEF Insert, Same, Both
    <2>2. /\ j \in 1 .. M /\ j \in 1 .. M + 1 /\ j + 1 \in 1 .. M + 1
          /\ i \in 1 .. N + 1 /\ (i > N => i = N + 1)
      BY <1>0, <1>r, <2>1
    <2>3. cell(i, j) = cell(i, j + 1)
      <3>1. CASE i <= N
        <4>1. i + 1 \in 1 .. N + 1
          BY <1>0, <2>2, <3>1
        <4>2. cell(i + 1, j) \in Nat /\ cell(i, j + 1) \in Nat
          BY <1>c, <2>2, <4>1
        <4>3. cell(i, j) = IF cell(i + 1, j) >= cell(i, j + 1) THEN cell(i + 1, j) ELSE cell(i, j + 1)
          BY <1>d, <2>1, <3>1 DEF Cell
        <4> HIDE DEF cell
        <4> QED  BY <2>1, <3>1, <4>2, <4>3
      <3>2. CASE i = N + 1
        BY <1>c, <2>2, <3>2
      <3> QED  BY <1>0, <2>2, <3>1, <3>2
    <2>4. proposed[j] \in Text
      BY <2>2 DEF Shape
    <2>5. Kept(ops') = Kept(ops)
      <3>1. ops' = Append(ops, [prefix |-> "+", line |-> proposed[j]])
        BY <1>5 DEF Insert, Emit
      <3> QED  BY <1>0, <2>4, <3>1, KeptOfOp
    <2>6. Kept(ops) + cell(i, j) = cell(1, 1)
      BY <1>w, <2>1
    <2> QED  BY <2>1, <2>3, <2>5, <2>6 DEF KeptSoFar
  <1>6. CASE Walked
    <2>1. pc = "walk" /\ pc' = "squash" /\ ops' = ops /\ lcs' = lcs /\ i > N /\ j > M
      BY <1>6 DEF Walked
    <2>2. i \in 1 .. N + 1 /\ j \in 1 .. M + 1 /\ i = N + 1
      BY <1>0, <1>r, <2>1
    <2>3. cell(i, j) = 0
      BY <1>c, <2>2
    <2>4. Kept(ops) \in Nat
      BY <1>0, KeptIsNat
    <2>5. Kept(ops) + cell(i, j) = cell(1, 1)
      BY <1>w, <2>1
    <2>6. Kept(ops) = cell(1, 1)
      BY <2>3, <2>4, <2>5
    <2> QED  BY <2>1, <2>6 DEF KeptSoFar
  <1>7. CASE HoldEqual \/ ShowChange \/ Finish
    <2>1. pc = "squash" /\ pc' \in {"squash", "done"} /\ ops' = ops /\ lcs' = lcs
      BY <1>7 DEF HoldEqual, ShowChange, Finish
    <2> QED  BY <2>1 DEF KeptSoFar
  <1>8. CASE UNCHANGED vars
    BY <1>8 DEF vars, KeptSoFar
  <1> QED  BY <1>1, <1>2, <1>3, <1>4, <1>5, <1>6, <1>7, <1>8 DEF Next

\* The theorem of ChangesAreFewest: no choice of lines to remove and to add turns
\* one file into the other with fewer of them than the script of diffLines, for
\* whatever two files: its table holds the longest common subsequences.
THEOREM NoScriptIsShorter == Spec => []ChangesAreFewest
  <1>1. Init => KeptSoFar
    BY DEF Init, KeptSoFar
  <1>2. Shape /\ Table /\ KeptSoFar => ChangesAreFewest
    <2> SUFFICES ASSUME Shape, Table, KeptSoFar, pc = "done",
                        NEW common \in Thinnings(current) \cap Thinnings(proposed)
                 PROVE  Len(common) <= Len(Lines(ops, {" "}))
      BY DEF ChangesAreFewest
    <2>0. current \in Seq(Text) /\ proposed \in Seq(Text) /\ pc # "fill"
      BY DEF Shape
    <2>1. PICK f : Marks(f, common, current, Len(current))
      BY <2>0, ThinnedIsMarked DEF Thinnings
    <2>2. PICK g : Marks(g, common, proposed, Len(proposed))
      BY <2>0, ThinnedIsMarked DEF Thinnings
    <2> DEFINE K == Len(common)
    <2>3. /\ K \in Nat /\ Chain(f, K, Len(current)) /\ Chain(g, K, Len(proposed))
          /\ \A k \in 1 .. K : current[f[k]] = proposed[g[k]]
      BY <2>1, <2>2 DEF Marks
    <2> HIDE DEF K
    <2>4. K <= lcs[<<1, 1>>]
      BY <2>0, <2>3, NoLongerChain
    <2> QED  BY <2>4 DEF KeptSoFar, Kept, K
  <1> QED  BY <1>1, <1>2, KeptStep, ShapeInvariance, TableInvariance, PTL DEF Spec
=============================================================================
