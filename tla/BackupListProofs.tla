--------------------------- MODULE BackupListProofs ---------------------------
(* Theorems about BackupList, for every clock, limit, file and reason: no  *)
(* backup is overwritten, a rollback restores what it names, the backup of *)
(* the last save is offered, and a name shows the reason it was given.     *)
(* The first two rest on one fact, that a backup under way has a name of   *)
(* its own, which the clock gives it; the third on the order of the times; *)
(* the last on what every step of sanitizeBackupReason keeps readable.     *)
EXTENDS BackupList, InductionLemmas

\* Every name was given in an earlier nanosecond.
NamedBefore ==
  \A name \in Names : \E t \in 0 .. MaxClock : t < clock /\ name.id = BackupID(t)

OneOfEachName == \A m, n \in made : m.name = n.name => m.content = n.content

\* What a request carries was read from the backup it names.
ReadFrom(request) ==
  /\ request.of \subseteq Names
  /\ \A m \in made : m.name \in request.of => request.proposed \in {m.content, Torn}

SaveUnderWay ==
  save # Nothing =>
    /\ save.name \in Names
    /\ \A m \in made : m.name = save.name => m.content = file
    /\ save.asked.proposed # Torn
    /\ ReadFrom(save.asked)

Shape ==
  /\ clock \in 0 .. MaxClock
  /\ dir = [name \in Names |-> dir[name]]
  /\ shown \subseteq Names

Safe ==
  /\ Shape /\ NamedBefore /\ BackupsStay /\ OneOfEachName
  /\ ReadFrom(asked) /\ SaveUnderWay

-----------------------------------------------------------------------------
LEMMA InitSafe == Init => Safe
  BY BoundsAssumption
  DEF Init, Safe, Shape, NamedBefore, BackupsStay, OneOfEachName, ReadFrom,
      SaveUnderWay, Nothing, Names

\* The name of the next backup is new.
LEMMA FreshName ==
  ASSUME Shape, NamedBefore, NEW reason
  PROVE  Name(clock, reason) \notin Names
  <1> SUFFICES ASSUME Name(clock, reason) \in Names PROVE FALSE
    OBVIOUS
  <1>1. PICK t \in 0 .. MaxClock : t < clock /\ BackupID(clock) = BackupID(t)
    BY DEF NamedBefore, Name
  <1>2. Digits[clock] = Digits[t]
    BY <1>1 DEF BackupID
  <1> QED  BY <1>1, <1>2, BoundsAssumption DEF Shape

LEMMA ShapeStep == Shape /\ [Next]_vars => Shape'
  <1> SUFFICES ASSUME Shape, [Next]_vars PROVE Shape'
    OBVIOUS
  <1> USE BoundsAssumption
  <1>1. CASE Tick \/ Apply \/ Rollback \/ Refuse \/ WriteConfig \/ FailSave
    BY <1>1 DEF Shape, Names, Tick, Apply, Rollback, Refuse, WriteConfig, FailSave
  <1>2. CASE CreateBackup
    BY <1>2 DEF Shape, Names, CreateBackup
  <1>3. CASE WriteBackup
    BY <1>3 DEF Shape, Names, WriteBackup
  <1>4. CASE List
    <2>1. ASSUME NEW list \in Lists PROVE Range(list) \subseteq Names
      <3>1. PICK names \in SetToSeqs(Names) :
              list = [i \in {j \in DOMAIN names : j <= Limit} |-> names[i]]
        BY <2>1 DEF Lists
      <3>2. \A i \in DOMAIN names : names[i] \in Names
        BY DEF SetToSeqs
      <3> QED  BY <3>1, <3>2 DEF Range
    <2> QED  BY <1>4, <2>1 DEF Shape, Names, List
  <1>5. CASE UNCHANGED vars
    BY <1>5 DEF Shape, Names, vars
  <1> QED  BY <1>1, <1>2, <1>3, <1>4, <1>5 DEF Next

LEMMA SafeStep == Safe /\ [Next]_vars => Safe'
  <1> SUFFICES ASSUME Safe, [Next]_vars PROVE Safe'
    OBVIOUS
  <1> USE DEF Safe
  <1>0. Shape'
    BY ShapeStep
  <1>1. CASE Tick \/ Apply \/ Refuse \/ FailSave \/ List \/ UNCHANGED vars
    <2>1. /\ dir' = dir /\ made' = made /\ file' = file
          /\ clock' \in {clock, clock + 1}
          /\ asked' = asked \/ asked'.of = {}
          /\ save' = save \/ save' = Nothing
      BY <1>1 DEF Tick, Apply, Refuse, FailSave, List, vars, Nothing
    <2> QED
      BY <1>0, <2>1
      DEF Shape, NamedBefore, BackupsStay, OneOfEachName, ReadFrom, SaveUnderWay, Names
  <1>2. CASE Rollback
    <2>1. PICK name \in shown : asked' = [proposed |-> dir[name].content,
                                          reason |-> RollbackOf(name), of |-> {name}]
      BY <1>2 DEF Rollback
    <2>2. UNCHANGED <<clock, file, dir, save, made>>
      BY <1>2 DEF Rollback
    <2>3. ReadFrom(asked)'
      BY <2>1, <2>2 DEF ReadFrom, BackupsStay, Shape, Names
    <2> QED
      BY <1>0, <2>2, <2>3
      DEF NamedBefore, BackupsStay, OneOfEachName, ReadFrom, SaveUnderWay, Names
  <1>3. CASE CreateBackup
    <2> DEFINE name == Name(clock, asked.reason)
               begun == [name |-> name, content |-> file, reason |-> asked.reason]
    <2>1. name \notin Names
      BY FreshName
    <2>2. name.id = BackupID(clock)
      BY DEF Name
    <2>3. /\ dir' = [n \in Names \cup {name} |->
                      IF n = name THEN [content |-> Torn, at |-> Second(clock)]
                      ELSE dir[n]]
          /\ made' = made \cup {begun}
          /\ save' = [asked |-> asked, name |-> name]
          /\ asked' = Nothing /\ clock' = clock + 1 /\ file' = file
          /\ asked.proposed # Torn
      BY <1>3 DEF CreateBackup, Loads
    <2> HIDE DEF name
    <2>4. /\ Names' = Names \cup {name}
          /\ dir'[name].content = Torn
          /\ \A n \in Names : dir'[n] = dir[n]
      BY <2>1, <2>3 DEF Names
    <2>5. begun.name = name /\ begun.content = file
      OBVIOUS
    <2>6. \A m \in made : m.name \in Names
      BY DEF BackupsStay
    <2> HIDE DEF begun
    <2>7. NamedBefore'
      BY <2>2, <2>3, <2>4 DEF NamedBefore, Shape
    <2>8. BackupsStay'
      BY <2>3, <2>4, <2>5 DEF BackupsStay
    <2>9. OneOfEachName'
      BY <2>1, <2>3, <2>5, <2>6 DEF OneOfEachName
    <2>10. ReadFrom(asked)'
      BY <2>3, <2>4 DEF ReadFrom, Nothing
    <2>11. SaveUnderWay'
      BY <2>1, <2>3, <2>4, <2>5, <2>6 DEF SaveUnderWay, ReadFrom
    <2> QED  BY <1>0, <2>7, <2>8, <2>9, <2>10, <2>11
  <1>4. CASE WriteBackup
    <2>1. /\ save # Nothing
          /\ dir' = [dir EXCEPT ![save.name] = [content |-> file, at |-> Second(clock)]]
          /\ UNCHANGED <<clock, file, asked, save, made>>
      BY <1>4 DEF WriteBackup
    <2>2. /\ Names' = Names
          /\ dir'[save.name].content = file
          /\ \A n \in Names \ {save.name} : dir'[n] = dir[n]
      BY <2>1 DEF Shape, SaveUnderWay, Names
    <2>3. BackupsStay'
      BY <2>1, <2>2 DEF BackupsStay, SaveUnderWay
    <2> QED
      BY <1>0, <2>1, <2>2, <2>3 DEF NamedBefore, OneOfEachName, ReadFrom, SaveUnderWay
  <1>5. CASE WriteConfig
    BY <1>0, <1>5
    DEF WriteConfig, NamedBefore, BackupsStay, OneOfEachName, ReadFrom,
        SaveUnderWay, Names
  <1> QED  BY <1>1, <1>2, <1>3, <1>4, <1>5 DEF Next

LEMMA SafeInvariance == Spec => []Safe
  BY InitSafe, SafeStep, PTL DEF Spec

\* The theorem of BackupsStay: nothing that createBackup does later takes a backup
\* away or puts another content under its name, only the cut of its own save.
THEOREM BackupsAreKept == Spec => []BackupsStay
  BY SafeInvariance, PTL DEF Safe

\* The theorem of RollbackRestores: WriteConfig is the only step that changes
\* the file, and a half-written backup was refused before it.
THEOREM RollbacksRestore == Spec => RollbackRestores
  <1>1. Safe /\ [Next]_vars =>
          (file' # file => \A m \in made : m.name \in save.asked.of => file' = m.content)
    <2> SUFFICES ASSUME Safe, [Next]_vars, file' # file,
                        NEW m \in made, m.name \in save.asked.of
                 PROVE  file' = m.content
      OBVIOUS
    <2>1. WriteConfig
      BY DEF Next, vars, Tick, Apply, Rollback, Refuse, CreateBackup, WriteBackup,
             FailSave, List
    <2> QED  BY <2>1 DEF WriteConfig, Safe, SaveUnderWay, ReadFrom
  <1> QED  BY <1>1, SafeInvariance, PTL DEF Spec, RollbackRestores

-----------------------------------------------------------------------------
(* Lists offer the backup of the last save.                                *)

\* The backup under way is none but one that has been begun, the file in it is
\* the one in force, and no other was written in a later second.
Newest ==
  save # Nothing =>
    /\ \E m \in made : m.name = save.name
    /\ \A other \in Names : dir[other].at <= dir[save.name].at

Dated ==
  /\ IsFiniteSet(Names)
  /\ \A name \in Names : dir[name].at \in Nat /\ dir[name].at <= Second(clock)

LEMMA SecondsPass ==
  ASSUME NEW t \in Nat
  PROVE  Second(t) \in Nat /\ Second(t) <= Second(t + 1)
  <1>1. PerSecond \in Nat /\ PerSecond > 0
    BY BoundsAssumption
  <1> DEFINE p == PerSecond
             q == t \div p
             r == t % p
             q2 == (t + 1) \div p
             r2 == (t + 1) % p
  <1>2. /\ t = p * q + r /\ r \in 0 .. p - 1 /\ q \in Int
        /\ t + 1 = p * q2 + r2 /\ r2 \in 0 .. p - 1 /\ q2 \in Int
    BY <1>1
  <1>3. q >= 0
    BY <1>1
  <1> QED  BY <1>1, <1>2, <1>3 DEF Second

LEMMA DatedStep == Shape /\ Dated /\ Newest /\ [Next]_vars => (Dated /\ Newest)'
  <1> SUFFICES ASSUME Shape, Dated, Newest, [Next]_vars PROVE (Dated /\ Newest)'
    OBVIOUS
  <1>0. clock \in Nat /\ Second(clock) \in Nat /\ Second(clock) <= Second(clock + 1)
    <2>1. clock \in Nat
      BY BoundsAssumption DEF Shape
    <2> QED  BY <2>1, SecondsPass
  <1>t. Second(clock + 1) \in Nat
    BY <1>0, SecondsPass
  <1>1. CASE Tick
    <2>1. dir' = dir /\ made' = made /\ save' = save /\ clock' = clock + 1
      BY <1>1 DEF Tick
    <2>2. Second(clock)' = Second(clock + 1)
      BY <2>1 DEF Second
    <2> QED  BY <1>0, <1>t, <2>1, <2>2 DEF Dated, Newest, Names
  <1>2. CASE Apply \/ Rollback \/ Refuse \/ List \/ UNCHANGED vars \/ FailSave \/ WriteConfig
    <2>1. /\ dir' = dir /\ made' = made /\ clock' = clock
          /\ save' = save \/ save' = Nothing
      BY <1>2 DEF Apply, Rollback, Refuse, List, vars, FailSave, WriteConfig
    <2> QED  BY <2>1 DEF Dated, Newest, Names, Second
  <1>3. CASE CreateBackup
    <2> DEFINE name == Name(clock, asked.reason)
               begun == [name |-> name, content |-> file, reason |-> asked.reason]
    <2>1. /\ dir' = [n \in Names \cup {name} |->
                      IF n = name THEN [content |-> Torn, at |-> Second(clock)]
                      ELSE dir[n]]
          /\ made' = made \cup {begun}
          /\ save' = [asked |-> asked, name |-> name]
          /\ clock' = clock + 1
      BY <1>3 DEF CreateBackup
    <2>2. Second(clock)' = Second(clock + 1)
      BY <2>1 DEF Second
    <2> HIDE DEF name
    <2>3. /\ Names' = Names \cup {name}
          /\ dir'[name].at = Second(clock)
          /\ \A n \in Names : dir'[n].at \in {dir[n].at, Second(clock)}
      BY <2>1 DEF Names
    <2>4. IsFiniteSet(Names')
      BY <2>3, FS_AddElement DEF Dated
    <2>5. \A n \in Names' : dir'[n].at \in Nat /\ dir'[n].at <= Second(clock)
      BY <1>0, <2>3 DEF Dated
    <2>6. \A n \in Names' : dir'[n].at <= Second(clock)'
      BY <1>0, <1>t, <2>2, <2>5
    <2>7. begun.name = save'.name /\ begun \in made' /\ save'.name = name
      BY <2>1
    <2> QED  BY <2>3, <2>4, <2>5, <2>6, <2>7 DEF Dated, Newest
  <1>4. CASE WriteBackup
    <2>1. /\ save # Nothing /\ save' = save /\ clock' = clock /\ made' = made
          /\ dir' = [dir EXCEPT ![save.name] = [content |-> file, at |-> Second(clock)]]
      BY <1>4 DEF WriteBackup
    <2>2. /\ Names' = Names
          /\ \A n \in Names : dir'[n].at \in {dir[n].at, Second(clock)}
          /\ save.name \in Names => dir'[save.name].at = Second(clock)
      BY <2>1 DEF Names, Shape
    <2>3. Second(clock)' = Second(clock)
      BY <2>1 DEF Second
    <2>4. save.name \notin Names => dir' = dir
      BY <2>1 DEF Names, Shape
    <2>5. \A n \in Names : dir'[n].at \in Nat /\ dir'[n].at <= Second(clock)
      BY <1>0, <2>2 DEF Dated
    <2> QED  BY <2>1, <2>2, <2>3, <2>4, <2>5 DEF Dated, Newest
  <1> QED  BY <1>1, <1>2, <1>3, <1>4 DEF Next

\* Among neighbours no one is earlier than the next: then it is so of any two.
LEMMA InOrderThroughout ==
  ASSUME NEW N \in Nat, NEW names, DOMAIN names = 1 .. N, Len(names) = N,
         \A i \in 1 .. N : dir[names[i]].at \in Nat, InOrder(names),
         NEW k \in 1 .. N
  PROVE  \A i \in 1 .. k : dir[names[i]].at >= dir[names[k]].at
  <1> DEFINE P == {d \in 0 .. k - 1 : dir[names[k - d]].at >= dir[names[k]].at}
  <1>1. 0 \in P
    OBVIOUS
  <1>2. ASSUME NEW d \in P, d < k - 1 PROVE d + 1 \in P
    <2>1. k - (d + 1) \in 1 .. N - 1 /\ k - d \in 1 .. N /\ (k - (d + 1)) + 1 = k - d
      BY <1>2
    <2>2. dir[names[k - (d + 1)]].at >= dir[names[k - d]].at
      BY <2>1 DEF InOrder, NoEarlier
    <2> QED  BY <2>1, <2>2
  <1>3. P = 0 .. k - 1
    <2>1. P \subseteq 0 .. k - 1 /\ k - 1 \in Nat
      OBVIOUS
    <2> HIDE DEF P
    <2> QED  BY <1>1, <1>2, <2>1, InductionUpTo
  <1>4. ASSUME NEW i \in 1 .. k PROVE dir[names[i]].at >= dir[names[k]].at
    <2>1. k - i \in 0 .. k - 1 /\ k - (k - i) = i
      OBVIOUS
    <2>2. k - i \in P
      BY <1>3, <2>1
    <2> QED  BY <2>1, <2>2
  <1> QED  BY <1>4

\* Where no other file is of a later second, a list leaves the newest one out
\* only when more than Limit are of its second.
LEMMA ListOffersNewest ==
  ASSUME Dated, NEW list \in Lists, NEW newest \in Names,
         \A other \in Names : dir[other].at <= dir[newest].at,
         newest \notin Range(list)
  PROVE  Cardinality({other \in Names : dir[other].at = dir[newest].at}) > Limit
  <1> DEFINE N == Cardinality(Names)
             Same == {other \in Names : dir[other].at = dir[newest].at}
  <1>1. PICK names \in SetToSeqs(Names) :
          InOrder(names) /\ list = [i \in {j \in DOMAIN names : j <= Limit} |-> names[i]]
    BY DEF Lists
  <1>2. N \in Nat /\ IsFiniteSet(Names)
    BY FS_CardinalityType DEF Dated
  <1>3. /\ names \in [1 .. N -> Names]
        /\ \A i, j \in 1 .. N : i # j => names[i] # names[j]
    BY DEF SetToSeqs
  <1>4. Len(names) = N
    <2> HIDE DEF N
    <2> QED  BY <1>2, <1>3
  <1> HIDE DEF N
  <1>5. PICK k \in 1 .. N : names[k] = newest
    <2>1. names \in Injection(1 .. N, Names)
      BY <1>3 DEF Injection, IsInjective
    <2>2. Cardinality(1 .. N) = N
      BY <1>2, FS_Interval
    <2>3. names \in Surjection(1 .. N, Names)
      BY <1>2, <2>1, <2>2, FS_Injection DEF N
    <2> QED  BY <2>3 DEF Surjection
  <1>6. k > Limit
    <2> SUFFICES ASSUME k <= Limit PROVE FALSE
      BY <1>2, BoundsAssumption
    <2>1. k \in DOMAIN list /\ list[k] = newest
      BY <1>1, <1>3, <1>5
    <2> QED  BY <2>1 DEF Range
  <1>7. \A i \in 1 .. k : names[i] \in Same
    <2>1. \A i \in 1 .. N : dir[names[i]].at \in Nat
      BY <1>3 DEF Dated
    <2>2. \A i \in 1 .. k : dir[names[i]].at >= dir[names[k]].at
      BY <1>1, <1>2, <1>3, <1>4, <2>1, InOrderThroughout
    <2>3. \A i \in 1 .. k : i \in 1 .. N
      BY <1>2
    <2> QED  BY <1>3, <1>5, <2>1, <2>2, <2>3
  <1>8. Cardinality(1 .. k) <= Cardinality(Same) /\ IsFiniteSet(Same)
    <2>1. IsFiniteSet(Same)
      BY <1>2, FS_Subset
    <2> DEFINE first == [i \in 1 .. k |-> names[i]]
    <2>2. first \in Injection(1 .. k, Same)
      <3>1. \A i \in 1 .. k : i \in 1 .. N
        BY <1>2
      <3> HIDE DEF Same
      <3> QED  BY <1>3, <1>7, <3>1 DEF Injection, IsInjective
    <2> HIDE DEF first, Same
    <2> QED  BY <2>1, <2>2, FS_Injection
  <1>9. Cardinality(1 .. k) = k
    BY <1>2, FS_Interval
  <1>10. Cardinality(Same) \in Nat
    BY <1>8, FS_CardinalityType
  <1> HIDE DEF Same
  <1>11. Cardinality(Same) > Limit
    BY <1>2, <1>6, <1>8, <1>9, <1>10, BoundsAssumption
  <1> QED  BY <1>11 DEF Same

LEMMA DatedInvariance == Spec => [](Safe /\ Dated /\ Newest)
  <1>1. Init => Dated /\ Newest
    <2>1. Init => Names = {} /\ save = Nothing
      BY DEF Init, Names
    <2> QED  BY <2>1, FS_EmptySet DEF Dated, Newest
  <1>2. Safe /\ Dated /\ Newest /\ [Next]_vars => (Dated /\ Newest)'
    BY DatedStep DEF Safe
  <1> QED  BY <1>1, <1>2, SafeInvariance, PTL DEF Spec

\* The theorem of SaveIsReversible: what a save replaces is in a backup, whole,
\* and listBackups, which cuts its list to the newest, offers that backup until
\* the next save, unless more than Limit were written in one second.
THEOREM SavesAreReversible == Spec => SaveIsReversible
  <1>1. Safe /\ Dated /\ Newest /\ [Next]_vars =>
          (file' # file =>
             /\ dir[save.name].content = file
             /\ \A names \in Lists' :
                  \/ save.name \in Range(names)
                  \/ Cardinality({other \in Names :
                                    dir[other].at = dir[save.name].at}) > Limit)
    <2> SUFFICES ASSUME Safe, Dated, Newest, [Next]_vars, file' # file
                 PROVE  /\ dir[save.name].content = file
                        /\ \A names \in Lists' :
                             \/ save.name \in Range(names)
                             \/ Cardinality({other \in Names :
                                  dir[other].at = dir[save.name].at}) > Limit
      OBVIOUS
    <2>1. WriteConfig
      BY DEF Next, vars, Tick, Apply, Rollback, Refuse, CreateBackup, WriteBackup,
             FailSave, List
    <2>2. save # Nothing /\ dir' = dir /\ dir[save.name].content # Torn
      BY <2>1 DEF WriteConfig
    <2>3. dir[save.name].content = file
      BY <2>2 DEF Newest, Safe, BackupsStay, SaveUnderWay
    <2>4. Lists' = Lists
      BY <2>2 DEF Lists, Names, InOrder, NoEarlier
    <2>5. /\ save.name \in Names
          /\ \A other \in Names : dir[other].at <= dir[save.name].at
      BY <2>2 DEF Newest, Safe, SaveUnderWay
    <2>6. \A names \in Lists :
            \/ save.name \in Range(names)
            \/ Cardinality({other \in Names : dir[other].at = dir[save.name].at}) > Limit
      BY <2>5, ListOffersNewest
    <2> QED  BY <2>3, <2>4, <2>6
  <1> QED  BY <1>1, DatedInvariance, PTL DEF Spec, SaveIsReversible

-----------------------------------------------------------------------------
(* Names.                                                                  *)

LEMMA LoweredRune == \A rune \in Runes : Lowered(rune) \in Runes
  BY RunesAssumption DEF Lowered

\* sanitizeBackupReason's loop, one rune after the other.
LEMMA SlugUnfolds ==
  ASSUME NEW runes \in Seq(Runes)
  PROVE  \E after :
           /\ after[0] = <<>>
           /\ \A n \in 1 .. Len(runes) : after[n] = WriteRune(after[n - 1], runes[n])
           /\ FoldLeft(WriteRune, <<>>, runes) = after[Len(runes)]
  <1> DEFINE N == Len(runes)
             T == Seq(Runes)
             Step == [n \in 1 .. N |-> [t \in T |-> WriteRune(t, runes[n])]]
             Equation(iter) ==
               iter = [s \in SUBSET (1 .. N) |->
                         IF s = {} THEN <<>>
                         ELSE WriteRune(iter[s \ {Max(s)}], runes[Max(s)])]
             iter == CHOOSE iter : Equation(iter)
  <1>1. N \in Nat /\ DOMAIN runes = 1 .. N
    OBVIOUS
  <1>2. Step \in [1 .. N -> [T -> T]]
    <2>1. ASSUME NEW n \in 1 .. N, NEW t \in T PROVE WriteRune(t, runes[n]) \in T
      <3>1. runes[n] \in Runes /\ "-" \in Runes
        <4>1. "-" \in Runes
          BY RunesAssumption
        <4> QED  BY <1>1, <4>1
      <3>2. Lowered(runes[n]) \in Runes
        BY <3>1, LoweredRune
      <3>3. Append(t, Lowered(runes[n])) \in T /\ Append(t, "-") \in T
        BY <3>1, <3>2
      <3> QED  BY <3>3 DEF WriteRune
    <2> QED  BY <2>1
  <1>3. \E it : Equation(it)
    <2>1. PICK it \in [SUBSET (1 .. N) -> T] : Folds(it, N, <<>>, Step)
      <3>1. <<>> \in T
        OBVIOUS
      <3> HIDE DEF N, Step, T
      <3> QED  BY <1>1, <1>2, <3>1, FoldExists
    <2>2. ASSUME NEW s \in SUBSET (1 .. N), s # {}
          PROVE  Step[Max(s)][it[s \ {Max(s)}]]
                   = WriteRune(it[s \ {Max(s)}], runes[Max(s)])
      <3>1. Max(s) \in 1 .. N
        BY <1>1, <2>2, MaxOfSome
      <3>2. it[s \ {Max(s)}] \in T
        BY <2>1
      <3> QED  BY <3>1, <3>2
    <2>3. Equation(it)
      <3> HIDE DEF Step, N, T
      <3> QED  BY <2>1, <2>2 DEF Folds
    <2> QED  BY <2>3
  <1>4. Equation(iter)
    BY <1>3
  <1>5. FoldLeft(WriteRune, <<>>, runes) = iter[1 .. N]
    BY <1>1 DEF Readable, FoldLeft, MapThenFoldSet
  <1> DEFINE after == [n \in 0 .. N |-> iter[1 .. n]]
  <1>6. after[0] = <<>>
    <2>1. 1 .. 0 = {}
      OBVIOUS
    <2> HIDE DEF iter
    <2> QED  BY <1>1, <1>4, <2>1
  <1>7. ASSUME NEW n \in 1 .. N
        PROVE  after[n] = WriteRune(after[n - 1], runes[n])
    <2> HIDE DEF iter, Step, N
    <2>1. /\ 1 .. n \in SUBSET (1 .. N) /\ 1 .. n # {}
          /\ Max(1 .. n) = n /\ (1 .. n) \ {n} = 1 .. n - 1
          /\ n \in 0 .. N /\ n - 1 \in 0 .. N
      BY <1>1, MaxOfInterval
    <2>2. iter[1 .. n] = WriteRune(iter[1 .. n - 1], runes[n])
      BY <1>4, <2>1
    <2> QED  BY <2>1, <2>2
  <1>8. FoldLeft(WriteRune, <<>>, runes) = after[N]
    BY <1>1, <1>5
  <1> HIDE DEF after
  <1> QED  BY <1>6, <1>7, <1>8

LEMMA ReadUnfolds ==
  ASSUME NEW runes \in Seq(Runes)
  PROVE  \E after :
           /\ after[0] = <<>>
           /\ \A n \in 1 .. Len(runes) : after[n] = ReadRune(after[n - 1], runes[n])
           /\ Readable(runes) = after[Len(runes)]
  <1> DEFINE N == Len(runes)
             T == Seq(Runes)
             Step == [n \in 1 .. N |-> [t \in T |-> ReadRune(t, runes[n])]]
             Equation(iter) ==
               iter = [s \in SUBSET (1 .. N) |->
                         IF s = {} THEN <<>>
                         ELSE ReadRune(iter[s \ {Max(s)}], runes[Max(s)])]
             iter == CHOOSE iter : Equation(iter)
  <1>1. N \in Nat /\ DOMAIN runes = 1 .. N
    OBVIOUS
  <1>2. Step \in [1 .. N -> [T -> T]]
    <2>1. ASSUME NEW n \in 1 .. N, NEW t \in T PROVE ReadRune(t, runes[n]) \in T
      BY DEF ReadRune
    <2> QED  BY <2>1
  <1>3. \E it : Equation(it)
    <2>1. PICK it \in [SUBSET (1 .. N) -> T] : Folds(it, N, <<>>, Step)
      <3>1. <<>> \in T
        OBVIOUS
      <3> HIDE DEF N, Step, T
      <3> QED  BY <1>1, <1>2, <3>1, FoldExists
    <2>2. ASSUME NEW s \in SUBSET (1 .. N), s # {}
          PROVE  Step[Max(s)][it[s \ {Max(s)}]]
                   = ReadRune(it[s \ {Max(s)}], runes[Max(s)])
      <3>1. Max(s) \in 1 .. N
        BY <1>1, <2>2, MaxOfSome
      <3>2. it[s \ {Max(s)}] \in T
        BY <2>1
      <3> QED  BY <3>1, <3>2
    <2>3. Equation(it)
      <3> HIDE DEF Step, N, T
      <3> QED  BY <2>1, <2>2 DEF Folds
    <2> QED  BY <2>3
  <1>4. Equation(iter)
    BY <1>3
  <1>5. Readable(runes) = iter[1 .. N]
    BY <1>1 DEF Readable, FoldLeft, MapThenFoldSet
  <1> DEFINE after == [n \in 0 .. N |-> iter[1 .. n]]
  <1>6. after[0] = <<>>
    <2>1. 1 .. 0 = {}
      OBVIOUS
    <2> HIDE DEF iter
    <2> QED  BY <1>1, <1>4, <2>1
  <1>7. ASSUME NEW n \in 1 .. N
        PROVE  after[n] = ReadRune(after[n - 1], runes[n])
    <2> HIDE DEF iter, Step, N
    <2>1. /\ 1 .. n \in SUBSET (1 .. N) /\ 1 .. n # {}
          /\ Max(1 .. n) = n /\ (1 .. n) \ {n} = 1 .. n - 1
          /\ n \in 0 .. N /\ n - 1 \in 0 .. N
      BY <1>1, MaxOfInterval
    <2>2. iter[1 .. n] = ReadRune(iter[1 .. n - 1], runes[n])
      BY <1>4, <2>1
    <2> QED  BY <2>1, <2>2
  <1>8. Readable(runes) = after[N]
    BY <1>1, <1>5
  <1> HIDE DEF after
  <1> QED  BY <1>6, <1>7, <1>8

LEMMA ReadIsRunes ==
  ASSUME NEW runes \in Seq(Runes)
  PROVE  Readable(runes) \in Seq(Runes)
  <1> DEFINE N == Len(runes)
  <1>1. PICK after :
          /\ after[0] = <<>>
          /\ \A n \in 1 .. N : after[n] = ReadRune(after[n - 1], runes[n])
          /\ Readable(runes) = after[N]
    BY ReadUnfolds
  <1>2. N \in Nat /\ \A n \in 1 .. N : runes[n] \in Runes
    OBVIOUS
  <1> DEFINE P == {n \in 0 .. N : after[n] \in Seq(Runes)}
  <1> HIDE DEF N
  <1>3. 0 \in P
    <2>1. <<>> \in Seq(Runes)
      OBVIOUS
    <2>2. 0 \in 0 .. N
      BY <1>2
    <2> QED  BY <1>1, <2>1, <2>2
  <1>4. ASSUME NEW n \in P, n < N PROVE n + 1 \in P
    <2>1. n + 1 \in 1 .. N /\ n + 1 \in 0 .. N /\ after[n] \in Seq(Runes) /\ (n + 1) - 1 = n
      BY <1>2, <1>4
    <2>2. after[n + 1] = ReadRune(after[n], runes[n + 1])
      BY <1>1, <2>1
    <2>3. after[n + 1] \in Seq(Runes)
      BY <1>2, <2>1, <2>2 DEF ReadRune
    <2> QED  BY <2>1, <2>3
  <1>5. N \in P
    <2>1. P \subseteq 0 .. N
      OBVIOUS
    <2> HIDE DEF P
    <2>2. P = 0 .. N
      BY <1>2, <1>3, <1>4, <2>1, InductionUpTo, Zenon
    <2> QED  BY <1>2, <2>2
  <1> QED  BY <1>1, <1>5

LEMMA ReadAppended ==
  ASSUME NEW runes \in Seq(Runes), NEW rune \in Runes
  PROVE  Readable(Append(runes, rune)) = ReadRune(Readable(runes), rune)
  <1> DEFINE N == Len(runes)
             more == Append(runes, rune)
  <1>1. PICK after :
          /\ after[0] = <<>>
          /\ \A n \in 1 .. N : after[n] = ReadRune(after[n - 1], runes[n])
          /\ Readable(runes) = after[N]
    BY ReadUnfolds
  <1>2. /\ more \in Seq(Runes) /\ Len(more) = N + 1 /\ N \in Nat
        /\ \A n \in 1 .. N : more[n] = runes[n]
        /\ more[N + 1] = rune
    OBVIOUS
  <1> HIDE DEF N, more
  <1>3. PICK next :
          /\ next[0] = <<>>
          /\ \A n \in 1 .. N + 1 : next[n] = ReadRune(next[n - 1], more[n])
          /\ Readable(more) = next[N + 1]
    BY <1>2, ReadUnfolds
  <1> DEFINE P == {n \in 0 .. N : next[n] = after[n]}
  <1>4. 0 \in P
    BY <1>1, <1>2, <1>3
  <1>5. ASSUME NEW n \in P, n < N PROVE n + 1 \in P
    <2>1. n + 1 \in 1 .. N /\ n + 1 \in 1 .. N + 1 /\ n + 1 \in 0 .. N /\ (n + 1) - 1 = n
      BY <1>2, <1>5
    <2>2. after[n + 1] = ReadRune(after[n], runes[n + 1])
      BY <1>1, <2>1
    <2>3. next[n + 1] = ReadRune(next[n], more[n + 1])
      BY <1>3, <2>1
    <2> QED  BY <1>2, <1>5, <2>1, <2>2, <2>3
  <1>6. N \in P
    <2>1. P \subseteq 0 .. N
      OBVIOUS
    <2> HIDE DEF P
    <2>2. P = 0 .. N
      BY <1>2, <1>4, <1>5, <2>1, InductionUpTo, Zenon
    <2> QED  BY <1>2, <2>2
  <1>7. next[N + 1] = ReadRune(next[N], rune)
    BY <1>2, <1>3
  <1> QED  BY <1>1, <1>3, <1>6, <1>7 DEF more

LEMMA ReadNothing == Readable(<<>>) = <<>>
  <1>1. <<>> \in Seq(Runes) /\ Len(<<>>) = 0
    OBVIOUS
  <1> QED  BY <1>1, ReadUnfolds

\* Reading goes rune by rune, so a text reads as its parts do.
LEMMA ReadConcat ==
  ASSUME NEW s \in Seq(Runes), NEW t \in Seq(Runes)
  PROVE  Readable(s \o t) = Readable(s) \o Readable(t)
  <1> DEFINE N == Len(t)
             First(n) == SubSeq(t, 1, n)
             P == {n \in 0 .. N : Readable(s \o First(n)) = Readable(s) \o Readable(First(n))}
  <1>1. N \in Nat /\ First(N) = t /\ \A n \in 1 .. N : t[n] \in Runes
    OBVIOUS
  <1>2. 0 \in P
    <2>1. First(0) = <<>> /\ s \o <<>> = s
      OBVIOUS
    <2>2. Readable(s) \in Seq(Runes)
      BY ReadIsRunes
    <2>3. Readable(s) \o <<>> = Readable(s)
      BY <2>2
    <2>4. 0 \in 0 .. N
      BY <1>1
    <2> HIDE DEF First, N
    <2> QED  BY <2>1, <2>3, <2>4, ReadNothing
  <1>3. ASSUME NEW n \in P, n < N PROVE n + 1 \in P
    <2> DEFINE e == t[n + 1]
               u == First(n)
    <2>1. n + 1 \in 0 .. N /\ n + 1 \in 1 .. N /\ n \in 0 .. N
      BY <1>1, <1>3
    <2>2. First(n + 1) = Append(u, e) /\ u \in Seq(Runes) /\ e \in Runes
      BY <2>1
    <2>3. s \o First(n + 1) = Append(s \o u, e) /\ s \o u \in Seq(Runes)
      <3> HIDE DEF P, N, First, e, u
      <3>1. s \o Append(u, e) = Append(s \o u, e) /\ s \o u \in Seq(Runes)
        BY <2>2, AppendLast, Zenon
      <3> QED  BY <2>2, <3>1, Zenon
    <2>4. Readable(s \o u) = Readable(s) \o Readable(u)
      BY <1>3
    <2> HIDE DEF P, First, N, u, e
    <2>5. Readable(Append(s \o u, e)) = ReadRune(Readable(s) \o Readable(u), e)
      BY <2>2, <2>3, <2>4, ReadAppended
    <2>6. Readable(Append(u, e)) = ReadRune(Readable(u), e)
      BY <2>2, ReadAppended
    <2>7. Readable(s) \in Seq(Runes) /\ Readable(u) \in Seq(Runes)
      BY <2>2, ReadIsRunes
    <2>8. ReadRune(Readable(s) \o Readable(u), e) = Readable(s) \o ReadRune(Readable(u), e)
      <3>1. Readable(s) \o Append(Readable(u), e) = Append(Readable(s) \o Readable(u), e)
        BY <2>2, <2>7, AppendLast
      <3> QED  BY <3>1 DEF ReadRune
    <2>9. Readable(s \o First(n + 1)) = Readable(s) \o Readable(First(n + 1))
      BY <2>2, <2>3, <2>5, <2>6, <2>8
    <2> QED  BY <2>1, <2>9 DEF P
  <1>4. N \in P
    <2>1. P \subseteq 0 .. N
      OBVIOUS
    <2> HIDE DEF P, N
    <2>2. P = 0 .. N
      BY <1>1, <1>2, <1>3, <2>1, InductionUpTo, Zenon
    <2> QED  BY <1>1, <2>2
  <1>5. Readable(s \o First(N)) = Readable(s) \o Readable(First(N))
    BY <1>4
  <1> QED  BY <1>1, <1>5

LEMMA DashIsNotPlain == ~Plain("-")
  BY RunesAssumption DEF Plain

LEMMA ReadDashes ==
  ASSUME NEW s \in Seq(Runes), \A k \in DOMAIN s : s[k] = "-"
  PROVE  Readable(s) = <<>>
  <1> DEFINE N == Len(s)
  <1>1. PICK after :
          /\ after[0] = <<>>
          /\ \A n \in 1 .. N : after[n] = ReadRune(after[n - 1], s[n])
          /\ Readable(s) = after[N]
    BY ReadUnfolds
  <1>2. N \in Nat /\ \A n \in 1 .. N : s[n] = "-"
    OBVIOUS
  <1> DEFINE P == {n \in 0 .. N : after[n] = <<>>}
  <1> HIDE DEF N
  <1>3. 0 \in P
    BY <1>1, <1>2
  <1>4. ASSUME NEW n \in P, n < N PROVE n + 1 \in P
    <2>1. n + 1 \in 1 .. N /\ n + 1 \in 0 .. N /\ (n + 1) - 1 = n
      BY <1>2, <1>4
    <2>2. after[n + 1] = ReadRune(after[n], "-")
      BY <1>1, <1>2, <2>1
    <2> QED  BY <1>4, <2>1, <2>2, DashIsNotPlain DEF ReadRune
  <1>5. N \in P
    <2>1. P \subseteq 0 .. N
      OBVIOUS
    <2> HIDE DEF P
    <2>2. P = 0 .. N
      BY <1>2, <1>3, <1>4, <2>1, InductionUpTo, Zenon
    <2> QED  BY <1>2, <2>2
  <1> QED  BY <1>1, <1>5

DashesApart(s) == \A k \in DOMAIN s : k > 1 /\ s[k] = "-" => s[k - 1] # "-"

\* One rune more, of a reason in lower case.
LEMMA WriteRuneReads ==
  ASSUME NEW slug \in Seq(Runes), NEW rune \in Runes, DashesApart(slug)
  PROVE  /\ WriteRune(slug, rune) \in Seq(Runes)
         /\ Readable(WriteRune(slug, rune)) = ReadRune(Readable(slug), Lowered(rune))
         /\ DashesApart(WriteRune(slug, rune))
  <1> DEFINE low == Lowered(rune)
  <1>1. low \in Runes
    BY LoweredRune
  <1>2. "-" \in Runes
    BY RunesAssumption
  <1> HIDE DEF low
  <1>3. CASE Plain(low)
    <2>1. WriteRune(slug, rune) = Append(slug, low)
      BY <1>3 DEF WriteRune, low
    <2>2. DashesApart(Append(slug, low))
      BY <1>1, <1>3, DashIsNotPlain DEF DashesApart
    <2>3. Append(slug, low) \in Seq(Runes)
      BY <1>1
    <2> QED  BY <1>1, <2>1, <2>2, <2>3, ReadAppended DEF low
  <1>4. CASE ~Plain(low) /\ slug # <<>> /\ Last(slug) = "-"
    BY <1>4 DEF WriteRune, ReadRune, low
  <1>5. CASE ~Plain(low) /\ ~(slug # <<>> /\ Last(slug) = "-")
    <2>1. WriteRune(slug, rune) = Append(slug, "-")
      BY <1>5 DEF WriteRune, low
    <2>2. DashesApart(Append(slug, "-"))
      BY <1>2, <1>5 DEF DashesApart, Last
    <2>3. Append(slug, "-") \in Seq(Runes)
      BY <1>2
    <2>4. Readable(Append(slug, "-")) = Readable(slug)
      BY <1>2, ReadAppended, DashIsNotPlain DEF ReadRune
    <2> QED  BY <1>5, <2>1, <2>2, <2>3, <2>4 DEF ReadRune, low
  <1> QED  BY <1>3, <1>4, <1>5

\* The whole reason: it reads as before, and has no two dashes together.
LEMMA WrittenReads ==
  ASSUME NEW runes \in Seq(Runes)
  PROVE  /\ FoldLeft(WriteRune, <<>>, runes) \in Seq(Runes)
         /\ Readable(FoldLeft(WriteRune, <<>>, runes))
              = Readable([k \in DOMAIN runes |-> Lowered(runes[k])])
         /\ DashesApart(FoldLeft(WriteRune, <<>>, runes))
  <1> DEFINE N == Len(runes)
             low == [k \in DOMAIN runes |-> Lowered(runes[k])]
  <1>1. PICK after :
          /\ after[0] = <<>>
          /\ \A n \in 1 .. N : after[n] = WriteRune(after[n - 1], runes[n])
          /\ FoldLeft(WriteRune, <<>>, runes) = after[N]
    BY SlugUnfolds
  <1>2. /\ N \in Nat /\ DOMAIN runes = 1 .. N
        /\ \A n \in 1 .. N : runes[n] \in Runes /\ low[n] = Lowered(runes[n])
    <2>1. N \in Nat /\ DOMAIN runes = 1 .. N
      OBVIOUS
    <2>2. \A n \in 1 .. N : runes[n] \in Runes
      OBVIOUS
    <2> QED  BY <2>1, <2>2
  <1>3. low \in Seq(Runes) /\ Len(low) = N
    <2> HIDE DEF N
    <2>1. low \in [1 .. N -> Runes]
      BY <1>2, LoweredRune
    <2> HIDE DEF low
    <2> QED  BY <1>2, <2>1
  <1> HIDE DEF low
  <1>4. PICK read :
          /\ read[0] = <<>>
          /\ \A n \in 1 .. N : read[n] = ReadRune(read[n - 1], low[n])
          /\ Readable(low) = read[N]
    BY <1>2, <1>3, ReadUnfolds
  <1> DEFINE P == {n \in 0 .. N : /\ after[n] \in Seq(Runes)
                                  /\ Readable(after[n]) = read[n]
                                  /\ DashesApart(after[n])}
  <1> HIDE DEF N
  <1>5. 0 \in P
    <2>1. <<>> \in Seq(Runes) /\ DashesApart(<<>>)
      BY DEF DashesApart
    <2>2. 0 \in 0 .. N
      BY <1>2
    <2> QED  BY <1>1, <1>4, <2>1, <2>2, ReadNothing
  <1>6. ASSUME NEW n \in P, n < N PROVE n + 1 \in P
    <2>1. n + 1 \in 1 .. N /\ n + 1 \in 0 .. N /\ (n + 1) - 1 = n
      BY <1>2, <1>6
    <2>2. after[n + 1] = WriteRune(after[n], runes[n + 1])
      BY <1>1, <2>1
    <2>3. read[n + 1] = ReadRune(read[n], Lowered(runes[n + 1]))
      BY <1>2, <1>4, <2>1
    <2>4. after[n] \in Seq(Runes) /\ Readable(after[n]) = read[n] /\ DashesApart(after[n])
      OBVIOUS
    <2> HIDE DEF P
    <2>5. /\ after[n + 1] \in Seq(Runes)
          /\ Readable(after[n + 1]) = read[n + 1]
          /\ DashesApart(after[n + 1])
      BY <1>2, <2>1, <2>2, <2>3, <2>4, WriteRuneReads
    <2> QED  BY <2>1, <2>5, Zenon DEF P
  <1>7. N \in P
    <2>1. P \subseteq 0 .. N
      OBVIOUS
    <2> HIDE DEF P
    <2>2. P = 0 .. N
      BY <1>2, <1>5, <1>6, <2>1, InductionUpTo, Zenon
    <2> QED  BY <1>2, <2>2
  <1>8. after[N] \in Seq(Runes) /\ Readable(after[N]) = read[N] /\ DashesApart(after[N])
    BY <1>7
  <1> QED  BY <1>1, <1>4, <1>8 DEF low

\* The dashes at the ends go.
LEMMA TrimReads ==
  ASSUME NEW s \in Seq(Runes), DashesApart(s)
  PROVE  /\ TrimDashes(s) \in Seq(Runes)
         /\ Readable(TrimDashes(s)) = Readable(s)
         /\ DashesApart(TrimDashes(s))
         /\ TrimDashes(s) # <<>> => TrimDashes(s)[1] # "-"
  <1> DEFINE kept == {k \in DOMAIN s : s[k] # "-"}
             N == Len(s)
             a == Min(kept)
             b == Max(kept)
             t == SubSeq(s, a, b)
             head == SubSeq(s, 1, a - 1)
             tail == SubSeq(s, b + 1, N)
  <1>1. N \in Nat /\ DOMAIN s = 1 .. N
    OBVIOUS
  <1>2. CASE kept = {}
    <2>1. Readable(s) = <<>>
      BY <1>2, ReadDashes
    <2>2. TrimDashes(s) = <<>>
      BY <1>2 DEF TrimDashes
    <2>3. <<>> \in Seq(Runes) /\ DashesApart(<<>>)
      BY DEF DashesApart
    <2> QED  BY <2>1, <2>2, <2>3, ReadNothing
  <1>3. CASE kept # {}
    <2>1. kept \in SUBSET (1 .. N)
      BY <1>1
    <2>2. TrimDashes(s) = t
      BY <1>3 DEF TrimDashes
    <2> HIDE DEF kept, N
    <2>3. /\ a \in kept /\ \A k \in kept : a <= k
          /\ b \in kept /\ \A k \in kept : k <= b
      BY <1>1, <1>3, <2>1, MinOfSome, MaxOfSome
    <2>4. a \in 1 .. N /\ b \in 1 .. N /\ a <= b
      BY <1>1, <2>1, <2>3
    <2> HIDE DEF a, b
    <2>5. /\ \A k \in 1 .. a - 1 : s[k] = "-"
          /\ \A k \in b + 1 .. N : s[k] = "-"
          /\ s[a] # "-"
      BY <1>1, <2>3, <2>4 DEF kept
    <2>6. head \in Seq(Runes) /\ t \in Seq(Runes) /\ tail \in Seq(Runes)
      BY <1>1, <2>4 DEF N
    <2>7. s = (head \o t) \o tail
      <3>1. head \o t = SubSeq(s, 1, b)
        <4>1. /\ 1 \in 1 .. Len(s) + 1 /\ a - 1 \in 1 - 1 .. Len(s)
              /\ b \in a - 1 .. Len(s) /\ (a - 1) + 1 = a
          BY <1>1, <2>4 DEF N
        <4>2. SubSeq(s, 1, a - 1) \o SubSeq(s, (a - 1) + 1, b) = SubSeq(s, 1, b)
          BY <4>1, ConcatAdjacentSubSeq
        <4> QED  BY <4>1, <4>2
      <3>2. SubSeq(s, 1, b) \o tail = SubSeq(s, 1, N)
        <4>1. 1 \in 1 .. Len(s) + 1 /\ b \in 1 - 1 .. Len(s) /\ N \in b .. Len(s)
          BY <1>1, <2>4 DEF N
        <4> QED  BY <4>1, ConcatAdjacentSubSeq
      <3>3. SubSeq(s, 1, N) = s
        BY SubSeqFull DEF N
      <3> QED  BY <3>1, <3>2, <3>3
    <2>8. Readable(head) = <<>>
      <3>1. \A k \in DOMAIN head : head[k] = "-"
        BY <1>1, <2>4, <2>5 DEF N
      <3> HIDE DEF head
      <3> QED  BY <2>6, <3>1, ReadDashes
    <2>9. Readable(tail) = <<>>
      <3>1. \A k \in DOMAIN tail : tail[k] = "-"
        BY <1>1, <2>4, <2>5 DEF N
      <3> HIDE DEF tail
      <3> QED  BY <2>6, <3>1, ReadDashes
    <2>10. /\ Len(t) = b - a + 1
           /\ \A k \in 1 .. b - a + 1 : t[k] = s[a + k - 1]
      BY <1>1, <2>4 DEF N
    <2>11. DashesApart(t) /\ t[1] # "-"
      <3> HIDE DEF t
      <3>1. t[1] = s[a]
        <4>1. 1 \in 1 .. b - a + 1 /\ a + 1 - 1 = a
          BY <1>1, <2>4
        <4> QED  BY <2>10, <4>1
      <3>2. ASSUME NEW k \in DOMAIN t, k > 1, t[k] = "-" PROVE t[k - 1] # "-"
        <4>1. k \in 1 .. b - a + 1 /\ k - 1 \in 1 .. b - a + 1
          BY <1>1, <2>4, <2>6, <2>10, <3>2
        <4>2. t[k] = s[a + k - 1] /\ t[k - 1] = s[a + (k - 1) - 1]
          BY <2>10, <4>1
        <4>3. a + k - 1 \in DOMAIN s /\ a + k - 1 > 1 /\ a + (k - 1) - 1 = (a + k - 1) - 1
          BY <1>1, <2>4, <3>2, <4>1
        <4> QED  BY <3>2, <4>2, <4>3 DEF DashesApart
      <3> QED  BY <2>5, <3>1, <3>2 DEF DashesApart
    <2> HIDE DEF head, t, tail
    <2>12. Readable(s) = (Readable(head) \o Readable(t)) \o Readable(tail)
      <3>1. head \o t \in Seq(Runes)
        BY <2>6
      <3> QED  BY <2>6, <2>7, <3>1, ReadConcat
    <2>13. Readable(t) \in Seq(Runes)
      BY <2>6, ReadIsRunes
    <2>14. Readable(s) = Readable(t)
      BY <2>8, <2>9, <2>12, <2>13
    <2> QED  BY <2>2, <2>6, <2>11, <2>14
  <1> QED  BY <1>2, <1>3

\* The cut leaves a beginning.
LEMMA CutReads ==
  ASSUME NEW s \in Seq(Runes), DashesApart(s), s # <<>> => s[1] # "-"
  PROVE  /\ Cut(s) \in Seq(Runes) /\ Len(Cut(s)) <= MaxSlug
         /\ IsPrefix(Readable(Cut(s)), Readable(s))
         /\ Len(Cut(s)) < MaxSlug => Cut(s) = s
         /\ \A k \in DOMAIN Cut(s) : Cut(s)[k] = "-" => k > 1 /\ Cut(s)[k - 1] # "-"
  <1> DEFINE N == Len(s)
             m == Min({N, MaxSlug})
             t == SubSeq(s, 1, m)
             u == SubSeq(s, m + 1, N)
  <1>1. N \in Nat /\ MaxSlug \in Nat \ {0}
    BY BoundsAssumption
  <1> HIDE DEF N
  <1>2. m = IF N <= MaxSlug THEN N ELSE MaxSlug
    BY <1>1 DEF Min
  <1> HIDE DEF m
  <1>3. m \in 0 .. N /\ m <= MaxSlug /\ (m < MaxSlug => m = N)
    BY <1>1, <1>2
  <1>4. /\ t \in Seq(Runes) /\ u \in Seq(Runes) /\ Len(t) = m /\ s = t \o u
        /\ \A k \in 1 .. m : t[k] = s[k]
        /\ m = N => t = s
    <2>1. /\ t \in Seq(Runes) /\ u \in Seq(Runes) /\ Len(t) = m
          /\ \A k \in 1 .. m : t[k] = s[k]
      BY <1>1, <1>3 DEF N
    <2>2. SubSeq(s, 1, N) = s
      BY SubSeqFull DEF N
    <2>3. t \o u = SubSeq(s, 1, N)
      <3>1. 1 \in 1 .. Len(s) + 1 /\ m \in 1 - 1 .. Len(s) /\ N \in m .. Len(s)
        BY <1>1, <1>3 DEF N
      <3> QED  BY <3>1, ConcatAdjacentSubSeq
    <2> QED  BY <2>1, <2>2, <2>3
  <1>5. Cut(s) = t
    BY DEF Cut, m, N
  <1> HIDE DEF t, u
  <1>6. IsPrefix(Readable(t), Readable(s))
    <2>1. Readable(s) = Readable(t) \o Readable(u)
      BY <1>4, ReadConcat
    <2>2. Readable(t) \in Seq(Runes) /\ Readable(u) \in Seq(Runes)
      BY <1>4, ReadIsRunes
    <2> QED  BY <2>1, <2>2 DEF IsPrefix
  <1>7. ASSUME NEW k \in DOMAIN t, t[k] = "-" PROVE k > 1 /\ t[k - 1] # "-"
    <2>1. k \in 1 .. m /\ k \in DOMAIN s /\ s[k] = "-" /\ s # <<>>
      BY <1>1, <1>3, <1>4, <1>7 DEF N
    <2>2. k > 1
      BY <2>1
    <2>3. k - 1 \in 1 .. m
      BY <1>3, <2>1, <2>2
    <2> QED  BY <1>4, <2>1, <2>2, <2>3 DEF DashesApart
  <1> QED  BY <1>3, <1>4, <1>5, <1>6, <1>7

\* sanitizeBackupReason, the four together.
LEMMA SlugReads ==
  ASSUME NEW reason \in Seq(Runes)
  PROVE  LET given == Readable([k \in DOMAIN reason |-> Lowered(reason[k])])
             slug == Sanitize(reason)
         IN  /\ slug \in Seq(Runes) /\ Len(slug) <= MaxSlug
             /\ IsPrefix(Readable(slug), given)
             /\ Len(slug) < MaxSlug => Readable(slug) = given
             /\ \A k \in DOMAIN slug : slug[k] = "-" => k > 1 /\ slug[k - 1] # "-"
  <1> DEFINE written == FoldLeft(WriteRune, <<>>, reason)
             trimmed == TrimDashes(written)
             given == Readable([k \in DOMAIN reason |-> Lowered(reason[k])])
  <1>1. written \in Seq(Runes) /\ Readable(written) = given /\ DashesApart(written)
    BY WrittenReads
  <1> HIDE DEF written, given
  <1>2. /\ trimmed \in Seq(Runes) /\ Readable(trimmed) = given /\ DashesApart(trimmed)
        /\ trimmed # <<>> => trimmed[1] # "-"
    BY <1>1, TrimReads
  <1>3. Sanitize(reason) = Cut(trimmed)
    BY DEF Sanitize, written
  <1> HIDE DEF trimmed
  <1> QED  BY <1>2, <1>3, CutReads DEF given

\* What follows the first "__" of a name is its slug: a timestamp has no "_".
\* The runes that separate are parameters here, for the provers' sake.
Stamped(d, dot, e, under, slug) ==
  <<d, dot, e>> \o (IF slug = <<>> THEN <<>> ELSE <<under, under>> \o slug)
Twice(text, under) ==
  {k \in 1 .. Len(text) - 2 : text[k] = under /\ text[k + 1] = under}
After(text, under) ==
  IF Twice(text, under) = {} THEN <<>>
  ELSE SubSeq(text, Min(Twice(text, under)) + 2, Len(text))

LEMMA ReasonAfterID ==
  ASSUME NEW d \in Runes, NEW dot \in Runes, NEW e \in Runes, NEW under \in Runes,
         d # under, dot # under, e # under, NEW slug \in Seq(Runes)
  PROVE  /\ Stamped(d, dot, e, under, slug) \in Seq(Runes)
         /\ After(Stamped(d, dot, e, under, slug), under) = slug
  <1> DEFINE text == Stamped(d, dot, e, under, slug)
             at == Twice(text, under)
             reason == After(text, under)
             N == Len(slug)
  <1>2. {d, dot, e, under} \subseteq Runes /\ d # under /\ dot # under /\ e # under
    OBVIOUS
  <1>4. text = <<d, dot, e>> \o (IF slug = <<>> THEN <<>> ELSE <<under, under>> \o slug)
    BY DEF Stamped
  <1>5. reason = IF at = {} THEN <<>> ELSE SubSeq(text, Min(at) + 2, Len(text))
    BY DEF After
  <1>3. at = {k \in 1 .. Len(text) - 2 : text[k] = under /\ text[k + 1] = under}
    BY DEF Twice
  <1>6. N \in Nat /\ (slug # <<>> => N > 0)
    OBVIOUS
  <1> HIDE DEF N, text, reason, at
  <1>7. ASSUME slug = <<>> PROVE text \in Seq(Runes) /\ slug = reason
    <2>1. <<d, dot, e>> \in Seq(Runes)
      BY <1>2
    <2>2. text = <<d, dot, e>>
      BY <1>4, <1>7, <2>1
    <2>3. Len(text) = 3 /\ text[1] = d
      BY <2>2
    <2>4. at = {}
      BY <1>2, <1>3, <2>3
    <2> QED  BY <1>5, <1>7, <2>1, <2>2, <2>4
  <1>8. ASSUME slug # <<>> PROVE text \in Seq(Runes) /\ slug = reason
    <2> DEFINE dashes == <<under, under>>
               id == <<d, dot, e>>
               tail == dashes \o slug
    <2>1. text = id \o tail
      BY <1>4, <1>8
    <2>2. /\ dashes \in Seq(Runes) /\ Len(dashes) = 2 /\ dashes[1] = under /\ dashes[2] = under
          /\ id \in Seq(Runes) /\ Len(id) = 3 /\ id[1] = d /\ id[2] = dot /\ id[3] = e
      BY <1>2
    <2> HIDE DEF dashes, id
    <2>3. /\ tail \in Seq(Runes) /\ Len(tail) = N + 2
          /\ tail[1] = under /\ tail[2] = under /\ \A k \in 1 .. N : tail[k + 2] = slug[k]
      <3>1. Len(slug) = N
        BY DEF N
      <3>2. /\ tail \in Seq(Runes) /\ Len(tail) = Len(dashes) + Len(slug)
            /\ \A k \in 1 .. Len(dashes) + Len(slug) :
                 tail[k] = IF k <= Len(dashes) THEN dashes[k] ELSE slug[k - Len(dashes)]
        BY <1>6, <2>2, ConcatProperties, Zenon
      <3> HIDE DEF tail
      <3> QED  BY <1>6, <2>2, <3>1, <3>2
    <2> HIDE DEF tail
    <2>4. /\ text \in Seq(Runes) /\ Len(text) = N + 5
          /\ text[1] = d /\ text[2] = dot /\ text[3] = e
          /\ \A k \in 1 .. N + 2 : text[k + 3] = tail[k]
      <3>1. /\ text \in Seq(Runes) /\ Len(text) = Len(id) + Len(tail)
            /\ \A k \in 1 .. Len(id) + Len(tail) :
                 text[k] = IF k <= Len(id) THEN id[k] ELSE tail[k - Len(id)]
        BY <2>1, <2>2, <2>3, ConcatProperties, Zenon
      <3> QED  BY <1>6, <2>2, <2>3, <3>1
    <2>5. /\ text[4] = under /\ text[5] = under
          /\ \A k \in 1 .. N : text[k + 5] = slug[k]
      <3>1. text[4] = under /\ text[5] = under
        <4>1. 1 \in 1 .. N + 2 /\ 2 \in 1 .. N + 2 /\ 1 + 3 = 4 /\ 2 + 3 = 5
          BY <1>6
        <4> QED  BY <2>3, <2>4, <4>1
      <3>2. ASSUME NEW k \in 1 .. N PROVE text[k + 5] = slug[k]
        <4>1. k + 2 \in 1 .. N + 2 /\ (k + 2) + 3 = k + 5
          BY <1>6
        <4> QED  BY <2>3, <2>4, <4>1
      <3> QED  BY <3>1, <3>2
    <2>6. 4 \in at /\ \A k \in at : k \in Int /\ 4 <= k
      <3>1. N > 0 /\ Len(text) - 2 = N + 3
        BY <1>6, <1>8, <2>4
      <3>2. 4 \in at
        <4>1. 4 \in 1 .. Len(text) - 2 /\ 4 + 1 = 5
          BY <1>6, <3>1
        <4> QED  BY <1>3, <2>5, <4>1
      <3>3. ASSUME NEW k \in at PROVE k \in Int /\ 4 <= k
        <4>1. k \in 1 .. N + 3 /\ text[k] = under /\ text[k + 1] = under
          BY <1>3, <3>1
        <4>2. k # 1 /\ k # 3
          BY <1>2, <2>4, <4>1
        <4>3. k # 2
          BY <2>4, <4>1
        <4> QED  BY <1>6, <4>1, <4>2, <4>3
      <3> QED  BY <3>2, <3>3
    <2>7. reason = SubSeq(text, 6, N + 5)
      <3>1. Min(at) = 4
        BY <2>6 DEF Min
      <3> QED  BY <1>5, <2>4, <2>6, <3>1
    <2>8. SubSeq(text, 6, N + 5) = slug
      <3> DEFINE rest == SubSeq(text, 6, N + 5)
      <3>1. /\ rest \in Seq(Runes) /\ Len(rest) = N
            /\ \A k \in 1 .. N : rest[k] = text[k + 5]
        BY <1>6, <2>4
      <3>2. Len(slug) = N
        BY DEF N
      <3> HIDE DEF rest
      <3>3. Len(rest) = Len(slug) /\ \A k \in 1 .. Len(rest) : rest[k] = slug[k]
        BY <2>5, <3>1, <3>2
      <3> QED  BY <1>6, <3>1, <3>3, SeqEqual, Zenon DEF rest
    <2> QED  BY <2>4, <2>7, <2>8, Zenon
  <1>9. text \in Seq(Runes) /\ slug = reason
    BY <1>7, <1>8
  <1> QED  BY <1>9, Zenon DEF text, at, reason

LEMMA ReasonInName ==
  ASSUME NEW t \in 0 .. MaxClock, NEW name, name.id = BackupID(t),
         name.slug \in Seq(Runes)
  PROVE  ReasonIn(Text(name)) = name.slug /\ Text(name) \in Seq(Runes)
  <1> DEFINE d == Digits[Second(t)]
             e == Digits[t]
  <1>1. Second(t) \in 0 .. MaxClock
    <2>1. t \in Nat /\ t <= MaxClock /\ MaxClock \in Nat /\ PerSecond \in Nat /\ PerSecond > 0
      BY BoundsAssumption
    <2>2. Second(t) \in Nat
      BY <2>1, SecondsPass
    <2>3. Second(t) <= t
      BY <2>1 DEF Second
    <2> QED  BY <2>1, <2>2, <2>3
  <1>2. d \in Runes /\ d # "_" /\ e \in Runes /\ e # "_"
    BY <1>1, RunesAssumption
  <1> DEFINE slug == name.slug
             under == "_"
             dot == "."
             text == Stamped(d, dot, e, under, slug)
  <1>3. Text(name) = text
    BY DEF Text, BackupID, Stamped
  <1>4. ReasonIn(text) = After(text, under)
    BY DEF ReasonIn, After, Twice
  <1>5. dot \in Runes /\ under \in Runes /\ dot # under /\ d # under /\ e # under
    BY <1>2, RunesAssumption
  <1>7. slug \in Seq(Runes)
    OBVIOUS
  <1> HIDE DEF d, e, dot, under, slug
  <1>6. text \in Seq(Runes) /\ slug = ReasonIn(text)
    <2>1. d \in Runes /\ e \in Runes /\ d # under /\ e # under
      BY <1>2, <1>5
    <2>2. dot \in Runes /\ under \in Runes /\ dot # under
      BY <1>5
    <2> QED  BY <1>4, <1>7, <2>1, <2>2, ReasonAfterID
  <1> HIDE DEF text
  <1> QED  BY <1>3, <1>6 DEF slug

LEMMA RollbackRunes ==
  ASSUME NEW t \in 0 .. MaxClock, NEW reason \in Seq(Runes)
  PROVE  RollbackOf(Name(t, reason)) \in Seq(Runes)
  <1> DEFINE text == Text(Name(t, reason))
             r == "r"
             colon == ":"
  <1>1. text \in Seq(Runes)
    <2>1. Name(t, reason).id = BackupID(t) /\ Name(t, reason).slug = Sanitize(reason)
      BY DEF Name
    <2>2. Sanitize(reason) \in Seq(Runes)
      BY SlugReads
    <2> QED  BY <2>1, <2>2, ReasonInName
  <1>2. r \in Runes /\ colon \in Runes
    BY RunesAssumption
  <1>3. RollbackOf(Name(t, reason)) = <<r, colon>> \o text
    BY DEF RollbackOf
  <1> HIDE DEF r, colon, text
  <1> QED  BY <1>1, <1>2, <1>3

-----------------------------------------------------------------------------
(* What the state holds, and how its names were made.                      *)

Files == Contents \cup {Torn}

Typed ==
  /\ file \in Contents
  /\ \A name \in Names : dir[name].content \in Files /\ dir[name].at \in Nat
  /\ asked.proposed \in Files
  /\ save # Nothing => save.asked.proposed \in Files

\* Every name was made by Name, and a backup's own of the reason it was given.
NamedSo ==
  /\ \A name \in Names : \E t \in 0 .. MaxClock, reason \in Seq(Runes) :
       name = Name(t, reason)
  /\ asked.reason \in Seq(Runes)
  /\ \A m \in made : /\ m.reason \in Seq(Runes)
                     /\ \E t \in 0 .. MaxClock : m.name = Name(t, m.reason)

LEMMA TypedStep == Safe /\ Typed /\ [Next]_vars => Typed'
  <1> SUFFICES ASSUME Safe, Typed, [Next]_vars PROVE Typed'
    OBVIOUS
  <1>0. clock \in Nat /\ Second(clock) \in Nat
    <2>1. clock \in Nat
      BY BoundsAssumption DEF Safe, Shape
    <2> QED  BY <2>1, SecondsPass
  <1>n. Nothing.proposed = Torn /\ Torn \in Files
    BY DEF Nothing, Files
  <1>1. CASE Tick \/ Refuse \/ FailSave \/ List \/ UNCHANGED vars
    <2>1. /\ dir' = dir /\ file' = file
          /\ asked' = asked \/ asked' = Nothing
          /\ save' = save \/ save' = Nothing
      BY <1>1 DEF Tick, Refuse, FailSave, List, vars
    <2> QED  BY <1>n, <2>1 DEF Typed, Names
  <1>2. CASE Apply
    <2>1. /\ dir' = dir /\ file' = file /\ save' = save
          /\ asked'.proposed \in Contents
      BY <1>2 DEF Apply
    <2> QED  BY <2>1 DEF Typed, Names, Files
  <1>3. CASE Rollback
    <2>1. PICK name \in shown : asked' = [proposed |-> dir[name].content,
                                          reason |-> RollbackOf(name), of |-> {name}]
      BY <1>3 DEF Rollback
    <2>2. dir' = dir /\ file' = file /\ save' = save /\ name \in Names
      BY <1>3 DEF Rollback, Safe, Shape
    <2>3. asked'.proposed \in Files
      BY <2>1, <2>2 DEF Typed
    <2> QED  BY <2>2, <2>3 DEF Typed, Names
  <1>4. CASE CreateBackup
    <2> DEFINE name == Name(clock, asked.reason)
    <2>1. /\ dir' = [n \in Names \cup {name} |->
                      IF n = name THEN [content |-> Torn, at |-> Second(clock)]
                      ELSE dir[n]]
          /\ save' = [asked |-> asked, name |-> name]
          /\ asked' = Nothing /\ file' = file
      BY <1>4 DEF CreateBackup
    <2> HIDE DEF name
    <2>2. /\ Names' = Names \cup {name}
          /\ dir'[name].content = Torn /\ dir'[name].at = Second(clock)
          /\ \A n \in Names : n # name => dir'[n] = dir[n]
      BY <2>1 DEF Names
    <2>3. save'.asked = asked
      BY <2>1
    <2> QED  BY <1>0, <1>n, <2>1, <2>2, <2>3 DEF Typed
  <1>5. CASE WriteBackup
    <2>1. /\ save # Nothing
          /\ dir' = [dir EXCEPT ![save.name] = [content |-> file, at |-> Second(clock)]]
          /\ UNCHANGED <<file, asked, save>>
      BY <1>5 DEF WriteBackup
    <2>2. /\ Names' = Names
          /\ dir'[save.name].content = file /\ dir'[save.name].at = Second(clock)
          /\ \A n \in Names \ {save.name} : dir'[n] = dir[n]
      BY <2>1 DEF Safe, Shape, SaveUnderWay, Names
    <2> QED  BY <1>0, <2>1, <2>2 DEF Typed, Files
  <1>6. CASE WriteConfig
    <2>1. /\ save # Nothing /\ file' = save.asked.proposed /\ save' = Nothing
          /\ dir' = dir /\ asked' = asked
      BY <1>6 DEF WriteConfig
    <2>2. save.asked.proposed \in Contents
      BY <2>1 DEF Safe, SaveUnderWay, Typed, Files
    <2> QED  BY <2>1, <2>2 DEF Typed, Names
  <1> QED  BY <1>1, <1>2, <1>3, <1>4, <1>5, <1>6 DEF Next

LEMMA NamedStep == Safe /\ NamedSo /\ [Next]_vars => NamedSo'
  <1> SUFFICES ASSUME Safe, NamedSo, [Next]_vars PROVE NamedSo'
    OBVIOUS
  <1>n. Nothing.reason = <<>> /\ <<>> \in Seq(Runes)
    BY DEF Nothing
  <1>1. CASE Tick \/ Refuse \/ FailSave \/ List \/ WriteConfig \/ UNCHANGED vars
    <2>1. /\ dir' = dir /\ made' = made
          /\ asked' = asked \/ asked' = Nothing
      BY <1>1 DEF Tick, Refuse, FailSave, List, WriteConfig, vars
    <2> QED  BY <1>n, <2>1 DEF NamedSo, Names
  <1>2. CASE Apply
    <2>1. PICK content \in Contents, reason \in Reasons :
            asked' = [proposed |-> content, reason |-> reason, of |-> {}]
      BY <1>2 DEF Apply
    <2>2. Reasons \subseteq Seq(Runes)
      BY RunesAssumption
    <2>3. asked'.reason = reason
      BY <2>1
    <2>4. dir' = dir /\ made' = made /\ asked'.reason \in Seq(Runes)
      BY <1>2, <2>2, <2>3 DEF Apply
    <2> QED  BY <2>4 DEF NamedSo, Names
  <1>3. CASE Rollback
    <2>1. PICK name \in shown : asked' = [proposed |-> dir[name].content,
                                          reason |-> RollbackOf(name), of |-> {name}]
      BY <1>3 DEF Rollback
    <2>2. dir' = dir /\ made' = made /\ name \in Names
      BY <1>3 DEF Rollback, Safe, Shape
    <2>3. asked'.reason \in Seq(Runes)
      BY <2>1, <2>2, RollbackRunes DEF NamedSo
    <2> QED  BY <2>2, <2>3 DEF NamedSo, Names
  <1>4. CASE CreateBackup
    <2> DEFINE name == Name(clock, asked.reason)
               begun == [name |-> name, content |-> file, reason |-> asked.reason]
    <2>1. /\ Names' = Names \cup {name}
          /\ made' = made \cup {begun}
          /\ asked' = Nothing
      BY <1>4 DEF CreateBackup, Names
    <2>2. clock \in 0 .. MaxClock /\ asked.reason \in Seq(Runes)
      BY DEF Safe, Shape, NamedSo
    <2>3. begun.name = Name(clock, begun.reason) /\ begun.reason \in Seq(Runes)
      BY <2>2
    <2> HIDE DEF begun
    <2>4. \A m \in made' : /\ m.reason \in Seq(Runes)
                           /\ \E t \in 0 .. MaxClock : m.name = Name(t, m.reason)
      BY <2>1, <2>2, <2>3 DEF NamedSo
    <2>5. \A n \in Names' : \E t \in 0 .. MaxClock, reason \in Seq(Runes) : n = Name(t, reason)
      BY <2>1, <2>2 DEF NamedSo
    <2>6. asked'.reason \in Seq(Runes)
      BY <1>n, <2>1
    <2> QED  BY <2>4, <2>5, <2>6 DEF NamedSo
  <1>5. CASE WriteBackup
    <2>1. Names' = Names /\ made' = made /\ asked' = asked
      BY <1>5 DEF WriteBackup, Names, Safe, Shape
    <2> QED  BY <2>1 DEF NamedSo
  <1> QED  BY <1>1, <1>2, <1>3, <1>4, <1>5 DEF Next

LEMMA NamedInvariance == Spec => [](Safe /\ Typed /\ NamedSo)
  <1>1. Init => Typed /\ NamedSo
    <2>1. Init => Names = {} /\ save = Nothing /\ asked = Nothing /\ made = {} /\ file \in Contents
      BY DEF Init, Names
    <2>2. Nothing.proposed = Torn /\ Nothing.reason = <<>> /\ <<>> \in Seq(Runes)
      BY DEF Nothing
    <2> QED  BY <2>1, <2>2 DEF Typed, NamedSo, Files
  <1> QED  BY <1>1, TypedStep, NamedStep, SafeInvariance, PTL DEF Spec

\* The slug of a name that was made so, as a list shows it.
LEMMA ShownReason ==
  ASSUME NEW t \in 0 .. MaxClock, NEW reason \in Seq(Runes)
  PROVE  ReasonIn(Text(Name(t, reason))) = Sanitize(reason)
  <1>1. Name(t, reason).id = BackupID(t) /\ Name(t, reason).slug = Sanitize(reason)
    BY DEF Name
  <1>2. Sanitize(reason) \in Seq(Runes)
    BY SlugReads
  <1> QED  BY <1>1, <1>2, ReasonInName

\* The theorem of TypeOK: no chain of rollbacks to a rollback's backup makes a name
\* longer than sanitizeBackupReason cuts it to.
THEOREM NamesStayShort == Spec => []TypeOK
  <1>1. Safe /\ Typed /\ NamedSo => TypeOK
    <2> SUFFICES ASSUME Safe, Typed, NamedSo PROVE TypeOK
      OBVIOUS
    <2>1. ASSUME NEW name \in Names PROVE Len(ReasonIn(Text(name))) <= MaxSlug
      <3>1. PICK t \in 0 .. MaxClock, reason \in Seq(Runes) : name = Name(t, reason)
        BY DEF NamedSo
      <3>2. ReasonIn(Text(name)) = Sanitize(reason)
        BY <3>1, ShownReason
      <3> QED  BY <3>2, SlugReads
    <2> QED
      BY <2>1 DEF TypeOK, Asked, Safe, Shape, Typed, Files, ReadFrom, SaveUnderWay
  <1> QED  BY <1>1, NamedInvariance, PTL

\* The theorem of ReasonReads: the reason that sanitizeBackupReason puts into a
\* name is the one it was given, rune for rune up to the cut, less what is
\* neither letter nor digit, with no dash first or twice.
THEOREM ReasonsRead == Spec => []ReasonReads
  <1>1. NamedSo => ReasonReads
    <2> SUFFICES ASSUME NamedSo, NEW m \in made
                 PROVE  LET slug == ReasonIn(Text(m.name))
                            given == Readable([i \in DOMAIN m.reason |-> Lowered(m.reason[i])])
                        IN  /\ IsPrefix(Readable(slug), given)
                            /\ Len(slug) < MaxSlug => Readable(slug) = given
                            /\ \A i \in DOMAIN slug :
                                 slug[i] = "-" => i > 1 /\ slug[i - 1] # "-"
      BY DEF ReasonReads
    <2>1. PICK t \in 0 .. MaxClock : m.name = Name(t, m.reason)
      BY DEF NamedSo
    <2>2. m.reason \in Seq(Runes)
      BY DEF NamedSo
    <2>3. ReasonIn(Text(m.name)) = Sanitize(m.reason)
      BY <2>1, <2>2, ShownReason
    <2> QED  BY <2>2, <2>3, SlugReads
  <1> QED  BY <1>1, NamedInvariance, PTL
=============================================================================
