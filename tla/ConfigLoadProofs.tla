--------------------------- MODULE ConfigLoadProofs ---------------------------
(* Theorems about ConfigLoad, for every set of files and environments.     *)
EXTENDS ConfigLoad, TLAPS

-----------------------------------------------------------------------------
(* What is accepted is served.                                             *)

\* Validate compiles the patterns of all rules, engine.New of those enabled;
\* proxy.New parses the URL and two of the five durations again.
LEMMA NothingFailsLater ==
  ASSUME NEW old, NEW f, Accepted(old, f)
  PROVE  /\ EngineBuilds(Overridden(old, f))
         /\ ProxyBuilds(Overridden(old, f))
  <1> DEFINE cfg == Overridden(old, f)
  <1>1. SettingsValid(cfg.settings) /\ RulesValid(cfg.rules)
    BY DEF Accepted
  <1> HIDE DEF cfg
  <1>2. EngineBuilds(cfg)
    BY <1>1 DEF EngineBuilds, RulesValid, RuleValid, MatchValid
  <1>3. ProxyBuilds(cfg)
    BY <1>1 DEF ProxyBuilds, SettingsValid, DurationsParse, Durations
  <1> QED  BY <1>2, <1>3 DEF cfg

LEMMA OutcomeOfAccepted ==
  ASSUME NEW old, NEW f
  PROVE  /\ Outcome(old, f) \in {"refused", "panic", "stored"}
         /\ Outcome(old, f) = "stored" => Accepted(old, f)
  BY NothingFailsLater DEF Outcome

\* The theorem of AcceptedIsServed: whatever the files and the environments,
\* no step of reloadLocked after config.Load returns an error.
THEOREM Served == Spec => []AcceptedIsServed
  <1>1. Init => AcceptedIsServed
    BY DEF Init, AcceptedIsServed, Serving
  <1>2. AcceptedIsServed /\ [Next]_vars => AcceptedIsServed'
    <2> SUFFICES ASSUME AcceptedIsServed, [Next]_vars PROVE AcceptedIsServed'
      OBVIOUS
    <2>1. CASE Edit \/ UNCHANGED vars
      BY <2>1 DEF AcceptedIsServed, Serving, Edit, vars
    <2>2. CASE Reload
      <3>1. outcome' # "failed"
        BY <2>2, OutcomeOfAccepted DEF Reload
      <3>2. CASE outcome' # "stored"
        BY <2>2, <3>1, <3>2 DEF Reload, AcceptedIsServed, Serving
      <3>3. CASE outcome' = "stored"
        <4>1. Accepted(running, file)
          BY <2>2, <3>3, OutcomeOfAccepted DEF Reload
        <4>2. running'.settings = Overridden(running, file).settings
          BY <2>2, <3>3 DEF Reload, State
        <4>3. SettingsValid(running'.settings)
          BY <4>1, <4>2 DEF Accepted
        <4> QED
          BY <3>1, <4>3 DEF AcceptedIsServed, SettingsValid, DurationsParse
      <3> QED  BY <3>2, <3>3
    <2> QED  BY <2>1, <2>2 DEF Next
  <1> QED  BY <1>1, <1>2, PTL DEF Spec

-----------------------------------------------------------------------------
(* What runs is what was written, the answers of the rules that block       *)
(* included.                                                               *)

FileRead == file \in Files /\ (Serving => loaded \in Files)

LEMMA ReadInvariance == Spec => []FileRead
  <1>1. Init => FileRead
    BY DEF Init, FileRead, Serving
  <1>2. FileRead /\ [Next]_vars => FileRead'
    BY DEF FileRead, Serving, Next, Edit, Reload, vars
  <1> QED  BY <1>1, <1>2, PTL DEF Spec

\* What the environment and the defaults do to one rule that blocks.
LEMMA BlockFilled ==
  ASSUME NEW rule \in RuleConfig, rule.action.type = "block",
         RuleValid(OverrideRule(rule))
  PROVE  Answers(Fill(OverrideRule(rule).action), AnswerSet(env, rule.action))
  <1> DEFINE over == OverrideRule(rule).action
             set == AnswerSet(env, rule.action)
  <1>1. /\ over.type = "block"
        /\ over.status_code = set.status_code
        /\ over.response_mode = set.response_mode
        /\ over.message = set.message
        /\ over.content_type = set.content_type
        /\ over = [type |-> over.type, status_code |-> over.status_code,
                   response_mode |-> over.response_mode,
                   content_type |-> over.content_type, message |-> over.message]
    BY DEF OverrideRule, RuleConfig, ActionConfig, AnswerSet
  <1>2. over.response_mode \in Modes \cup {""}
    BY <1>1 DEF RuleValid
  <1> HIDE DEF over, set
  <1> DEFINE answer == Fill(over)
  <1>3. /\ answer.type = over.type
        /\ answer.status_code = IF over.status_code = 0 THEN 403 ELSE over.status_code
        /\ answer.response_mode = IF over.response_mode = "" THEN "json"
                                  ELSE over.response_mode
        /\ answer.message = MessageOf(answer.response_mode, over.message)
        /\ answer.content_type = ContentTypeOf(answer.response_mode, over.content_type)
    BY <1>1 DEF Fill
  <1> HIDE DEF answer
  <1>4. ASSUME NEW key \in {"response_mode", "message", "content_type"}, set[key] # ""
        PROVE  answer[key] = set[key]
    BY <1>1, <1>3, <1>4 DEF MessageOf, ContentTypeOf
  <1>5. /\ answer.response_mode \in Modes
        /\ answer.response_mode = "json" => answer.message # ""
        /\ answer.response_mode = "text" => answer.content_type # ""
    BY <1>1, <1>2, <1>3 DEF Modes, MessageOf, ContentTypeOf
  <1>6. /\ answer.type = "block"
        /\ answer.status_code = IF set.status_code = 0 THEN 403 ELSE set.status_code
    BY <1>1, <1>3
  <1> QED  BY <1>4, <1>5, <1>6 DEF answer, over, set, Answers

\* The theorem of BlocksAnswerAsSet, for every rule a file may hold and every
\* override the environment may have: what was set is answered with, and only
\* what is open is filled in.
THEOREM BlocksAnswer == Spec => []BlocksAnswerAsSet
  <1>1. Init => BlocksAnswerAsSet
    BY DEF Init, BlocksAnswerAsSet, Unread
  <1>2. FileRead /\ BlocksAnswerAsSet /\ [Next]_vars => BlocksAnswerAsSet'
    <2> SUFFICES ASSUME FileRead, BlocksAnswerAsSet, [Next]_vars
                 PROVE  BlocksAnswerAsSet'
      OBVIOUS
    <2>1. CASE Edit \/ UNCHANGED vars
      BY <2>1 DEF BlocksAnswerAsSet, Edit, vars
    <2>2. CASE Reload /\ outcome' # "stored"
      BY <2>2 DEF BlocksAnswerAsSet, Reload
    <2>3. CASE Reload /\ outcome' = "stored"
      <3>1. loaded' = file /\ running' = State(running, file) /\ env' = env
        BY <2>3 DEF Reload
      <3>2. Accepted(running, file)
        BY <2>3, OutcomeOfAccepted DEF Reload
      <3>3. file.rules \in Seq(RuleConfig)
        BY FilesAssumption DEF FileRead
      <3> SUFFICES ASSUME NEW i \in DOMAIN file.rules,
                          file.rules[i].action.type = "block"
                   PROVE  Answers(running.rules[i].action,
                                  AnswerSet(env, loaded.rules[i].action))'
        BY <3>1 DEF BlocksAnswerAsSet
      <3> DEFINE over == OverrideRule(file.rules[i])
      <3>4. file.rules[i] \in RuleConfig
        BY <3>3
      <3>5. /\ Overridden(running, file).rules[i] = over
            /\ DOMAIN Overridden(running, file).rules = DOMAIN file.rules
        BY DEF Overridden
      <3>6. RuleValid(over)
        BY <3>2, <3>5 DEF Accepted, RulesValid
      <3>7. over.action.type = "block" /\ over = [over EXCEPT !.action = @]
        BY <3>4 DEF OverrideRule, RuleConfig, ActionConfig
      <3>8. running'.rules[i].action = Fill(over.action)
        BY <3>1, <3>5, <3>7 DEF State, Filled
      <3> QED  BY <3>1, <3>4, <3>6, <3>8, BlockFilled
    <2> QED  BY <2>1, <2>2, <2>3 DEF Next
  <1> QED  BY <1>1, <1>2, ReadInvariance, PTL DEF Spec

\* What Override and Decode make of one key.
LEMMA SettingSays ==
  ASSUME NEW old, NEW f, NEW key \in DOMAIN Defaults
  PROVE  Override(Decode(old, f))[key] =
           IF key \in Overrides \cap DOMAIN env
           THEN IF key = "request_body_limit" THEN env[key] ELSE Trimmed(env[key])
           ELSE IF key \in DOMAIN f.settings THEN f.settings[key]
           ELSE Defaults[key]
  <1>1. /\ key \in DOMAIN Decode(old, f)
        /\ Decode(old, f)[key] = IF key \in DOMAIN f.settings THEN f.settings[key]
                                 ELSE Defaults[key]
    BY DEF Decode, Over
  <1> QED  BY <1>1 DEF Override

\* The theorem of RunsAsWritten: config.Load never leaves a setting or a rule of
\* an earlier file in the configuration that runs, and loses none of this one.
THEOREM Written == Spec => []RunsAsWritten
  <1>1. Init => RunsAsWritten
    BY DEF Init, RunsAsWritten, Serving
  <1>2. FileRead /\ RunsAsWritten /\ [Next]_vars => RunsAsWritten'
    <2> SUFFICES ASSUME FileRead, RunsAsWritten, [Next]_vars
                 PROVE  RunsAsWritten'
      OBVIOUS
    <2>1. CASE Edit \/ UNCHANGED vars
      BY <2>1 DEF RunsAsWritten, Serving, Edit, vars
    <2>2. CASE Reload /\ outcome' # "stored"
      BY <2>2 DEF RunsAsWritten, Serving, Reload
    <2>3. CASE Reload /\ outcome' = "stored"
      <3>1. loaded' = file /\ running' = State(running, file) /\ env' = env
        BY <2>3 DEF Reload
      <3>2. \A key \in DOMAIN Defaults :
              running'.settings[key] =
                IF key \in Overrides \cap DOMAIN env
                THEN IF key = "request_body_limit" THEN env[key] ELSE Trimmed(env[key])
                ELSE IF key \in DOMAIN file.settings THEN file.settings[key]
                ELSE Defaults[key]
        BY <3>1, SettingSays DEF State, Overridden
      <3>3. file.rules \in Seq(RuleConfig)
        BY FilesAssumption DEF FileRead
      <3>4. Len(running'.rules) = Len(file.rules)
        <4>1. /\ running'.rules = [i \in DOMAIN file.rules |-> running'.rules[i]]
              /\ DOMAIN running'.rules = DOMAIN file.rules
          BY <3>1 DEF State, Filled, Overridden
        <4> QED  BY <3>3, <4>1
      <3>5. ASSUME NEW i \in DOMAIN file.rules
            PROVE  /\ \A part \in DOMAIN file.rules[i] \ {"action"} :
                        running'.rules[i][part] = file.rules[i][part]
                   /\ file.rules[i].action.type # "block"
                        => running'.rules[i].action = file.rules[i].action
        <4> DEFINE was == file.rules[i]
        <4>1. was \in RuleConfig
          BY <3>3
        <4>2. running'.rules[i] =
                IF OverrideRule(was).action.type = "block"
                THEN [OverrideRule(was) EXCEPT !.action = Fill(@)]
                ELSE OverrideRule(was)
          BY <3>1 DEF State, Filled, Overridden
        <4> HIDE DEF was
        <4>3. CASE was.action.type # "block"
          BY <4>2, <4>3 DEF OverrideRule, was
        <4>4. CASE was.action.type = "block"
          <5> DEFINE answer == OverrideRule(was).action
          <5>1. /\ answer.type = "block"
                /\ OverrideRule(was) = [was EXCEPT !.action = answer]
            BY <4>1, <4>4 DEF OverrideRule, RuleConfig
          <5> HIDE DEF answer
          <5>2. running'.rules[i] = [was EXCEPT !.action = Fill(answer)]
            BY <4>1, <4>2, <5>1 DEF RuleConfig
          <5> QED  BY <4>1, <4>4, <5>2 DEF RuleConfig, was
        <4> QED  BY <4>3, <4>4
      <3> QED  BY <3>1, <3>2, <3>4, <3>5 DEF RunsAsWritten
    <2> QED  BY <2>1, <2>2, <2>3 DEF Next
  <1> QED  BY <1>1, <1>2, ReadInvariance, PTL DEF Spec

-----------------------------------------------------------------------------
(* The limit is what is written.                                           *)

LEMMA MinIs ==
  ASSUME NEW s \in SUBSET Int, NEW n \in s, \A m \in s : n <= m
  PROVE  Min(s) = n
  <1>1. Min(s) \in s /\ \A m \in s : Min(s) <= m
    BY DEF Min
  <1>2. n \in Int /\ Min(s) \in Int
    BY <1>1
  <1>3. n <= Min(s) /\ Min(s) <= n
    BY <1>1
  <1> QED  BY <1>2, <1>3

LEMMA WrapFits ==
  ASSUME NEW n \in Int, Fits(n)
  PROVE  Wrap(n) = n
  <1> DEFINE M == MaxInt + 1
             k == n + M
             W == 2 * M
  <1>1. M \in Nat /\ M > 0 /\ W \in Nat /\ W > 0 /\ k \in 0 .. W - 1
    BY NumbersAssumption DEF Fits
  <1>2. k % W = k
    <2> HIDE DEF k, W, M
    <2> QED  BY <1>1, SMTT(30)
  <1>3. n + MaxInt + 1 = k /\ 2 * (MaxInt + 1) = W /\ k - (MaxInt + 1) = n
    BY <1>1, NumbersAssumption
  <1> QED  BY <1>2, <1>3 DEF Wrap

\* A unit ends in a suffix of one rune, or of two.
LEMMA EndsInOne ==
  ASSUME NEW S, NEW t \in Seq(S), NEW a
  PROVE  IsSuffix(<<a>>, t) <=> Len(t) >= 1 /\ t[Len(t)] = a
  <1> DEFINE r == Reverse(t)
             s == <<a>>
             q == Reverse(s)
  <1>1. Len(t) \in Nat /\ DOMAIN t = 1 .. Len(t)
    OBVIOUS
  <1>2. r = [n \in 1 .. Len(t) |-> t[(Len(t) - n) + 1]] /\ r \in Seq(S) /\ Len(r) = Len(t)
    BY <1>1 DEF Reverse
  <1>3. Len(s) = 1 /\ s \in Seq({s[1], s[1]}) /\ s[1] = a
    OBVIOUS
  <1>4. IsSuffix(s, t) <=> Len(q) <= Len(r) /\ SubSeq(q, 1, Len(q)) = SubSeq(r, 1, Len(q))
    BY DEF IsSuffix, IsPrefix
  <1> HIDE DEF s
  <1>5. q = [n \in 1 .. 1 |-> s[(1 - n) + 1]]
    BY <1>3 DEF Reverse
  <1>6. q \in Seq({s[1], s[1]}) /\ Len(q) = 1
    BY <1>3, <1>5
  <1> HIDE DEF r, q
  <1>7. SubSeq(q, 1, 1) = [n \in 1 .. 1 |-> q[n]]
    BY <1>6
  <1>8. ASSUME Len(t) >= 1 PROVE SubSeq(r, 1, 1) = [n \in 1 .. 1 |-> r[n]]
    BY <1>1, <1>2, <1>8
  <1>9. ASSUME Len(t) >= 1
        PROVE  SubSeq(q, 1, 1) = SubSeq(r, 1, 1) <=> \A n \in 1 .. 1 : q[n] = r[n]
    BY <1>7, <1>8, <1>9
  <1>10. ASSUME Len(t) >= 1
         PROVE  (\A n \in 1 .. 1 : q[n] = r[n]) <=> t[Len(t)] = a
    <2>1. \A n \in 1 .. 1 : q[n] = s[(1 - n) + 1]
      BY <1>5
    <2>2. \A n \in 1 .. 1 : r[n] = t[(Len(t) - n) + 1]
      BY <1>1, <1>2, <1>10
    <2> QED  BY <1>1, <1>3, <2>1, <2>2
  <1>11. IsSuffix(s, t) <=> Len(t) >= 1 /\ SubSeq(q, 1, 1) = SubSeq(r, 1, 1)
    BY <1>1, <1>2, <1>4, <1>6
  <1> QED  BY <1>9, <1>10, <1>11 DEF s

LEMMA EndsInTwo ==
  ASSUME NEW S, NEW t \in Seq(S), NEW a, NEW b
  PROVE  IsSuffix(<<a, b>>, t) <=> Len(t) >= 2 /\ t[Len(t)] = b /\ t[Len(t) - 1] = a
  <1> DEFINE r == Reverse(t)
             s == <<a, b>>
             q == Reverse(s)
  <1>1. Len(t) \in Nat /\ DOMAIN t = 1 .. Len(t)
    OBVIOUS
  <1>2. r = [n \in 1 .. Len(t) |-> t[(Len(t) - n) + 1]] /\ r \in Seq(S) /\ Len(r) = Len(t)
    BY <1>1 DEF Reverse
  <1>3. Len(s) = 2 /\ s \in Seq({s[1], s[2]}) /\ s[1] = a /\ s[2] = b
    OBVIOUS
  <1>4. IsSuffix(s, t) <=> Len(q) <= Len(r) /\ SubSeq(q, 1, Len(q)) = SubSeq(r, 1, Len(q))
    BY DEF IsSuffix, IsPrefix
  <1> HIDE DEF s
  <1>5. q = [n \in 1 .. 2 |-> s[(2 - n) + 1]]
    BY <1>3 DEF Reverse
  <1>6. q \in Seq({s[1], s[2]}) /\ Len(q) = 2
    BY <1>3, <1>5
  <1> HIDE DEF r, q
  <1>7. SubSeq(q, 1, 2) = [n \in 1 .. 2 |-> q[n]]
    BY <1>6
  <1>8. ASSUME Len(t) >= 2 PROVE SubSeq(r, 1, 2) = [n \in 1 .. 2 |-> r[n]]
    BY <1>1, <1>2, <1>8
  <1>9. ASSUME Len(t) >= 2
        PROVE  SubSeq(q, 1, 2) = SubSeq(r, 1, 2) <=> \A n \in 1 .. 2 : q[n] = r[n]
    BY <1>7, <1>8, <1>9
  <1>10. ASSUME Len(t) >= 2
         PROVE  (\A n \in 1 .. 2 : q[n] = r[n]) <=> t[Len(t)] = b /\ t[Len(t) - 1] = a
    <2>1. \A n \in 1 .. 2 : q[n] = s[(2 - n) + 1]
      BY <1>5
    <2>2. \A n \in 1 .. 2 : r[n] = t[(Len(t) - n) + 1]
      BY <1>1, <1>2, <1>10
    <2> QED  BY <1>1, <1>3, <2>1, <2>2
  <1>11. IsSuffix(s, t) <=> Len(t) >= 2 /\ SubSeq(q, 1, 2) = SubSeq(r, 1, 2)
    BY <1>1, <1>2, <1>4, <1>6
  <1> QED  BY <1>9, <1>10, <1>11 DEF s

LEMMA TailOfUnit ==
  ASSUME NEW S, NEW t \in Seq(S), NEW n \in 0 .. Len(t)
  PROVE  /\ Len(SubSeq(t, n + 1, Len(t))) = Len(t) - n
         /\ \A k \in 1 .. Len(t) - n : SubSeq(t, n + 1, Len(t))[k] = t[n + k]
  <1>1. Len(t) \in Nat
    OBVIOUS
  <1>2. SubSeq(t, n + 1, Len(t)) = [k \in 1 .. Len(t) - n |-> t[n + k]]
    BY <1>1
  <1>3. SubSeq(t, n + 1, Len(t)) \in Seq(S)
    BY <1>1
  <1>4. Len(SubSeq(t, n + 1, Len(t))) = Len(t) - n
    BY <1>1, <1>2, <1>3
  <1> QED  BY <1>2, <1>4

LEMMA TailIsNothing ==
  ASSUME NEW S, NEW t \in Seq(S), NEW n \in 0 .. Len(t), NEW blank,
         SubSeq(t, n + 1, Len(t)) = <<>>, \A k \in 1 .. n : t[k] = blank
  PROVE  Len(t) >= 1 => t[Len(t)] = blank
  <1> DEFINE name == <<>>
  <1>1. Len(name) = 0 /\ Len(t) \in Nat
    OBVIOUS
  <1> HIDE DEF name
  <1>2. Len(name) = Len(t) - n
    BY TailOfUnit DEF name
  <1> QED  BY <1>1, <1>2

LEMMA TailIsOne ==
  ASSUME NEW S, NEW t \in Seq(S), NEW n \in 0 .. Len(t), NEW blank, NEW a,
         SubSeq(t, n + 1, Len(t)) = <<a>>, \A k \in 1 .. n : t[k] = blank
  PROVE  Len(t) >= 1 /\ t[Len(t)] = a /\ (Len(t) >= 2 => t[Len(t) - 1] = blank)
  <1> DEFINE name == <<a>>
  <1>1. Len(name) = 1 /\ name[1] = a /\ Len(t) \in Nat
    OBVIOUS
  <1>2. Len(name) = Len(t) - n /\ \A k \in 1 .. Len(name) : name[k] = t[n + k]
    <2> DEFINE tail == SubSeq(t, n + 1, Len(t))
    <2>1. tail = name
      OBVIOUS
    <2>2. Len(tail) = Len(t) - n /\ \A k \in 1 .. Len(t) - n : tail[k] = t[n + k]
      BY TailOfUnit
    <2> HIDE DEF name, tail
    <2> QED  BY <2>1, <2>2
  <1> HIDE DEF name
  <1>3. n = Len(t) - 1 /\ n + 1 = Len(t)
    BY <1>1, <1>2
  <1> QED  BY <1>1, <1>2, <1>3

LEMMA TailIsTwo ==
  ASSUME NEW S, NEW t \in Seq(S), NEW n \in 0 .. Len(t), NEW a, NEW b,
         SubSeq(t, n + 1, Len(t)) = <<a, b>>
  PROVE  Len(t) >= 2 /\ t[Len(t)] = b /\ t[Len(t) - 1] = a
  <1> DEFINE name == <<a, b>>
  <1>1. Len(name) = 2 /\ name[1] = a /\ name[2] = b /\ Len(t) \in Nat
    OBVIOUS
  <1>2. Len(name) = Len(t) - n /\ \A k \in 1 .. Len(name) : name[k] = t[n + k]
    <2> DEFINE tail == SubSeq(t, n + 1, Len(t))
    <2>1. tail = name
      OBVIOUS
    <2>2. Len(tail) = Len(t) - n /\ \A k \in 1 .. Len(t) - n : tail[k] = t[n + k]
      BY TailOfUnit
    <2> HIDE DEF name, tail
    <2> QED  BY <2>1, <2>2
  <1> HIDE DEF name
  <1>3. n = Len(t) - 2 /\ n + 2 = Len(t) /\ n + 1 = Len(t) - 1
    BY <1>1, <1>2
  <1> QED  BY <1>1, <1>2, <1>3

LEMMA UnitsAre ==
  /\ DOMAIN Units = 1 .. 4
  /\ Units[1].suffix = <<"K", "B">> /\ Units[1].scale = Kilo
  /\ Units[2].suffix = <<"M", "B">> /\ Units[2].scale = Kilo * Kilo
  /\ Units[3].suffix = <<"G", "B">> /\ Units[3].scale = Kilo * Kilo * Kilo
  /\ Units[4].suffix = <<"B">> /\ Units[4].scale = 1
  BY DEF Units

EndsIn(t, k) == IsSuffix(Units[k].suffix, t)
InB(t) == Len(t) >= 1 /\ t[Len(t)] = "B"
InTwo(t, a) == Len(t) >= 2 /\ t[Len(t)] = "B" /\ t[Len(t) - 1] = a

LEMMA EndsWhere ==
  ASSUME NEW S, NEW t \in Seq(S)
  PROVE  /\ EndsIn(t, 1) <=> InTwo(t, "K")
         /\ EndsIn(t, 2) <=> InTwo(t, "M")
         /\ EndsIn(t, 3) <=> InTwo(t, "G")
         /\ EndsIn(t, 4) <=> InB(t)
  <1>1. ASSUME NEW a PROVE IsSuffix(<<a, "B">>, t) <=> InTwo(t, a)
    BY EndsInTwo DEF InTwo
  <1>2. IsSuffix(<<"B">>, t) <=> InB(t)
    BY EndsInOne DEF InB
  <1> QED  BY <1>1, <1>2, UnitsAre DEF EndsIn

\* The first unit that a size ends in is the one that counts.
LEMMA FirstCounts ==
  ASSUME NEW size, Head(size.number) \in Int, NEW k \in 1 .. 4,
         EndsIn(UnitOf(size), k),
         \A m \in 1 .. 4 : EndsIn(UnitOf(size), m) => k <= m,
         Units[k].scale \in Int, Fits(Head(size.number) * Units[k].scale)
  PROVE  ParseByteSize(size) = Head(size.number) * Units[k].scale
  <1> DEFINE fitting == {m \in 1 .. 4 : EndsIn(UnitOf(size), m)}
             n == Head(size.number) * Units[k].scale
  <1>1. ParseByteSize(size) = IF fitting = {} THEN Head(size.number)
                              ELSE Wrap(Head(size.number) * Units[Min(fitting)].scale)
    BY UnitsAre DEF ParseByteSize, EndsIn
  <1>2. fitting \in SUBSET Int /\ k \in fitting /\ \A m \in fitting : k <= m
    OBVIOUS
  <1>3. Min(fitting) = k
    <2> HIDE DEF fitting
    <2> QED  BY <1>2, MinIs
  <1>4. Wrap(n) = n
    <2>1. n \in Int
      OBVIOUS
    <2> HIDE DEF n
    <2> QED  BY <2>1, WrapFits DEF n
  <1> HIDE DEF fitting
  <1> QED  BY <1>1, <1>2, <1>3, <1>4

LEMMA NoneCounts ==
  ASSUME NEW size, \A m \in 1 .. 4 : ~EndsIn(UnitOf(size), m)
  PROVE  ParseByteSize(size) = Head(size.number)
  BY UnitsAre DEF ParseByteSize, EndsIn

Blank(t, k) == t[k] = " "
BlankUpTo(t, n) == \A k \in 1 .. n : Blank(t, k)

LEMMA WorthIs ==
  ASSUME NEW worth \in Worth
  PROVE  \/ worth.name = <<>> /\ worth.bytes = 1
         \/ worth.name = <<"B">> /\ worth.bytes = 1
         \/ worth.name = <<"K", "B">> /\ worth.bytes = Kilo
         \/ worth.name = <<"M", "B">> /\ worth.bytes = Kilo * Kilo
         \/ worth.name = <<"G", "B">> /\ worth.bytes = Kilo * Kilo * Kilo
  <1> DEFINE two == Kilo * Kilo
             three == Kilo * Kilo * Kilo
  <1>1. \/ worth = [name |-> <<>>, bytes |-> 1]
        \/ worth = [name |-> <<"B">>, bytes |-> 1]
        \/ worth = [name |-> <<"K", "B">>, bytes |-> Kilo]
        \/ worth = [name |-> <<"M", "B">>, bytes |-> two]
        \/ worth = [name |-> <<"G", "B">>, bytes |-> three]
    BY Zenon DEF Worth
  <1> HIDE DEF two, three
  <1> QED  BY <1>1 DEF two, three

BlankFrom(t, n) == \A k \in n + 1 .. Len(t) : Blank(t, k)

\* The last rune of a unit with a name is no blank.
EndsInB(name) == Len(name) \in 1 .. 2 /\ name[Len(name)] = "B"

LEMMA NamesEnd ==
  ASSUME NEW worth \in Worth
  PROVE  worth.name = <<>> \/ EndsInB(worth.name)
  <1>1. EndsInB(<<"B">>)
    BY DEF EndsInB
  <1>2. \A a : EndsInB(<<a, "B">>)
    BY DEF EndsInB
  <1>3. \/ worth.name = <<>> \/ worth.name = <<"B">>
        \/ \E a : worth.name = <<a, "B">>
    BY WorthIs, Zenon
  <1> QED  BY <1>1, <1>2, <1>3, Zenon

\* Trimming leaves a unit and the blanks before it.
LEMMA TrimmedUnitIs ==
  ASSUME NEW S, NEW t \in Seq(S), NEW n \in 0 .. Len(t), NEW m \in 0 .. Len(t), n <= m,
         NEW worth \in Worth, SubSeq(t, n + 1, m) = worth.name,
         BlankUpTo(t, n), BlankFrom(t, m)
  PROVE  LET u == SubSeq(t, 1, EndOf(t))
         IN  /\ u \in Seq(S)
             /\ \E i \in 0 .. Len(u) : /\ BlankUpTo(u, i)
                                       /\ SubSeq(u, i + 1, Len(u)) = worth.name
  <1> DEFINE ends == {j \in 0 .. Len(t) : BlankFrom(t, j)}
             name == worth.name
  <1>1. Len(t) \in Nat /\ EndOf(t) = Min(ends) /\ ends \in SUBSET Int
    <2>1. EndOf(t) = Min(ends)
      BY DEF EndOf, BlankFrom, Blank
    <2> QED  BY <2>1
  <1>2. /\ Len(SubSeq(t, n + 1, m)) = m - n
        /\ \A k \in 1 .. m - n : SubSeq(t, n + 1, m)[k] = t[n + k]
    <2>1. SubSeq(t, n + 1, m) = [k \in 1 .. m - n |-> t[n + k]]
      BY <1>1
    <2>2. SubSeq(t, n + 1, m) \in Seq(S)
      BY <1>1
    <2> QED  BY <1>1, <2>1, <2>2
  <1>3. Len(name) = m - n /\ \A k \in 1 .. m - n : name[k] = t[n + k]
    BY <1>2
  <1>4. CASE name = <<>>
    <2>1. n = m
      BY <1>1, <1>3, <1>4
    <2>2. BlankFrom(t, 0)
      BY <1>1, <2>1 DEF BlankFrom, BlankUpTo
    <2>3. 0 \in ends /\ \A j \in ends : 0 <= j
      BY <1>1, <2>2
    <2>4. EndOf(t) = 0
      <3> HIDE DEF ends
      <3> QED  BY <1>1, <2>3, MinIs
    <2>5. SubSeq(t, 1, 0) = <<>> /\ <<>> \in Seq(S)
      BY <1>1
    <2> DEFINE u == SubSeq(t, 1, EndOf(t))
    <2>6. u = <<>> /\ Len(u) = 0 /\ u \in Seq(S)
      BY <2>4, <2>5
    <2>7. BlankUpTo(u, 0) /\ SubSeq(u, 1, 0) = <<>>
      BY <2>6 DEF BlankUpTo
    <2> HIDE DEF u
    <2>8. 0 \in 0 .. Len(u) /\ SubSeq(u, 0 + 1, Len(u)) = name
      BY <1>4, <2>6, <2>7
    <2> QED  BY <2>6, <2>7, <2>8 DEF u
  <1>5. CASE name # <<>>
    <2>1. Len(name) >= 1 /\ Len(name) \in Nat /\ name[Len(name)] = "B"
      BY <1>5, NamesEnd DEF EndsInB
    <2>2. m - n >= 1 /\ t[m] = "B" /\ m \in 1 .. Len(t)
      BY <1>1, <1>3, <2>1
    <2>3. m \in ends /\ \A j \in ends : m <= j
      <3>1. ASSUME NEW j \in 0 .. Len(t), BlankFrom(t, j), j < m PROVE FALSE
        <4>1. m \in j + 1 .. Len(t)
          BY <1>1, <2>2, <3>1
        <4>2. t[m] = " "
          BY <3>1, <4>1 DEF BlankFrom, Blank
        <4> QED  BY <2>2, <4>2
      <3> QED  BY <1>1, <3>1
    <2>4. EndOf(t) = m
      <3> HIDE DEF ends
      <3> QED  BY <1>1, <2>3, MinIs
    <2> DEFINE u == SubSeq(t, 1, m)
    <2>5. u \in Seq(S) /\ Len(u) = m /\ \A k \in 1 .. m : u[k] = t[k]
      BY <1>1
    <2>6. BlankUpTo(u, n)
      <3>1. ASSUME NEW k \in 1 .. n PROVE Blank(u, k)
        <4>1. Blank(t, k)
          BY DEF BlankUpTo
        <4>2. k \in 1 .. m
          BY <1>1
        <4>3. u[k] = t[k]
          BY <2>5, <4>2
        <4> QED  BY <4>1, <4>3, Zenon DEF Blank
      <3> QED  BY <3>1 DEF BlankUpTo
    <2>7. SubSeq(u, n + 1, m) = SubSeq(t, n + 1, m)
      <3>1. SubSeq(u, n + 1, m) = [k \in 1 .. m - n |-> u[n + k]]
        BY <1>1, <2>5
      <3>2. SubSeq(t, n + 1, m) = [k \in 1 .. m - n |-> t[n + k]]
        BY <1>1
      <3>3. \A k \in 1 .. m - n : u[n + k] = t[n + k]
        BY <1>1, <2>5
      <3> HIDE DEF u
      <3> QED  BY <3>1, <3>2, <3>3
    <2> HIDE DEF u
    <2>8. n \in 0 .. Len(u) /\ SubSeq(u, n + 1, Len(u)) = name
      BY <2>2, <2>5, <2>7
    <2> QED  BY <2>4, <2>5, <2>6, <2>8 DEF u
  <1> QED  BY <1>4, <1>5

\* What ParseByteSize makes of a number and a unit that has a name.
LEMMA SizeMeans ==
  ASSUME NEW S, NEW size, UnitOf(size) \in Seq(S), Head(size.number) \in Int,
         NEW n \in 0 .. Len(UnitOf(size)), NEW worth \in Worth,
         BlankUpTo(UnitOf(size), n),
         SubSeq(UnitOf(size), n + 1, Len(UnitOf(size))) = worth.name,
         Fits(Head(size.number) * worth.bytes)
  PROVE  ParseByteSize(size) = Head(size.number) * worth.bytes
  <1> DEFINE t == UnitOf(size)
             amount == Head(size.number)
             name == SubSeq(t, n + 1, Len(t))
             result == ParseByteSize(size) = amount * worth.bytes
  <1>1. t \in Seq(S) /\ n \in 0 .. Len(t) /\ amount \in Int /\ BlankUpTo(t, n)
    OBVIOUS
  <1>2. worth.name = name /\ worth \in Worth
    OBVIOUS
  <1>3. /\ EndsIn(t, 1) <=> InTwo(t, "K")
        /\ EndsIn(t, 2) <=> InTwo(t, "M")
        /\ EndsIn(t, 3) <=> InTwo(t, "G")
        /\ EndsIn(t, 4) <=> InB(t)
    BY EndsWhere
  <1>4. Fits(amount * worth.bytes)
    OBVIOUS
  <1>5. Kilo \in Int /\ Kilo * Kilo \in Int /\ Kilo * Kilo * Kilo \in Int
    BY NumbersAssumption
  <1>6. \A k \in 1 .. 4 : Units[k].scale \in Int
    BY <1>5, UnitsAre
  <1>7. ASSUME NEW k \in 1 .. 4, EndsIn(t, k), \A m \in 1 .. 4 : EndsIn(t, m) => k <= m,
               worth.bytes = Units[k].scale
        PROVE  result
    BY <1>4, <1>6, <1>7, FirstCounts
  <1> HIDE DEF result
  <1>8. ASSUME EndsIn(t, 1), worth.bytes = Kilo PROVE result
    BY <1>7, <1>8, UnitsAre
  <1>9. ASSUME ~EndsIn(t, 1), EndsIn(t, 2), worth.bytes = Kilo * Kilo PROVE result
    BY <1>7, <1>9, UnitsAre
  <1>10. ASSUME ~EndsIn(t, 1), ~EndsIn(t, 2), EndsIn(t, 3), worth.bytes = Kilo * Kilo * Kilo
         PROVE  result
    BY <1>7, <1>10, UnitsAre
  <1>11. ASSUME ~EndsIn(t, 1), ~EndsIn(t, 2), ~EndsIn(t, 3), EndsIn(t, 4), worth.bytes = 1
         PROVE  result
    BY <1>7, <1>11, UnitsAre
  <1>12. ASSUME ~EndsIn(t, 1), ~EndsIn(t, 2), ~EndsIn(t, 3), ~EndsIn(t, 4), worth.bytes = 1
         PROVE  result
    <2>1. \A m \in 1 .. 4 : ~EndsIn(t, m)
      BY <1>12
    <2> QED  BY <1>1, <1>12, <2>1, NoneCounts DEF result
  <1> SUFFICES result
    BY DEF result
  <1> HIDE DEF t, amount, name
  <1>13. CASE name = <<>> /\ worth.bytes = 1
    <2>1. Len(t) >= 1 => t[Len(t)] = " "
      BY <1>1, <1>13, TailIsNothing DEF BlankUpTo, Blank, name
    <2>2. ~InB(t) /\ ~InTwo(t, "K") /\ ~InTwo(t, "M") /\ ~InTwo(t, "G")
      <3>1. Len(t) >= 2 => Len(t) >= 1
        BY <1>1
      <3> QED  BY <2>1, <3>1, Zenon DEF InTwo, InB
    <2> QED  BY <1>3, <1>12, <1>13, <2>2, Zenon
  <1>14. CASE name = <<"B">> /\ worth.bytes = 1
    <2>1. Len(t) >= 1 /\ t[Len(t)] = "B" /\ (Len(t) >= 2 => t[Len(t) - 1] = " ")
      BY <1>1, <1>14, TailIsOne DEF BlankUpTo, Blank, name
    <2>2. InB(t) /\ ~InTwo(t, "K") /\ ~InTwo(t, "M") /\ ~InTwo(t, "G")
      BY <2>1 DEF InTwo, InB
    <2> QED  BY <1>3, <1>11, <1>14, <2>2, Zenon
  <1>15. CASE name = <<"K", "B">> /\ worth.bytes = Kilo
    <2>1. Len(t) >= 2 /\ t[Len(t)] = "B" /\ t[Len(t) - 1] = "K"
      BY <1>1, <1>15, TailIsTwo DEF name
    <2>2. InTwo(t, "K")
      BY <2>1 DEF InTwo
    <2> QED  BY <1>3, <1>8, <1>15, <2>2, Zenon
  <1>16. CASE name = <<"M", "B">> /\ worth.bytes = Kilo * Kilo
    <2>1. Len(t) >= 2 /\ t[Len(t)] = "B" /\ t[Len(t) - 1] = "M"
      BY <1>1, <1>16, TailIsTwo DEF name
    <2>2. InTwo(t, "M") /\ ~InTwo(t, "K")
      BY <2>1 DEF InTwo
    <2> QED  BY <1>3, <1>9, <1>16, <2>2, Zenon
  <1>17. CASE name = <<"G", "B">> /\ worth.bytes = Kilo * Kilo * Kilo
    <2>1. Len(t) >= 2 /\ t[Len(t)] = "B" /\ t[Len(t) - 1] = "G"
      BY <1>1, <1>17, TailIsTwo DEF name
    <2>2. InTwo(t, "G") /\ ~InTwo(t, "K") /\ ~InTwo(t, "M")
      BY <2>1 DEF InTwo
    <2> QED  BY <1>3, <1>10, <1>17, <2>2, Zenon
  <1> QED  BY <1>2, <1>13, <1>14, <1>15, <1>16, <1>17, WorthIs, Zenon

LEMMA ShortSeqs ==
  /\ \A S : \A a \in S : <<a>> \in Seq(S)
  /\ \A S : \A a, b \in S : <<a, b>> \in Seq(S)
  OBVIOUS

\* The size that runs is one the assumptions are about.
LEMMA SizeRead ==
  ASSUME NEW old, NEW f \in Files, env \in Environs
  PROVE  Override(Decode(old, f))["request_body_limit"] \in SizeConfig
  <1> DEFINE key == "request_body_limit"
  <1>1. key \in DOMAIN Defaults /\ key \in Overrides
    BY DEF Defaults, Overrides
  <1>5. Defaults[key] = Size(<<2>>, <<"M", "B">>)
    BY DEF Defaults
  <1>6. <<2>> \in Seq(Int) /\ <<"M", "B">> \in Seq(Runes)
    <2>1. 2 \in Int
      OBVIOUS
    <2>2. "M" \in Runes /\ "B" \in Runes
      BY RunesAssumption
    <2> QED  BY <2>1, <2>2, ShortSeqs, Zenon
  <1>7. Defaults[key] \in SizeConfig
    BY <1>5, <1>6 DEF SizeConfig, Size
  <1>2. Override(Decode(old, f))[key] =
          IF key \in DOMAIN env THEN env[key]
          ELSE IF key \in DOMAIN f.settings THEN f.settings[key]
          ELSE Defaults[key]
    BY <1>1, SettingSays
  <1> QED  BY <1>1, <1>2, <1>7, FilesAssumption, EnvironsAssumption

LEMMA UpperIsSeq ==
  ASSUME NEW unit, unit \in Seq(Runes)
  PROVE  Upper(unit) \in Seq({Upper(unit)[i] : i \in DOMAIN unit})
  <1> DEFINE up == Upper(unit)
             S == {up[i] : i \in DOMAIN unit}
  <1>1. up = [i \in DOMAIN unit |-> up[i]] /\ DOMAIN unit = 1 .. Len(unit) /\ Len(unit) \in Nat
    BY DEF Upper
  <1> HIDE DEF up
  <1>2. \A i \in DOMAIN unit : up[i] \in S
    OBVIOUS
  <1> HIDE DEF S
  <1> QED  BY <1>1, <1>2 DEF up, S

Started == env \in Environs

LEMMA StartInvariance == Spec => []Started
  <1>1. Init => Started
    BY DEF Init, Started
  <1>2. Started /\ [Next]_vars => Started'
    BY DEF Started, Next, Edit, Reload, vars
  <1> QED  BY <1>1, <1>2, PTL DEF Spec

\* What one load makes of the size that wins.
LEMMA LimitOfLoad ==
  ASSUME NEW old, NEW f \in Files, Started, Accepted(old, f),
         NEW n, NEW m, NEW worth \in Worth
  PROVE  LET size == State(old, f).settings["request_body_limit"]
             unit == Upper(size.unit)
         IN  /\ n \in 0 .. Len(unit) /\ m \in 0 .. Len(unit)
             /\ n <= m /\ \A k \in (1 .. n) \cup (m + 1 .. Len(unit)) : unit[k] = " "
             /\ SubSeq(unit, n + 1, m) = worth.name
             /\ Fits(Head(size.number) * worth.bytes)
             => State(old, f).limit = Head(size.number) * worth.bytes
  <1> DEFINE size == Override(Decode(old, f))["request_body_limit"]
             unit == Upper(size.unit)
  <1>1. /\ State(old, f).settings["request_body_limit"] = size
        /\ State(old, f).limit = ParseByteSize(size)
    BY DEF State, Overridden
  <1>2. size \in SizeConfig
    BY SizeRead DEF Started
  <1>3. size.number # <<>>
    BY DEF Accepted, Overridden, SettingsValid, SizeParses
  <1> HIDE DEF size
  <1>4. size.number \in Seq(Int) /\ size.unit \in Seq(Runes)
    BY <1>2 DEF SizeConfig
  <1>5. Head(size.number) \in Int
    BY <1>3, <1>4
  <1>6. \E S : unit \in Seq(S)
    BY <1>4, UpperIsSeq
  <1> SUFFICES ASSUME n \in 0 .. Len(unit), m \in 0 .. Len(unit), n <= m,
                      BlankUpTo(unit, n), BlankFrom(unit, m),
                      SubSeq(unit, n + 1, m) = worth.name,
                      Fits(Head(size.number) * worth.bytes)
               PROVE  ParseByteSize(size) = Head(size.number) * worth.bytes
    BY <1>1 DEF BlankUpTo, BlankFrom, Blank
  <1>7. PICK S : unit \in Seq(S)
    BY <1>6
  <1> DEFINE u == UnitOf(size)
  <1>8. u = SubSeq(unit, 1, EndOf(unit))
    BY DEF UnitOf
  <1>9. u \in Seq(S) /\ \E i \in 0 .. Len(u) : /\ BlankUpTo(u, i)
                                               /\ SubSeq(u, i + 1, Len(u)) = worth.name
    <2> HIDE DEF unit
    <2> QED  BY <1>7, <1>8, TrimmedUnitIs
  <1> QED  BY <1>5, <1>9, SizeMeans

\* The theorem of LimitAsWritten, for every kilobyte and every width of an
\* integer: ParseByteSize takes the units in an order in which the first that
\* fits is the one that was written.
THEOREM LimitIsWritten == Spec => []LimitAsWritten
  <1>1. Init => LimitAsWritten
    BY DEF Init, LimitAsWritten, Serving
  <1>2. FileRead /\ Started /\ LimitAsWritten /\ [Next]_vars => LimitAsWritten'
    <2> SUFFICES ASSUME FileRead, Started, LimitAsWritten, [Next]_vars
                 PROVE  LimitAsWritten'
      OBVIOUS
    <2>1. CASE running' = running /\ loaded' = loaded
      BY <2>1 DEF LimitAsWritten, Serving
    <2>2. CASE Reload /\ outcome' = "stored"
      <3>1. running' = State(running, file) /\ Accepted(running, file) /\ file \in Files
        BY <2>2, OutcomeOfAccepted DEF Reload, FileRead
      <3> QED  BY <3>1, LimitOfLoad, Zenon DEF LimitAsWritten
    <2> QED  BY <2>1, <2>2 DEF Next, Edit, Reload, vars
  <1> QED  BY <1>1, <1>2, ReadInvariance, StartInvariance, PTL DEF Spec
=============================================================================
