---------------------------- MODULE GatewayProofs ----------------------------
(* Theorems about Gateway, for every set of requests, every configuration, *)
(* whatever the requests look like and whenever a reload lands: a body is  *)
(* forwarded whole or not at all, fail_close holds, what is blocked is     *)
(* what a block rule hits, and every counter is right but for the requests *)
(* under way.  What is said of hits rests on RuleEngineProofs; the rest    *)
(* needs of the rules only the one bit whether Service.Inspect failed.     *)
EXTENDS Gateway, RuleEngineProofs

\* Up to the step that answers or forwards.
Undecided == PCs \ {"upstream", "done"}
\* From the outcome of inspection, or of a failed read, to the decision.
Inspected == {"audit", "countInspected", "countSkipped", "decide", "block"}
Erring == {"countError", "failMode"}

\* What holds of a request at step p, with input i and snapshot c, of whose
\* body n bytes are in memory and which the upstream got as u.
Sound(p, i, c, n, u) ==
  /\ p \in Undecided => u = "nothing"
  /\ p = "inspect" => ~ReadFails(c, i)
  /\ p = "passEncoded" => i.encoded /\ c.skipEncoded
  /\ c.limit < MaxInt =>
       /\ p \in {"inspect"} \cup Erring \cup Inspected /\ ~ReadFails(c, i) =>
            n = i.length /\ n <= c.limit
       /\ p \in Inspected /\ ~c.failOpen =>
            /\ ~ReadFails(c, i)
            /\ \/ i.extraction \in {"text", "none"}
               \/ i.extraction = "unknown" /\ c.skipUnknown
       /\ u # "part"
       /\ u # "nothing" /\ InScope(c, i) /\ ~c.failOpen /\ ~(i.encoded /\ c.skipEncoded)
            => /\ u = "whole" /\ i.length <= c.limit
               /\ \/ i.extraction \in {"text", "none"}
                  \/ i.extraction = "unknown" /\ c.skipUnknown

\* TypeOK, and that what it says of each request is said of functions.
Shape == TypeOK /\ DOMAIN read = Requests /\ DOMAIN result = Requests

AllSound ==
  \A r \in Requests : Sound(pc[r], in[r], snap[r], read[r], upstream[r])

-----------------------------------------------------------------------------
(* Two facts about the code that the steps are made of.                    *)

\* io.LimitReader with one byte more than the limit: what is not above the
\* limit is the whole body.
LEMMA ReadWithinLimitIsWhole ==
  ASSUME NEW c \in Configs, NEW i \in Inputs, c.limit < MaxInt,
         BytesRead(c, i) <= c.limit
  PROVE  BytesRead(c, i) = i.length
  BY ShapesAssumption DEF BytesRead, Cap, Increment

LEMMA InspectFails ==
  ASSUME NEW c, NEW path, NEW payload, ~Inspect(c, path, payload).failed
  PROVE  \/ payload.extraction \notin {"unknown", "broken"}
         \/ payload.extraction = "unknown" /\ c.skipUnknown
  BY DEF Inspect, Failure

-----------------------------------------------------------------------------
LEMMA BytesReadInBody ==
  ASSUME NEW c \in Configs, NEW i \in Inputs
  PROVE  BytesRead(c, i) \in 0 .. i.length
  BY ShapesAssumption DEF BytesRead, Cap, Increment

LEMMA PayloadOf ==
  ASSUME Shape, NEW r \in Requests
  PROVE  /\ Payload(r).fragments \in Seq(ToSet(Payload(r).fragments))
         /\ Payload(r).extraction \in {"none", "unknown", "broken", "text"}
         /\ read[r] = in[r].length =>
              /\ Payload(r).extraction = in[r].extraction
              /\ Payload(r).fragments = in[r].fragments
  <1> DEFINE i == in[r]
  <1>1. i \in Inputs
    BY DEF Shape, TypeOK
  <1>2. i.fragments \in Seq(ToSet(i.fragments))
    BY <1>1, ShapesAssumption
  <1>3. i.extraction \in {"none", "unknown", "broken", "text"}
    BY <1>1, ShapesAssumption
  <1>4. << >> \in Seq(ToSet(<< >>))
    OBVIOUS
  <1> QED  BY <1>2, <1>3, <1>4 DEF Payload

\* Whatever the rules and the payload, inspection comes to a decision.
LEMMA InspectDecides ==
  ASSUME NEW c \in Configs, NEW path, NEW payload,
         payload.fragments \in Seq(ToSet(payload.fragments)),
         payload.extraction \in {"none", "unknown", "broken", "text"}
  PROVE  Inspect(c, path, payload).decision \in Decisions
  <1>1. CASE payload.extraction = "text"
    <2>1. c.rules \in Seq(RuleType)
      BY ShapesAssumption
    <2>2. Inspect(c, path, payload).decision \in Decided
      BY <1>1, <2>1, BlocksIfHit
    <2> QED  BY <2>2 DEF Decided, Decisions
  <1>2. CASE payload.extraction # "text"
    BY <1>2 DEF Inspect, Skip, Failure, Decisions
  <1> QED  BY <1>1, <1>2

LEMMA ShapeStep == Shape /\ [Next]_vars => Shape'
  <1> SUFFICES ASSUME Shape, [Next]_vars PROVE Shape'
    OBVIOUS
  <1> USE DEF Shape, TypeOK, work, outcome
  <1>1. CASE UNCHANGED vars
    BY <1>1 DEF vars
  <1>2. CASE Reload
    BY <1>2 DEF Reload
  <1>3. ASSUME NEW r \in Requests, Arrive(r) \/ Handle(r) \/ Relay(r)
        PROVE  Shape'
    <2>0. count' \in [Counters -> Nat]
      <3>1. (\E cs : Add(cs)) \/ count' = count
        BY <1>3 DEF Arrive, Handle, Load, PassThrough, Encoded, PassEncoded, RejectEarly,
                    StartReading, ReadBroken, ReadBody, InspectBody, InspectUnder, CountError,
                    FailMode, Audit, CountInspected, CountSkipped, CountBlocked, Block, Replay,
                    Pass, Relay
      <3> QED  BY <3>1 DEF Add
    <2> USE DEF PCs, Forwarded, Answers, Decisions, Goto
    <2>1. CASE \/ Arrive(r) \/ Load(r) \/ StartReading(r) \/ CountError(r)
               \/ Audit(r) \/ CountInspected(r) \/ CountSkipped(r) \/ CountBlocked(r)
      <3>1. CASE Arrive(r) \/ StartReading(r) \/ CountError(r)
        BY <2>0, <3>1 DEF Arrive, StartReading, CountError
      <3>2. CASE Load(r)
        BY <2>0, <3>2 DEF Load
      <3>3. CASE Audit(r) \/ CountSkipped(r) \/ CountBlocked(r)
        BY <2>0, <3>3 DEF Audit, CountSkipped, CountBlocked
      <3>4. CASE CountInspected(r)
        BY <2>0, <3>4 DEF CountInspected
      <3> QED  BY <2>1, <3>1, <3>2, <3>3, <3>4
    <2>2. CASE PassThrough(r) \/ PassEncoded(r) \/ Replay(r)
      BY <2>0, <2>2 DEF PassThrough, PassEncoded, Replay, Proxy
    <2>3. CASE Encoded(r)
      <3>1. CASE Goto(r, "passEncoded") /\ UNCHANGED outcome
        BY <2>0, <2>3, <3>1 DEF Encoded
      <3>2. CASE Proxy(r, "stream", "none")
        BY <2>0, <2>3, <3>2 DEF Encoded, Proxy
      <3>3. CASE Answer(r, "415")
        BY <2>0, <2>3, <3>3 DEF Encoded, Answer
      <3> QED  BY <2>3, <3>1, <3>2, <3>3 DEF Encoded
    <2>4. CASE RejectEarly(r) \/ FailMode(r) \/ Block(r) \/ Relay(r)
      <3>1. CASE RejectEarly(r)
        BY <2>0, <3>1 DEF RejectEarly, Answer
      <3>2. CASE FailMode(r)
        BY <2>0, <3>2 DEF FailMode, Answer
      <3>3. CASE Block(r)
        BY <2>0, <3>3 DEF Block
      <3>4. CASE Relay(r)
        BY <2>0, <3>4 DEF Relay, Answer
      <3> QED  BY <2>4, <3>1, <3>2, <3>3, <3>4
    <2>5. CASE ReadBroken(r)
      BY <2>0, <2>5 DEF ReadBroken, Failure
    <2>6. CASE ReadBody(r)
      <3>1. BytesRead(snap[r], in[r]) \in 0 .. in[r].length
        BY BytesReadInBody
      <3> QED  BY <2>6, <3>1 DEF ReadBody, Answer
    <2>7. CASE InspectBody(r)
      <3>1. Inspect(snap[r], in[r].path, Payload(r)).decision \in Decisions
        BY PayloadOf, InspectDecides
      <3> QED  BY <2>0, <2>7, <3>1 DEF InspectBody, InspectUnder
    <2>8. CASE Pass(r)
      BY <2>8 DEF Pass, Proxy
    <2> QED  BY <1>3, <2>1, <2>2, <2>3, <2>4, <2>5, <2>6, <2>7, <2>8 DEF Handle
  <1> QED  BY <1>1, <1>2, <1>3 DEF Next

\* A step of one request leaves what the others are about alone.
LEMMA OthersUntouched ==
  ASSUME Shape, NEW r \in Requests, Arrive(r) \/ Handle(r) \/ Relay(r),
         NEW q \in Requests, q # r
  PROVE  /\ pc'[q] = pc[q] /\ in'[q] = in[q] /\ snap'[q] = snap[q]
         /\ read'[q] = read[q] /\ upstream'[q] = upstream[q] /\ result'[q] = result[q]
         /\ header'[q] = header[q] /\ answer'[q] = answer[q]
         /\ q \in audited' <=> q \in audited
  <1> USE DEF Shape, TypeOK, work, outcome, Goto
  <1>1. CASE \/ Arrive(r) \/ Load(r) \/ StartReading(r) \/ CountError(r)
             \/ Audit(r) \/ CountInspected(r) \/ CountSkipped(r) \/ CountBlocked(r)
    BY <1>1 DEF Arrive, Load, StartReading, CountError, Audit, CountInspected,
                CountSkipped, CountBlocked
  <1>2. CASE PassThrough(r) \/ Encoded(r) \/ PassEncoded(r) \/ RejectEarly(r)
    BY <1>2 DEF PassThrough, Encoded, PassEncoded, RejectEarly, Proxy, Answer
  <1>3. CASE ReadBroken(r) \/ ReadBody(r) \/ FailMode(r)
    BY <1>3 DEF ReadBroken, ReadBody, FailMode, Answer
  <1>4. CASE InspectBody(r)
    BY <1>4 DEF InspectBody, InspectUnder
  <1>5. CASE Block(r) \/ Replay(r) \/ Pass(r) \/ Relay(r)
    BY <1>5 DEF Block, Replay, Pass, Relay, Proxy, Answer
  <1> QED  BY <1>1, <1>2, <1>3, <1>4, <1>5 DEF Handle

-----------------------------------------------------------------------------
SoundAt(r) == Sound(pc[r], in[r], snap[r], read[r], upstream[r])

\* The steps that decide nothing about the body.
LEMMA PlainSteps ==
  ASSUME Shape, NEW r \in Requests, SoundAt(r),
         \/ Arrive(r) \/ Load(r) \/ PassThrough(r) \/ Encoded(r) \/ PassEncoded(r)
         \/ RejectEarly(r) \/ StartReading(r) \/ ReadBroken(r) \/ CountError(r)
         \/ Block(r) \/ Relay(r)
  PROVE  SoundAt(r)'
  <1> USE DEF Shape, TypeOK, SoundAt, Sound, Undecided, Inspected, Erring, PCs, work,
              outcome, Goto
  <1>1. CASE Arrive(r) \/ Load(r) \/ StartReading(r)
    BY <1>1 DEF Arrive, Load, StartReading
  <1>2. CASE PassThrough(r) \/ PassEncoded(r) \/ RejectEarly(r)
    BY <1>2 DEF PassThrough, PassEncoded, RejectEarly, Proxy, Answer
  <1>3. CASE Encoded(r)
    BY <1>3 DEF Encoded, Proxy, Answer
  <1>4. CASE ReadBroken(r) \/ CountError(r)
    BY <1>4 DEF ReadBroken, CountError
  <1>5. CASE Block(r) \/ Relay(r)
    BY <1>5 DEF Block, Relay, Answer
  <1> QED  BY <1>1, <1>2, <1>3, <1>4, <1>5

LEMMA ReadBodySound ==
  ASSUME Shape, NEW r \in Requests, SoundAt(r), ReadBody(r)
  PROVE  SoundAt(r)'
  <1> DEFINE n == BytesRead(snap[r], in[r])
  <1>1. /\ read'[r] = n /\ snap' = snap /\ in' = in
        /\ pc[r] = "read" /\ upstream' = upstream
        /\ pc'[r] = (IF n > snap[r].limit THEN "done" ELSE "inspect")
        /\ ~ReadFails(snap[r], in[r])
    BY DEF Shape, TypeOK, ReadBody, Answer, Goto, outcome
  <1>2. n \in Int /\ snap[r].limit \in Int
    BY ShapesAssumption DEF Shape, TypeOK, BytesRead, Cap, Increment
  <1>3. snap[r].limit < MaxInt /\ n <= snap[r].limit => n = in[r].length
    BY ReadWithinLimitIsWhole DEF Shape, TypeOK
  <1> HIDE DEF n
  <1> QED  BY <1>1, <1>2, <1>3 DEF SoundAt, Sound, Undecided, Inspected, Erring, PCs

LEMMA InspectBodySound ==
  ASSUME Shape, NEW r \in Requests, SoundAt(r), InspectBody(r)
  PROVE  SoundAt(r)'
  <1>1. PICK res : /\ res = Inspect(snap[r], in[r].path, Payload(r))
                   /\ pc'[r] = (IF res.failed THEN "countError" ELSE "audit")
    BY DEF Shape, TypeOK, InspectBody, InspectUnder, Goto
  <1>2. /\ read' = read /\ snap' = snap /\ in' = in /\ upstream' = upstream
        /\ pc[r] = "inspect"
    BY DEF InspectBody, InspectUnder, outcome
  <1>3. read[r] = in[r].length => Payload(r).extraction = in[r].extraction
    BY DEF Payload
  <1>4. in[r].extraction \in {"none", "unknown", "broken", "text"}
    BY ShapesAssumption DEF Shape, TypeOK
  <1>5. ~res.failed /\ read[r] = in[r].length =>
          \/ in[r].extraction \in {"text", "none"}
          \/ in[r].extraction = "unknown" /\ snap[r].skipUnknown
    BY <1>1, <1>3, <1>4, InspectFails
  <1> QED  BY <1>1, <1>2, <1>5 DEF SoundAt, Sound, Undecided, Inspected, Erring, PCs

LEMMA DecidedSound ==
  ASSUME Shape, NEW r \in Requests, SoundAt(r),
         \/ FailMode(r) \/ Audit(r) \/ CountInspected(r) \/ CountSkipped(r)
         \/ CountBlocked(r) \/ Replay(r) \/ Pass(r)
  PROVE  SoundAt(r)'
  <1> USE DEF Shape, TypeOK, SoundAt, Sound, Undecided, Inspected, Erring, PCs, work,
              outcome, Goto
  <1>1. CASE FailMode(r)
    BY <1>1 DEF FailMode, CanGoOn, Answer
  <1>2. CASE Audit(r) \/ CountInspected(r) \/ CountSkipped(r) \/ CountBlocked(r)
    BY <1>2 DEF Audit, CountInspected, CountSkipped, CountBlocked
  <1>3. CASE Replay(r)
    BY <1>3 DEF Replay, Proxy
  <1>4. CASE Pass(r)
    BY <1>4 DEF Pass, Proxy
  <1> QED  BY <1>1, <1>2, <1>3, <1>4

LEMMA SoundStep == Shape /\ AllSound /\ [Next]_vars => AllSound'
  <1> SUFFICES ASSUME Shape, AllSound, [Next]_vars PROVE AllSound'
    OBVIOUS
  <1>1. CASE UNCHANGED vars
    BY <1>1 DEF vars, AllSound
  <1>2. CASE Reload
    BY <1>2 DEF Reload, AllSound, work, outcome
  <1>3. ASSUME NEW r \in Requests, Arrive(r) \/ Handle(r) \/ Relay(r)
        PROVE  AllSound'
    <2>1. SoundAt(r)
      BY DEF AllSound, SoundAt
    <2>2. SoundAt(r)'
      BY <1>3, <2>1, PlainSteps, ReadBodySound, InspectBodySound, DecidedSound
      DEF Handle
    <2>3. ASSUME NEW q \in Requests, q # r PROVE SoundAt(q)'
      BY <1>3, <2>3, OthersUntouched DEF AllSound, SoundAt
    <2> QED  BY <2>2, <2>3 DEF AllSound, SoundAt
  <1> QED  BY <1>1, <1>2, <1>3 DEF Next

LEMMA SoundInvariance == Spec => [](Shape /\ AllSound)
  <1>1. Init => Shape /\ AllSound
    <2>1. Init => Shape
      BY ShapesAssumption DEF Init, Shape, TypeOK, PCs, Forwarded, Answers, Decisions, NoResult
    <2>2. Init => AllSound
      BY DEF Init, AllSound, Sound, PCs, Undecided, Inspected, Erring
    <2> QED  BY <2>1, <2>2
  <1>2. Shape /\ AllSound /\ [Next]_vars => (Shape /\ AllSound)'
    BY ShapeStep, SoundStep
  <1> QED  BY <1>1, <1>2, PTL DEF Spec

-----------------------------------------------------------------------------
(* Which requests are blocked.                                             *)

\* What BlocksExactlyHits asks of a request with input i under configuration c.
MustBlock(c, i) == Inspectable(c, i) /\ ~c.dryRun /\ HitBy("block", c, i)

\* What holds of a request at step p that was answered by a, when inspection
\* decided d.
Judged(p, i, c, d, a) ==
  /\ p \in Undecided \cup {"upstream"} => a # "blocked"
  /\ p = "block" => d = "block"
  /\ c.limit < MaxInt =>
       /\ p = "passEncoded" => ~MustBlock(c, i)
       /\ p \in {"read", "inspect"} => InScope(c, i) /\ ~i.encoded /\ ~TooLong(c, i)
       /\ p = "inspect" => ~i.breaks
       /\ p \in Erring => ~MustBlock(c, i) /\ d # "block"
       /\ p \in Inspected => (d = "block" <=> MustBlock(c, i))
       /\ p \in {"upstream", "done"} => (a = "blocked" <=> MustBlock(c, i))

JudgedAt(r) == Judged(pc[r], in[r], snap[r], result[r].decision, answer[r])
AllJudged == \A r \in Requests : JudgedAt(r)

LEMMA InspectBlocks ==
  ASSUME NEW c \in Configs, NEW i \in Inputs, NEW payload,
         payload.extraction = i.extraction, payload.fragments = i.fragments,
         InScope(c, i), ~i.encoded, ~TooLong(c, i), ~i.breaks, i.length <= c.limit
  PROVE  /\ Inspect(c, i.path, payload).decision = "block" <=> MustBlock(c, i)
         /\ Inspect(c, i.path, payload).failed => ~MustBlock(c, i)
  <1>1. CASE i.extraction = "text"
    <2>1. c.rules \in Seq(RuleType) /\ payload.fragments \in Seq(ToSet(i.fragments))
      BY ShapesAssumption
    <2>2. /\ Inspect(c, i.path, payload).decision = "block" <=>
               /\ ~c.dryRun
               /\ \E rule \in ToSet(c.rules), fragment \in ToSet(payload.fragments) :
                    rule.action = "block" /\ Hits(CompileRule(rule), fragment, i.path)
          /\ ~Inspect(c, i.path, payload).failed
      BY <1>1, <2>1, BlocksIfHit
    <2> QED  BY <1>1, <2>2 DEF MustBlock, Inspectable, HitBy
  <1>2. CASE i.extraction # "text"
    <2>1. ~MustBlock(c, i)
      BY <1>2 DEF MustBlock, Inspectable
    <2>2. Inspect(c, i.path, payload).decision # "block"
      BY <1>2, ShapesAssumption DEF Inspect, Skip, Failure
    <2> QED  BY <2>1, <2>2
  <1> QED  BY <1>1, <1>2

LEMMA PlainStepsJudge ==
  ASSUME Shape, NEW r \in Requests, JudgedAt(r),
         \/ Arrive(r) \/ Load(r) \/ PassThrough(r) \/ Encoded(r) \/ PassEncoded(r)
         \/ RejectEarly(r) \/ StartReading(r) \/ CountError(r) \/ Relay(r)
  PROVE  JudgedAt(r)'
  <1> USE DEF Shape, TypeOK, JudgedAt, Judged, Undecided, Inspected, Erring, PCs, work,
              outcome, Goto
  <1>1. CASE Arrive(r) \/ Load(r) \/ StartReading(r) \/ CountError(r)
    BY <1>1 DEF Arrive, Load, StartReading, CountError
  <1>2. CASE PassThrough(r)
    BY <1>2 DEF PassThrough, Proxy, MustBlock, Inspectable
  <1>3. CASE RejectEarly(r)
    BY <1>3 DEF RejectEarly, Answer, MustBlock, Inspectable
  <1>4. CASE Encoded(r)
    BY <1>4 DEF Encoded, Proxy, Answer, MustBlock, Inspectable
  <1>5. CASE PassEncoded(r)
    BY <1>5 DEF PassEncoded, Proxy
  <1>6. CASE Relay(r)
    BY <1>6 DEF Relay, Answer
  <1> QED  BY <1>1, <1>2, <1>3, <1>4, <1>5, <1>6

\* After inspection the decision is only carried out.
LEMMA DecidedStepsJudge ==
  ASSUME Shape, NEW r \in Requests, SoundAt(r), JudgedAt(r),
         \/ FailMode(r) \/ Audit(r) \/ CountInspected(r) \/ CountSkipped(r)
         \/ CountBlocked(r) \/ Block(r) \/ Replay(r) \/ Pass(r)
  PROVE  JudgedAt(r)'
  <1> USE DEF Shape, TypeOK, JudgedAt, Judged, Undecided, Inspected, Erring, PCs, work,
              outcome, Goto
  <1>1. CASE FailMode(r)
    BY <1>1 DEF FailMode, Answer
  <1>2. CASE Audit(r) \/ CountInspected(r) \/ CountSkipped(r) \/ CountBlocked(r)
    BY <1>2 DEF Audit, CountInspected, CountSkipped, CountBlocked
  <1>3. CASE Block(r)
    BY <1>3 DEF Block
  <1>4. CASE Replay(r)
    <2>1. ~MustBlock(snap[r], in[r])
      BY <1>4 DEF Replay, ReadFails, MustBlock, Inspectable
    <2> QED  BY <1>4, <2>1 DEF Replay, Proxy
  <1>5. CASE Pass(r)
    BY <1>5 DEF Pass, Proxy
  <1> QED  BY <1>1, <1>2, <1>3, <1>4, <1>5

LEMMA ReadStepsJudge ==
  ASSUME Shape, NEW r \in Requests, JudgedAt(r), ReadBroken(r) \/ ReadBody(r)
  PROVE  JudgedAt(r)'
  <1> DEFINE c == snap[r]
             i == in[r]
             n == BytesRead(c, i)
  <1>1. c \in Configs /\ i \in Inputs /\ c.limit \in Int /\ i.length \in Nat /\ MaxInt \in Int
    BY ShapesAssumption DEF Shape, TypeOK
  <1>2. CASE ReadBroken(r)
    <2>1. i.breaks /\ pc[r] = "read" /\ snap'[r] = c /\ in'[r] = i
      BY <1>2 DEF ReadBroken, ReadFails, work
    <2>2. ~MustBlock(c, i)
      BY <2>1 DEF MustBlock, Inspectable
    <2>3. /\ pc'[r] = "countError" /\ answer'[r] = answer[r]
          /\ result'[r].decision = "allow"
      BY <1>2 DEF ReadBroken, Failure, Goto, outcome, Shape, TypeOK
    <2>4. answer[r] # "blocked"
      BY <2>1 DEF JudgedAt, Judged, Undecided, PCs
    <2> QED  BY <2>1, <2>2, <2>3, <2>4
             DEF JudgedAt, Judged, Undecided, Inspected, Erring
  <1>3. CASE ReadBody(r)
    <2>1. /\ pc[r] = "read" /\ snap'[r] = c /\ in'[r] = i /\ ~ReadFails(c, i)
          /\ IF n > c.limit THEN pc'[r] = "done" /\ answer'[r] = "413"
             ELSE pc'[r] = "inspect" /\ answer'[r] = answer[r]
      BY <1>3 DEF ReadBody, Answer, Goto, outcome, Shape, TypeOK
    <2>2. n <= i.length /\ n \in Int
      BY <1>1, BytesReadInBody
    <2>3. n > c.limit => ~MustBlock(c, i)
      <3> HIDE DEF n
      <3> QED  BY <1>1, <2>2 DEF MustBlock, Inspectable
    <2>4. n <= c.limit /\ c.limit < MaxInt => ~i.breaks
      <3>1. n <= c.limit /\ c.limit < MaxInt => n = i.length
        BY <1>1, ReadWithinLimitIsWhole
      <3>2. c.limit < MaxInt => Cap(c) = c.limit + 1
        BY <1>1 DEF Cap, Increment
      <3> HIDE DEF n
      <3> QED  BY <1>1, <2>1, <3>1, <3>2 DEF ReadFails
    <2> HIDE DEF n, c, i
    <2> QED  BY <1>1, <2>1, <2>2, <2>3, <2>4
             DEF JudgedAt, Judged, Undecided, Inspected, Erring, PCs, c, i
  <1> QED  BY <1>2, <1>3

LEMMA InspectBodyJudges ==
  ASSUME Shape, NEW r \in Requests, SoundAt(r), JudgedAt(r), InspectBody(r)
  PROVE  JudgedAt(r)'
  <1> DEFINE c == snap[r]
             i == in[r]
             res == Inspect(c, i.path, Payload(r))
  <1>0. c \in Configs /\ i \in Inputs
    BY DEF Shape, TypeOK
  <1>1. /\ pc[r] = "inspect" /\ snap'[r] = c /\ in'[r] = i /\ result'[r] = res
        /\ pc'[r] = IF res.failed THEN "countError" ELSE "audit"
        /\ answer'[r] = answer[r]
    BY DEF InspectBody, InspectUnder, Goto, outcome, Shape, TypeOK
  <1>2. c.limit < MaxInt =>
          /\ InScope(c, i) /\ ~i.encoded /\ ~TooLong(c, i) /\ ~i.breaks
          /\ i.length <= c.limit /\ read[r] = i.length
    BY <1>1 DEF SoundAt, Sound, JudgedAt, Judged
  <1>3. c.limit < MaxInt =>
          /\ res.decision = "block" <=> MustBlock(c, i)
          /\ res.failed => ~MustBlock(c, i)
    <2>1. c.limit < MaxInt => Payload(r).extraction = i.extraction
                              /\ Payload(r).fragments = i.fragments
      BY <1>2, PayloadOf
    <2> HIDE DEF c, i
    <2> QED  BY <1>0, <1>2, <2>1, InspectBlocks
  <1>4. answer[r] # "blocked"
    BY <1>1 DEF JudgedAt, Judged, Undecided, PCs
  <1> HIDE DEF res
  <1> QED  BY <1>1, <1>3, <1>4 DEF JudgedAt, Judged, Undecided, Inspected, Erring

LEMMA JudgedStep == Shape /\ AllSound /\ AllJudged /\ [Next]_vars => AllJudged'
  <1> SUFFICES ASSUME Shape, AllSound, AllJudged, [Next]_vars PROVE AllJudged'
    OBVIOUS
  <1>1. CASE UNCHANGED vars
    BY <1>1 DEF vars, AllJudged, JudgedAt
  <1>2. CASE Reload
    BY <1>2 DEF Reload, AllJudged, JudgedAt, work, outcome
  <1>3. ASSUME NEW r \in Requests, Arrive(r) \/ Handle(r) \/ Relay(r)
        PROVE  AllJudged'
    <2>1. SoundAt(r) /\ JudgedAt(r)
      BY DEF AllSound, SoundAt, AllJudged
    <2>2. JudgedAt(r)'
      BY <1>3, <2>1, PlainStepsJudge, ReadStepsJudge, InspectBodyJudges,
         DecidedStepsJudge DEF Handle
    <2>3. ASSUME NEW q \in Requests, q # r PROVE JudgedAt(q)'
      BY <1>3, <2>3, OthersUntouched DEF AllJudged, JudgedAt
    <2> QED  BY <2>2, <2>3 DEF AllJudged
  <1> QED  BY <1>1, <1>2, <1>3 DEF Next

LEMMA JudgedInvariance == Spec => []AllJudged
  <1>1. Init => AllJudged
    BY DEF Init, AllJudged, JudgedAt, Judged, Undecided, Inspected, Erring, PCs
  <1>2. Shape /\ AllSound /\ AllJudged /\ [Next]_vars => AllJudged'
    BY JudgedStep
  <1> QED  BY <1>1, <1>2, SoundInvariance, PTL DEF Spec

-----------------------------------------------------------------------------
\* The theorem of TypeOK: inspection comes to one of the five decisions, and
\* never more of a body is in memory than there is.
THEOREM TypesHold == Spec => []TypeOK
  <1>1. Shape => TypeOK
    BY DEF Shape
  <1> QED  BY <1>1, SoundInvariance, PTL

\* The theorem of BlocksExactlyHits, for rules, fragments and requests of any
\* number: not one block too many, and none missed.
THEOREM BlocksAreHits == Spec => []BlocksExactlyHits
  <1>1. AllJudged => BlocksExactlyHits
    BY DEF AllJudged, JudgedAt, Judged, MustBlock, BlocksExactlyHits
  <1> QED  BY <1>1, JudgedInvariance, PTL

\* The theorem of WholeBodies: no body is cut by the limit and forwarded, for
\* every limit an int64 can hold but the largest.
THEOREM BodiesAreWhole == Spec => []WholeBodies
  <1>1. AllSound => WholeBodies
    BY DEF AllSound, Sound, WholeBodies
  <1> QED  BY <1>1, SoundInvariance, PTL

\* The theorem of FailsClosed: under fail_close what could not be inspected is
\* not forwarded, on whatever branch inspection failed and whatever
\* configurations were in force before and after.
THEOREM ClosedOnFailure == Spec => []FailsClosed
  <1>1. AllSound => FailsClosed
    BY DEF AllSound, Sound, FailsClosed
  <1> QED  BY <1>1, SoundInvariance, PTL

-----------------------------------------------------------------------------
(* The counters agree with what happened to the requests.  A request adds  *)
(* to a counter at one step of its own: the invariant names, for each      *)
(* counter, the requests that are past that step.  It is finer than        *)
(* Accounts, which is silent on the requests under way.                    *)

Early == {"new", "load", "route", "passEncoded", "read", "inspect"}

\* How far a request is, and what it shows of that.
Told(r) ==
  /\ pc[r] \in Undecided =>
       upstream[r] = "nothing" /\ header[r] = "none" /\ answer[r] = "none"
  /\ pc[r] = "upstream" => answer[r] = "none"
  /\ pc[r] \in Early => result[r] = NoResult /\ r \notin audited
  /\ pc[r] \in Erring \cup {"audit"} => r \notin audited
  /\ pc[r] \in Erring => result[r].failed
  /\ pc[r] \in Inspected \ {"audit"} => r \in audited
  /\ pc[r] = "countSkipped" => result[r].skipped
  /\ pc[r] = "inspect" => ~ReadFails(snap[r], in[r])
  /\ pc[r] \in Erring \cup Inspected /\ ReadFails(snap[r], in[r]) => result[r].failed
  /\ result[r].failed \/ result[r].decision = "skip" => result[r].skipped
  /\ answer[r] = "blocked" => r \in audited
  /\ answer[r] = "400" \/ upstream[r] = "replay" => result[r].failed

AllTold == \A r \in Requests : Told(r)

\* The requests each counter has counted.
Seen == {r \in Requests : pc[r] # "new"}
Counted == {r \in Requests : r \in audited /\ pc[r] # "countInspected"}
Blocked == {r \in Requests : pc[r] = "block" \/ answer[r] = "blocked"}
Skipped == {r \in Requests :
              \/ pc[r] = "passEncoded" \/ header[r] = "skip"
              \/ /\ r \in audited /\ pc[r] \notin {"countInspected", "countSkipped"}
                 /\ result[r].skipped}
Failing == {r \in Requests : result[r].failed /\ pc[r] # "countError"}

Tally(c, S) == IsFiniteSet(S) /\ count[c] = Cardinality(S)
Tallies ==
  /\ Tally("requests", Seen) /\ Tally("inspected", Counted)
  /\ Tally("blocked", Blocked) /\ Tally("skipped", Skipped)
  /\ Tally("extractErrors", Failing) /\ Tally("proxyErrors", {})

\* A counter keeps what it has counted and counts what is new, once.
Bump(c, was, is) ==
  /\ was => is
  /\ count'[c] = count[c] + IF is /\ ~was THEN 1 ELSE 0

Bumps(r) ==
  /\ Bump("requests", r \in Seen, r \in Seen')
  /\ Bump("inspected", r \in Counted, r \in Counted')
  /\ Bump("blocked", r \in Blocked, r \in Blocked')
  /\ Bump("skipped", r \in Skipped, r \in Skipped')
  /\ Bump("extractErrors", r \in Failing, r \in Failing')
  /\ Bump("proxyErrors", FALSE, FALSE)

-----------------------------------------------------------------------------
LEMMA InspectSkips ==
  ASSUME NEW c \in Configs, NEW path, NEW payload,
         payload.fragments \in Seq(ToSet(payload.fragments)),
         payload.extraction \in {"none", "unknown", "broken", "text"},
         Inspect(c, path, payload).decision = "skip"
  PROVE  Inspect(c, path, payload).skipped
  <1>1. CASE payload.extraction = "text"
    <2>1. c.rules \in Seq(RuleType)
      BY ShapesAssumption
    <2>2. Inspect(c, path, payload).decision \in Decided
      BY <1>1, <2>1, BlocksIfHit
    <2> QED  BY <2>2 DEF Decided
  <1>2. CASE payload.extraction # "text"
    BY <1>2 DEF Inspect, Skip, Failure
  <1> QED  BY <1>1, <1>2

\* What inspection failed to read it skipped.
LEMMA FailureSkips ==
  ASSUME NEW c, NEW path, NEW payload, Inspect(c, path, payload).failed
  PROVE  Inspect(c, path, payload).skipped
  BY DEF Inspect, Skip, Failure

LEMMA ToldStep ==
  ASSUME Shape, NEW r \in Requests, Told(r), Arrive(r) \/ Handle(r) \/ Relay(r)
  PROVE  Told(r)'
  <1> USE DEF Shape, TypeOK, Told, Undecided, Inspected, Erring, Early, PCs, work, outcome,
              Goto
  <1>1. CASE Arrive(r) \/ Load(r) \/ StartReading(r) \/ CountError(r)
    BY <1>1 DEF Arrive, Load, StartReading, CountError, ReadFails
  <1>2. CASE PassThrough(r) \/ PassEncoded(r) \/ RejectEarly(r)
    BY <1>2 DEF PassThrough, PassEncoded, RejectEarly, Proxy, Answer
  <1>3. CASE Encoded(r)
    BY <1>3 DEF Encoded, Proxy, Answer
  <1>4. CASE ReadBroken(r)
    BY <1>4 DEF ReadBroken, Failure, NoResult
  <1>5. CASE ReadBody(r)
    BY <1>5 DEF ReadBody, Answer
  <1>6. CASE InspectBody(r)
    <2> DEFINE res == Inspect(snap[r], in[r].path, Payload(r))
    <2>1. res.decision = "skip" \/ res.failed => res.skipped
      BY PayloadOf, InspectSkips, FailureSkips
    <2>2. result'[r] = res
      BY <1>6 DEF InspectBody, InspectUnder
    <2> HIDE DEF res
    <2> QED  BY <1>6, <2>1, <2>2 DEF InspectBody, InspectUnder
  <1>7. CASE FailMode(r)
    BY <1>7 DEF FailMode, Answer
  <1>8. CASE Audit(r) \/ CountInspected(r) \/ CountSkipped(r) \/ CountBlocked(r)
    BY <1>8 DEF Audit, CountInspected, CountSkipped, CountBlocked
  <1>9. CASE Block(r)
    BY <1>9 DEF Block
  <1>10. CASE Replay(r) \/ Pass(r)
    BY <1>10 DEF Replay, Pass, Proxy
  <1>11. CASE Relay(r)
    BY <1>11 DEF Relay, Answer
  <1> QED  BY <1>1, <1>2, <1>3, <1>4, <1>5, <1>6, <1>7, <1>8, <1>9, <1>10, <1>11 DEF Handle

-----------------------------------------------------------------------------
\* Each step of a request increments the counters of what it makes true.
LEMMA StepBumps ==
  ASSUME Shape, NEW r \in Requests, Told(r), Arrive(r) \/ Handle(r) \/ Relay(r)
  PROVE  Bumps(r)
  <1> USE DEF Shape, TypeOK, Told, Undecided, Inspected, Erring, Early, PCs, work, outcome,
              Goto, Add, Counters, Bumps, Bump, Seen, Counted, Blocked, Skipped, Failing
  <1>1. CASE Arrive(r)
    BY <1>1 DEF Arrive, NoResult
  <1>2. CASE Load(r) \/ StartReading(r)
    BY <1>2 DEF Load, StartReading
  <1>3. CASE PassThrough(r) \/ PassEncoded(r) \/ RejectEarly(r)
    BY <1>3 DEF PassThrough, PassEncoded, RejectEarly, Proxy, Answer
  <1>4. CASE Encoded(r)
    BY <1>4 DEF Encoded, Proxy, Answer
  <1>5. CASE ReadBroken(r)
    BY <1>5 DEF ReadBroken, NoResult
  <1>6. CASE ReadBody(r)
    BY <1>6 DEF ReadBody, Answer
  <1>7. CASE InspectBody(r)
    BY <1>7 DEF InspectBody, InspectUnder, NoResult
  <1>8. CASE CountError(r)
    BY <1>8 DEF CountError
  <1>9. CASE FailMode(r)
    BY <1>9 DEF FailMode, Answer
  <1>10. CASE Audit(r)
    BY <1>10 DEF Audit
  <1>11. CASE CountInspected(r)
    BY <1>11 DEF CountInspected
  <1>12. CASE CountSkipped(r)
    BY <1>12 DEF CountSkipped
  <1>13. CASE CountBlocked(r)
    BY <1>13 DEF CountBlocked
  <1>14. CASE Block(r)
    BY <1>14 DEF Block
  <1>15. CASE Replay(r) \/ Pass(r)
    BY <1>15 DEF Replay, Pass, Proxy
  <1>16. CASE Relay(r)
    BY <1>16 DEF Relay, Answer
  <1> QED  BY <1>1, <1>2, <1>3, <1>4, <1>5, <1>6, <1>7, <1>8, <1>9, <1>10, <1>11, <1>12,
              <1>13, <1>14, <1>15, <1>16 DEF Handle

LEMMA OneMore ==
  ASSUME NEW c, NEW S, NEW T, NEW r, Tally(c, S),
         \A q : q # r => (q \in S <=> q \in T), Bump(c, r \in S, r \in T)
  PROVE  IsFiniteSet(T) /\ count'[c] = Cardinality(T)
  <1>1. Cardinality(S) \in Nat
    BY FS_CardinalityType DEF Tally
  <1>2. CASE r \in S \/ r \notin T
    <2>1. T = S
      BY <1>2 DEF Bump
    <2> QED  BY <1>1, <1>2, <2>1 DEF Bump, Tally
  <1>3. CASE r \notin S /\ r \in T
    <2>1. T = S \cup {r}
      BY <1>3
    <2>2. IsFiniteSet(T) /\ Cardinality(T) = Cardinality(S) + 1
      BY <1>3, <2>1, FS_AddElement DEF Tally
    <2> QED  BY <1>3, <2>2 DEF Bump, Tally
  <1> QED  BY <1>2, <1>3

LEMMA TalliesStep == Shape /\ AllTold /\ Tallies /\ [Next]_vars => Tallies'
  <1> SUFFICES ASSUME Shape, AllTold, Tallies, [Next]_vars PROVE Tallies'
    OBVIOUS
  <1> USE DEF Tallies
  <1>1. CASE UNCHANGED vars
    BY <1>1 DEF vars, Tally, Seen, Counted, Blocked, Skipped, Failing
  <1>2. CASE Reload
    BY <1>2 DEF Reload, work, outcome, Tally, Seen, Counted, Blocked, Skipped, Failing
  <1>3. ASSUME NEW r \in Requests, Arrive(r) \/ Handle(r) \/ Relay(r)
        PROVE  Tallies'
    <2>1. Bumps(r)
      BY <1>3, StepBumps DEF AllTold
    <2>2. \A q \in Requests : q # r =>
            /\ pc'[q] = pc[q] /\ answer'[q] = answer[q] /\ header'[q] = header[q]
            /\ result'[q] = result[q] /\ upstream'[q] = upstream[q]
            /\ (q \in audited' <=> q \in audited)
      BY <1>3, OthersUntouched
    <2>4. \A q : q # r => (q \in Seen <=> q \in Seen')
      BY <2>2 DEF Seen
    <2>5. \A q : q # r => (q \in Counted <=> q \in Counted')
      BY <2>2 DEF Counted
    <2>6. \A q : q # r => (q \in Blocked <=> q \in Blocked')
      BY <2>2 DEF Blocked
    <2>7. \A q : q # r => (q \in Skipped <=> q \in Skipped')
      BY <2>2 DEF Skipped
    <2>8. \A q : q # r => (q \in Failing <=> q \in Failing')
      BY <2>2 DEF Failing
    <2>9. Tally("requests", Seen)'
      BY <2>1, <2>4, OneMore DEF Bumps, Tally
    <2>10. Tally("inspected", Counted)'
      BY <2>1, <2>5, OneMore DEF Bumps, Tally
    <2>11. Tally("blocked", Blocked)'
      BY <2>1, <2>6, OneMore DEF Bumps, Tally
    <2>12. Tally("skipped", Skipped)'
      BY <2>1, <2>7, OneMore DEF Bumps, Tally
    <2>13. Tally("extractErrors", Failing)'
      BY <2>1, <2>8, OneMore DEF Bumps, Tally
    <2>14. Tally("proxyErrors", {})'
      <3>1. count'["proxyErrors"] = count["proxyErrors"] + 0
        BY <2>1 DEF Bumps, Bump
      <3>2. count["proxyErrors"] = 0 /\ Cardinality({}) = 0
        BY FS_EmptySet DEF Tally
      <3> QED  BY <3>1, <3>2, FS_EmptySet DEF Tally
    <2> QED  BY <2>9, <2>10, <2>11, <2>12, <2>13, <2>14
  <1> QED  BY <1>1, <1>2, <1>3 DEF Next

LEMMA AllToldStep == Shape /\ AllTold /\ [Next]_vars => AllTold'
  <1> SUFFICES ASSUME Shape, AllTold, [Next]_vars PROVE AllTold'
    OBVIOUS
  <1>1. CASE UNCHANGED vars
    BY <1>1 DEF vars, AllTold, Told
  <1>2. CASE Reload
    BY <1>2 DEF Reload, AllTold, Told, work, outcome
  <1>3. ASSUME NEW r \in Requests, Arrive(r) \/ Handle(r) \/ Relay(r)
        PROVE  AllTold'
    <2>1. Told(r)'
      BY <1>3, ToldStep DEF AllTold
    <2>2. ASSUME NEW q \in Requests, q # r PROVE Told(q)'
      BY <1>3, <2>2, OthersUntouched DEF AllTold, Told
    <2> QED  BY <2>1, <2>2 DEF AllTold
  <1> QED  BY <1>1, <1>2, <1>3 DEF Next

LEMMA TalliesAtFirst == Init => Tallies /\ AllTold
  <1> SUFFICES ASSUME Init PROVE Tallies /\ AllTold
    OBVIOUS
  <1>1. Seen = {} /\ Counted = {} /\ Blocked = {} /\ Skipped = {} /\ Failing = {}
    BY DEF Init, Seen, Counted, Blocked, Skipped, Failing, NoResult
  <1>2. \A c \in Counters : count[c] = 0
    BY DEF Init
  <1>3. Tallies
    BY <1>1, <1>2, FS_EmptySet DEF Tallies, Tally, Counters
  <1>4. AllTold
    BY DEF Init, AllTold, Told, Undecided, Inspected, Erring, Early, NoResult, PCs
  <1> QED  BY <1>3, <1>4

-----------------------------------------------------------------------------
(* From the tallies to what they say of a counter seen from outside.       *)

Settled(c) == {r \in Requests \ InFlight : Counts(c, r)}

\* A tally of what is settled and perhaps of some of what is under way.
LEMMA TallyBetween ==
  ASSUME NEW c, NEW T, Tally(c, T), IsFiniteSet(InFlight),
         Settled(c) \subseteq T, T \subseteq Settled(c) \cup InFlight
  PROVE  count[c] \in Cardinality(Settled(c)) ..
                      Cardinality(Settled(c)) + Cardinality(InFlight)
  <1> DEFINE D == T \ Settled(c)
  <1>1. IsFiniteSet(T) /\ count[c] = Cardinality(T)
    BY DEF Tally
  <1>2. IsFiniteSet(Settled(c)) /\ IsFiniteSet(D)
    BY <1>1, FS_Subset
  <1>3. D \subseteq InFlight
    OBVIOUS
  <1>4. Cardinality(D) <= Cardinality(InFlight)
    BY <1>3, FS_Subset
  <1>5. T = Settled(c) \cup D /\ Settled(c) \cap D = {}
    OBVIOUS
  <1>6. Cardinality(T) = Cardinality(Settled(c)) + Cardinality(D)
    <2>1. Cardinality(Settled(c) \cup D) =
            Cardinality(Settled(c)) + Cardinality(D) - Cardinality(Settled(c) \cap D)
      BY <1>2, FS_Union
    <2>2. Cardinality(Settled(c)) \in Nat /\ Cardinality(D) \in Nat
      BY <1>2, FS_CardinalityType
    <2>3. Cardinality(Settled(c) \cap D) = 0
      BY <1>5, FS_EmptySet
    <2>4. Cardinality(T) = Cardinality(Settled(c) \cup D)
      BY <1>5
    <2> HIDE DEF D
    <2> QED  BY <2>1, <2>2, <2>3, <2>4
  <1>7. /\ Cardinality(Settled(c)) \in Nat /\ Cardinality(D) \in Nat
        /\ Cardinality(InFlight) \in Nat
    BY <1>2, FS_CardinalityType
  <1> HIDE DEF D
  <1> QED  BY <1>1, <1>4, <1>6, <1>7

LEMMA FewerInTally ==
  ASSUME NEW c, NEW S, NEW d, NEW T, Tally(c, S), Tally(d, T), S \subseteq T
  PROVE  count[c] <= count[d]
  BY FS_Subset DEF Tally

\* What is blocked was inspected, and what is inspected was audited.
LEMMA AuditedFirst ==
  ASSUME Shape, AllTold
  PROVE  Blocked \subseteq Counted /\ Counted \subseteq audited
  <1>1. ASSUME NEW r \in Blocked PROVE r \in Counted
    <2>1. r \in Requests /\ Told(r)
      BY <1>1 DEF Blocked, AllTold
    <2>2. pc[r] = "block" => r \in Counted
      BY <2>1 DEF Told, Inspected, Counted
    <2>3. answer[r] = "blocked" => pc[r] # "countInspected"
      BY <2>1 DEF Told, Undecided, PCs
    <2>4. answer[r] = "blocked" => r \in Counted
      BY <2>1, <2>3 DEF Told, Counted
    <2> QED  BY <2>2, <2>4 DEF Blocked
  <1> QED  BY <1>1 DEF Counted

\* For each counter: what is settled is in its tally, and nothing but that and
\* what is under way.
LEMMA TallyBounds ==
  ASSUME Shape, AllTold
  PROVE  /\ Settled("requests") \subseteq Seen
         /\ Seen \subseteq Settled("requests") \cup InFlight
         /\ Settled("inspected") \subseteq Counted
         /\ Counted \subseteq Settled("inspected") \cup InFlight
         /\ Settled("blocked") \subseteq Blocked
         /\ Blocked \subseteq Settled("blocked") \cup InFlight
         /\ Settled("skipped") \subseteq Skipped
         /\ Skipped \subseteq Settled("skipped") \cup InFlight
         /\ Settled("extractErrors") \subseteq Failing
         /\ Failing \subseteq Settled("extractErrors") \cup InFlight
         /\ Settled("proxyErrors") = {}
  <1> USE DEF Settled, InFlight, Counts
  <1>0. \A r \in Requests : Told(r)
    BY DEF AllTold
  <1>1. /\ Settled("requests") \subseteq Seen
        /\ Seen \subseteq Settled("requests") \cup InFlight
    BY DEF Seen
  <1>2. /\ Settled("inspected") \subseteq Counted
        /\ Counted \subseteq Settled("inspected") \cup InFlight
    BY <1>0 DEF Counted, Told, Early
  <1>3. /\ Settled("blocked") \subseteq Blocked
        /\ Blocked \subseteq Settled("blocked") \cup InFlight
    BY <1>0 DEF Blocked, Told, Undecided, PCs
  <1>4. /\ Settled("skipped") \subseteq Skipped
        /\ Skipped \subseteq Settled("skipped") \cup InFlight
    BY <1>0 DEF Skipped, Told, Undecided, Early, PCs
  <1>5. /\ Settled("extractErrors") \subseteq Failing
        /\ Failing \subseteq Settled("extractErrors") \cup InFlight
    BY <1>0 DEF Failing, Told, Early, NoResult
  <1>6. Settled("proxyErrors") = {}
    OBVIOUS
  <1> QED  BY <1>1, <1>2, <1>3, <1>4, <1>5, <1>6

LEMMA TalliesAccount == Shape /\ Tallies /\ AllTold => Accounts
  <1> SUFFICES ASSUME Shape, Tallies, AllTold PROVE Accounts
    OBVIOUS
  <1>1. IsFiniteSet(InFlight) /\ IsFiniteSet(audited)
    <2>1. IsFiniteSet(Seen)
      BY DEF Tallies, Tally
    <2>2. InFlight \subseteq Seen
      BY DEF InFlight, Seen
    <2>3. audited \subseteq Seen
      BY DEF Shape, TypeOK, AllTold, Told, Early, Seen
    <2> QED  BY <2>1, <2>2, <2>3, FS_Subset
  <1>2. ASSUME NEW c \in Counters
        PROVE  count[c] \in Cardinality(Settled(c)) ..
                            Cardinality(Settled(c)) + Cardinality(InFlight)
    <2>1. PICK T : /\ Tally(c, T)
                   /\ Settled(c) \subseteq T /\ T \subseteq Settled(c) \cup InFlight
      BY TallyBounds DEF Tallies, Counters
    <2> QED  BY <1>1, <2>1, TallyBetween
  <1>3. count["blocked"] <= count["inspected"]
    BY AuditedFirst, FewerInTally DEF Tallies
  <1>4. count["inspected"] <= Cardinality(audited)
    BY <1>1, AuditedFirst, FS_Subset DEF Tallies, Tally
  <1> QED  BY <1>2, <1>3, <1>4 DEF Accounts, Settled

\* The theorem of Accounts: for every number of requests in flight, and
\* wherever between two steps the others and a reload come, a counter is off
\* by no more than the requests under way, so that it is exact when there are
\* none; and the counters are behind the audit log in the order of the code.
THEOREM CountersAgree == Spec => []Accounts
  <1>1. Init => Tallies /\ AllTold
    BY TalliesAtFirst
  <1>2. Shape /\ Tallies /\ AllTold /\ [Next]_vars => (Tallies /\ AllTold)'
    BY TalliesStep, AllToldStep
  <1>3. Shape /\ Tallies /\ AllTold => Accounts
    BY TalliesAccount
  <1> QED  BY <1>1, <1>2, <1>3, SoundInvariance, PTL DEF Spec
=============================================================================
