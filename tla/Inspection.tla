----------------------------- MODULE Inspection -----------------------------
(***************************************************************************)
(* The life of one inspect.Service: it is built from a configuration and   *)
(* judges one call after the other, requests of clients and tests of an    *)
(* administrator, from the JSON body to the decision.  It composes         *)
(* Extraction, Normalizer and RuleEngine and compares what they compute    *)
(* with what a reader of the body and of the rules expects, which is       *)
(* stated without recursion, sorting or folding.                           *)
(*                                                                         *)
(* A call is [by, path, json, body, text, role, scope]; the last three     *)
(* are those of a test.                                                    *)
(***************************************************************************)
EXTENDS RuleEngine, Extraction

CONSTANTS Configs,    \* the configurations of a service
          AllCalls,   \* the calls it may get
          Calls(_),   \* those of them tried under a configuration
          Depth       \* how deep the text of a section may be nested

VARIABLES cfg,     \* [rules, dryRun, skipUnknown]
          call,    \* the last call
          answer   \* what it was answered

vars == <<cfg, call, answer>>

NoCall == [by |-> "nobody"]
BadRequest == [Failure EXCEPT !.decision = "none"]

\* inspect.New; a reload makes a new service.
Init == cfg \in Configs /\ call = NoCall /\ answer = Skip

\* Service.Inspect for a request of a client.
InspectRequest ==
  \E c \in Calls(cfg) :
    /\ c.by = "client"
    /\ call' = c
    /\ answer' = Inspect(cfg, c.path, Extract(c.path, c.json, c.body))
    /\ UNCHANGED cfg

\* handleTest: Service.Inspect for a request that it makes up.
InspectTest ==
  \E c \in Calls(cfg) :
    /\ c.by = "test"
    /\ call' = c
    /\ answer' = IF TestRefused(c) THEN BadRequest
                 ELSE Inspect(cfg, TestPath(c), Extract(TestPath(c), c.json, TestBody(c)))
    /\ UNCHANGED cfg

Next == InspectRequest \/ InspectTest
Spec == Init /\ [][Next]_vars

-----------------------------------------------------------------------------
(* What a reader of a body sees in it.  A way into a value is a sequence   *)
(* of numbers: the number of an item of a list, or of a key of an object   *)
(* in the order in which the keys count.                                   *)

PartKeys == <<"text", "content", "input">>
ItemKeys == <<"content", "text", "input_text">>   \* of an item of input
Ways == BoundedSeq(1 .. 3, Depth)

\* Below the first step the text of an object has to be a string.
Inside(value, n, keys) ==
  CASE value.kind = "list" /\ n \in DOMAIN value.items -> value.items[n]
    [] value.kind = "object" ->
         LET inner == Field(value, keys[n])
         IN  IF keys[n] = "text" /\ keys = PartKeys /\ inner.kind # "string"
             THEN Other ELSE inner
    [] OTHER -> Other

At(value, way, keys) ==
  IF way = <<>> THEN value
  ELSE FoldLeft(LAMBDA inner, n : Inside(inner, n, PartKeys),
                Inside(value, Head(way), keys), Tail(way))

Leaves(value, keys) == {way \in Ways : StringValue(At(value, way, keys)) # <<>>}

\* Of an object only the first key that holds any text counts.
Hidden(way, value, keys) ==
  \E other \in Leaves(value, keys), n \in 1 .. Len(way) :
    /\ n <= Len(other) /\ other[n] < way[n]
    /\ SubSeq(other, 1, n - 1) = SubSeq(way, 1, n - 1)
    /\ At(value, SubSeq(way, 1, n - 1), keys).kind = "object"

Earlier(v, w) ==
  \E n \in DOMAIN v \cap DOMAIN w :
    v[n] < w[n] /\ SubSeq(v, 1, n - 1) = SubSeq(w, 1, n - 1)

\* The strings of a value that count, in the order in which they are written.
Pieces(value, keys) ==
  LET ways == SetToSortSeq({w \in Leaves(value, keys) : ~Hidden(w, value, keys)}, Earlier)
  IN  [n \in DOMAIN ways |-> At(value, ways[n], keys).text]

Section(scope, place, pieces) == [scope |-> scope, place |-> place, pieces |-> pieces]
Said(scope, place, value, keys) == {Section(scope, place, Pieces(value, keys))}

\* The texts with a role that stand in the list under a key of the body.
Turns(body, key, TextOf(_)) ==
  LET list == Field(body, key) IN
  IF list.kind # "list" THEN {}
  ELSE {Section(IF list.items[i].kind = "string" \/ list.items[i].role = ""
                THEN "user" ELSE list.items[i].role,
                <<key, i>>, TextOf(list.items[i])) :
          i \in {j \in DOMAIN list.items : list.items[j].kind \in {"string", "object"}}}

MessageText(item) ==
  IF item.kind = "string" THEN <<>> ELSE Pieces(Field(item, "content"), PartKeys)

Sections(path, body) ==
  CASE path = "/v1/chat/completions" -> Turns(body, "messages", MessageText)
    [] path = "/v1/responses" ->
         Said("instructions", <<"instructions">>, Field(body, "instructions"), PartKeys)
         \cup IF Field(body, "input").kind = "list"
              THEN Turns(body, "input", LAMBDA item : Pieces(item, ItemKeys))
              ELSE Said("user", <<"input">>, Field(body, "input"), PartKeys)
    [] path = "/v1/messages" ->
         Said("system", <<"system">>, Field(body, "system"), PartKeys)
         \cup Turns(body, "messages", MessageText)

\* A test is about the text it was given, in the scope that was asked for.
PathOf(c) == IF c.by = "test" THEN TestPath(c) ELSE c.path
ScopeAsked(c) ==
  CASE c.scope # "" -> c.scope
    [] c.scope = "" /\ c.role # "" -> c.role
    [] c.scope = "" /\ c.role = "" -> "user"

Asked(c) ==
  LET scope == ScopeAsked(c)
      place == CASE PathOf(c) = "/v1/responses" /\ scope = "user" -> <<"input">>
                 [] PathOf(c) = "/v1/responses" /\ scope # "user" -> <<scope>>
                 [] PathOf(c) = "/v1/messages" /\ scope = "system" -> <<scope>>
                 [] OTHER -> <<"messages", 1>>
  IN  {Section(scope, place, IF Blank(c.text) THEN <<>> ELSE <<c.text>>)}

FromText(c) == c.by = "test" /\ c.body = Other

Readable(c) ==
  PathOf(c) \in ExtractorPaths /\ c.json /\ (FromText(c) \/ c.body.kind = "object")

Reading ==
  [c \in AllCalls |->
     IF ~Readable(c) THEN {}
     ELSE {s \in IF FromText(c) THEN Asked(c) ELSE Sections(PathOf(c), c.body) :
             s.pieces # <<>>}]

-----------------------------------------------------------------------------
(* What such a reader expects of the rules.                                *)

Letters(text) ==
  SelectSeq([i \in DOMAIN text |-> Lowered(text[i])],
            LAMBDA rune : rune \notin Spaces \cup ZeroWidth)

\* The words of a rule are looked for in the letters of all the pieces
\* together, the literals of a pattern also in the pieces line by line.
Mentions(match, pieces) ==
  LET all == Letters(FlattenSeq(pieces))
      lines == JoinLines(pieces)
      inside(w, text) == \E v \in Prefixes(text) : IsSuffix(w, v)
  IN  CASE match.type = "contains_any" -> \E w \in match.words : inside(Letters(w), all)
        [] match.type = "exact" -> \E w \in match.words : Letters(w) = all
        [] match.type = "fuzzy_contains_any" -> all \in match.words
        [] match.type = "regex" -> \E w \in match.words : inside(w, all) \/ inside(w, lines)

Applies(rule, section) ==
  /\ rule.enabled /\ PathOf(call) \in rule.endpoints
  /\ rule.scopes \cap {"all", section.scope} # {}
  /\ Mentions(rule.match, section.pieces)

Applying == {<<i, s>> \in (DOMAIN cfg.rules) \X Reading[call] : Applies(cfg.rules[i], s)}
Actions == {cfg.rules[p[1]].action : p \in Applying}

\* A test that names one scope, and one that its path can express.
Clear(c) ==
  FromText(c) => /\ c.role \in {"", c.scope} \/ c.scope = ""
                 /\ PathOf(c) = "/v1/responses" => ScopeAsked(c) \in {"user", "instructions"}

Judged == call # NoCall /\ Clear(call)

\* From the JSON body to the decision: the strongest action of all the rules
\* that hit what the body says decides, however its text is cut into parts,
\* spaced and cased, in whatever order the rules are configured, and for a test
\* of the administrator as for the request of a client; dry-run weakens a block.
StrongestActionDecides ==
  (Judged /\ Reading[call] # {}) =>
    answer.decision = CASE "block" \in Actions -> IF cfg.dryRun THEN "log_only" ELSE "block"
                        [] "block" \notin Actions /\ "tag_and_pass" \in Actions -> "tag_and_pass"
                        [] Actions = {"log_only"} -> "log_only"
                        [] Actions = {} -> "allow"

\* A call goes without inspection only if there is no text in it: a body with
\* text anywhere the protocol of its path has it is inspected, and what is not
\* inspected is an error when it should have been: no JSON, JSON that is neither
\* an object nor null, or no text while skip_on_unknown_schema is off.
OnlyTextlessIsSkipped ==
  Judged =>
    /\ answer.skipped <=> Reading[call] = {}
    /\ answer.failed <=>
         \/ FromText(call) /\ (Blank(call.text) \/ PathOf(call) \notin ExtractorPaths)
         \/ /\ PathOf(call) \in ExtractorPaths /\ call.json /\ Reading[call] = {}
            /\ \/ ~cfg.skipUnknown
               \/ ~FromText(call) /\ call.body.kind \notin {"object", "null"}

\* Every rule that hits a text is reported for it, once, with the scope and the
\* place of that text, and nothing else is.
EveryHitReported ==
  Judged =>
    /\ Len(answer.matches) = Cardinality(Applying)
    /\ {<<m.id, m.scope, m.place>> : m \in ToSet(answer.matches)}
         = {<<cfg.rules[p[1]].id, p[2].scope, p[2].place>> : p \in Applying}

\* The report lists the rules by descending priority and rules of the same
\* priority in the order of the configuration, which decides whose message a
\* blocked caller is shown.
ReportedByPriority ==
  \A m, n \in DOMAIN answer.matches : m < n =>
    LET rules == cfg.rules
        i == CHOOSE k \in DOMAIN rules : rules[k].id = answer.matches[m].id
        j == CHOOSE k \in DOMAIN rules : rules[k].id = answer.matches[n].id
    IN  \/ rules[i].priority > rules[j].priority
        \/ rules[i].priority = rules[j].priority /\ i <= j
=============================================================================
