----------------------------- MODULE RuleEngine -----------------------------
(***************************************************************************)
(* internal/engine and internal/inspect as functions: which rules a        *)
(* request hits, in which order the hits are reported, and the decision    *)
(* they amount to.                                                         *)
(*                                                                         *)
(* A rule is [id, enabled, priority, endpoints, scopes, match, action] and *)
(* its match is [type, words].  The words of a "regex" rule are the        *)
(* literals its patterns look for, those of a "fuzzy_contains_any" rule    *)
(* the texts that FuzzyMatch finds within its distance.  A fragment is     *)
(* [scope, place, text].                                                   *)
(***************************************************************************)
EXTENDS Integers, FiniteSets, SequencesExt, Normalizer

ActionTypes == {"block", "tag_and_pass", "log_only"}
RuleType == [id : STRING, enabled : BOOLEAN, priority : Int,
             endpoints : SUBSET STRING, scopes : SUBSET STRING,
             match : [type : STRING, words : SUBSET Seq(STRING)], action : ActionTypes]

-----------------------------------------------------------------------------
(* engine.New: the rules by descending priority, ties as configured, and   *)
(* their words normalized.                                                 *)

PrecedesReversed(rules, j, i) ==   \* slip: ties the other way round
  \/ rules[j].priority > rules[i].priority
  \/ rules[j].priority = rules[i].priority /\ j >= i

Precedes(rules, j, i) ==
  \/ rules[j].priority > rules[i].priority
  \/ rules[j].priority = rules[i].priority /\ j <= i

Rank(rules, i) == Cardinality({j \in DOMAIN rules : Precedes(rules, j, i)})

CompileRule(rule) ==
  IF rule.match.type \in {"contains_any", "exact"}
  THEN [rule EXCEPT !.match =
          [rule.match EXCEPT !.words = {Normalize(word) : word \in rule.match.words}]]
  ELSE rule

Compile(rules) ==
  [k \in DOMAIN rules |->
     CompileRule(rules[CHOOSE i \in DOMAIN rules : Rank(rules, i) = k])]

-----------------------------------------------------------------------------
(* compiledRule.matches: the rule's words against a fragment.              *)

HasWord(text, word) ==
  \E start \in 0 .. Len(text) - Len(word) :
    SubSeq(text, start + 1, start + Len(word)) = word

Matches(match, text) ==
  LET normalized == Normalize(text) IN
  CASE match.type = "contains_any" ->
         \E word \in match.words : HasWord(normalized, word)
    [] match.type \in {"exact", "fuzzy_contains_any"} -> normalized \in match.words
    [] match.type = "regex" ->
         \E word \in match.words : HasWord(text, word) \/ HasWord(normalized, word)

-----------------------------------------------------------------------------
(* Engine.Evaluate: every rule that applies against every fragment.        *)

ScopeMatches(rule, fragment) ==
  "all" \in rule.scopes \/ fragment.scope \in rule.scopes

Hits(rule, fragment, path) ==
  /\ rule.enabled
  /\ path \in rule.endpoints
  /\ ScopeMatches(rule, fragment)
  /\ Matches(rule.match, fragment.text)

MatchOf(rule, fragment) ==
  [id |-> rule.id, action |-> rule.action,
   scope |-> fragment.scope, place |-> fragment.place]

\* The inner loop, over the fragments.
AddHits(matches, rule, fragments, path) ==
  LET Add(found, fragment) ==
        IF Hits(rule, fragment, path) THEN Append(found, MatchOf(rule, fragment))
        ELSE found
  IN  FoldLeft(Add, matches, fragments)

Evaluate(engine, fragments, path) ==
  LET AddRule(found, rule) == AddHits(found, rule, fragments, path)
  IN  FoldLeft(AddRule, <<>>, engine)

-----------------------------------------------------------------------------
(* decide: block at once, else tag_and_pass, else log_only.                *)

Combine(decision, match) ==
  IF "block" \in {decision, match.action} THEN "block"    \* the early return
  ELSE IF match.action = "tag_and_pass" THEN "tag_and_pass"
  ELSE IF match.action = "log_only" /\ decision = "allow" THEN "log_only"
  ELSE decision

Decide(matches) == FoldLeft(Combine, "allow", matches)

EnforcedAlways(dryRun, decision) == decision   \* slip: dry-run is forgotten

Enforced(dryRun, decision) ==
  IF dryRun /\ decision = "block" THEN "log_only" ELSE decision

-----------------------------------------------------------------------------
(* Service.Inspect.  payload.extraction is what the extractor of the path  *)
(* makes of the body: fragments, an unknown schema, a body it cannot       *)
(* decode, or "none" where no extractor serves the path.                   *)

Skip == [decision |-> "skip", skipped |-> TRUE, failed |-> FALSE, matches |-> <<>>]
Failure == [decision |-> "allow", skipped |-> TRUE, failed |-> TRUE, matches |-> <<>>]

Inspect(cfg, path, payload) ==
  IF payload.extraction = "none" THEN Skip
  ELSE IF payload.extraction = "unknown" /\ cfg.skipUnknown THEN Skip
  ELSE IF payload.extraction \in {"unknown", "broken"} THEN Failure
  ELSE LET matches == Evaluate(Compile(cfg.rules), payload.fragments, path)
       IN  [decision |-> Enforced(cfg.dryRun, Decide(matches)),
            skipped |-> FALSE, failed |-> FALSE, matches |-> matches]
=============================================================================
