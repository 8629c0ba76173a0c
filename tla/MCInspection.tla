---------------------------- MODULE MCInspection ----------------------------
(* Two kinds of configurations: lists of up to three rules of every shape, *)
(* tried on a few plain requests, and single rules of every match type,    *)
(* tried on many bodies of all three protocols.                            *)
EXTENDS Inspection

Chat == "/v1/chat/completions"
Responses == "/v1/responses"
Anthropic == "/v1/messages"

-----------------------------------------------------------------------------
(* Rules.                                                                  *)

Rule(id, enabled, scopes, priority, action) ==
  [id |-> id, enabled |-> enabled, scopes |-> scopes,
   match |-> [type |-> "contains_any", words |-> {<<"a">>}],
   priority |-> priority, action |-> action, endpoints |-> {Chat}]

Shapes == (BOOLEAN \X {{"all"}, {"user"}}) \ {<<FALSE, {"user"}>>}
Variants(id) ==
  {Rule(id, s[1], s[2], p, act) : s \in Shapes, p \in {1, 2},
                                  act \in {"block", "tag_and_pass", "log_only"}}
Always(id) == {v \in Variants(id) : v.enabled /\ "all" \in v.scopes}

RuleLists ==
  {<<>>} \cup {<<x>> : x \in Variants(1)}
  \cup {<<x, y, z>> : x \in Variants(1), y \in Always(2), z \in Variants(3)}

Cfg(rules, dryRun, skipUnknown) ==
  [rules |-> rules, dryRun |-> dryRun, skipUnknown |-> skipUnknown]

ListConfigs == {Cfg(rules, dryRun, TRUE) : rules \in RuleLists, dryRun \in BOOLEAN}

\* "A B" is a word for two of the types, and a literal for one.
Matching ==
  {[type |-> "contains_any", words |-> {<<"A", " ", "B">>, <<"a", "a", "a">>}],
   [type |-> "exact", words |-> {<<"A", " ", "B">>}],
   [type |-> "regex", words |-> {<<"A", "\n", "b">>, <<"b", "a">>}],
   [type |-> "fuzzy_contains_any", words |-> {<<"a", "b">>, <<"b">>}]}
Everywhere == {Chat, Responses, Anthropic}
Probe(match, scopes) ==
  [Rule(1, TRUE, scopes, 1, "block") EXCEPT !.match = match, !.endpoints = Everywhere]
\* A second rule sees every text of whatever scope.
Watch == [Rule(2, TRUE, {"all"}, 2, "log_only") EXCEPT !.endpoints = Everywhere]

ProbeConfigs ==
  {Cfg(<<Probe(match, {"user"}), Watch>>, FALSE, TRUE) : match \in Matching}
  \cup {Cfg(<<Probe(Watch.match, {"system", "instructions"})>>, FALSE, TRUE),
        Cfg(<<Watch>>, FALSE, FALSE)}

MCConfigs == ListConfigs \cup ProbeConfigs

-----------------------------------------------------------------------------
(* Calls.                                                                  *)

Client(path, body) ==
  [by |-> "client", path |-> path, json |-> TRUE, body |-> body,
   text |-> <<>>, role |-> "", scope |-> ""]
Test(path, body, text, role, scope) ==
  [by |-> "test", path |-> path, json |-> TRUE, body |-> body,
   text |-> text, role |-> role, scope |-> scope]

A == <<"A">>
AB == <<"a", " ", "B">>
Nothing == <<>>

Strings == {String(A), String(<<"b">>), String(AB), String(Nothing),
            String(<<"zwsp", "\n">>)}
PartsOf(values) ==
  {Object([text |-> v]) : v \in values}
  \cup {Object([text |-> v, content |-> w]) : v \in {String(Nothing), Other}, w \in values}
Mixed == {Object([text |-> String(A), content |-> String(<<"b">>)]),
          Object([content |-> List(<<>>), input |-> String(AB)]),
          Object([text |-> List(<<String(A)>>), input |-> String(<<"b">>)]),
          Object([kind |-> String(A)]),
          Object([content |-> List(<<Object([text |-> String(A)]), Other,
                                     Object([input |-> List(<<String(<<"b">>)>>)])>>)])}
Flat == Strings \cup {Other} \cup Mixed
Contents ==
  Flat \cup PartsOf({String(A)})
  \cup {List(<<v, w>>) : v \in {String(A), Object([text |-> String(A)]), Null},
                         w \in Flat \cup {List(<<String(AB)>>), Object([text |-> String(<<"b">>)])}}

ChatBody(roles, contents) ==
  Object([messages |-> List([i \in DOMAIN roles |->
                               Message(roles[i], [content |-> contents[i]])])])

ChatBodies ==
  {ChatBody(<<role>>, <<content>>) : role \in {"", "system"}, content \in Contents}
  \cup {ChatBody(<<"", "system">>, <<c, String(<<"b">>)>>) : c \in Flat}
  \cup {Object(<<>>), Object([messages |-> String(A)]), Object([messages |-> List(<<>>)]),
        Object([messages |-> List(<<String(A), Message("user", [content |-> String(AB)])>>)]),
        Malformed, Null, Other, String(A), List(<<Message("user", [content |-> String(A)])>>)}

Items == {Message("system", [content |-> String(A), text |-> String(<<"b">>)]),
          Object([text |-> List(<<String(A), String(<<"b">>)>>), input_text |-> String(A)]),
          Object([input_text |-> Object([text |-> String(AB)])]),
          Object([input |-> String(AB)])}
ResponsesBodies ==
  {Object([input |-> v]) : v \in Flat \cup {List(<<v, w>>) : v \in Items \cup Strings, w \in Items}}
  \cup {Object([instructions |-> v, input |-> w]) :
          v \in Flat, w \in {Other, String(<<"b">>), List(<<String(A)>>)}}

AnthropicBodies ==
  {Object([system |-> v]) : v \in Contents}
  \cup {Object([system |-> v, messages |-> List(<<Message("assistant", [content |-> w])>>)]) :
          v \in Flat, w \in {String(AB), Other, List(<<String(A), String(<<"b">>)>>)}}
  \cup {Null}

Scopes == {"", "user", "system", "instructions"}
Tests ==
  {Test(path, Other, text, role, scope) :
     path \in {"", Chat, Responses, Anthropic, "/v1/models"}, text \in {AB, <<" ">>},
     role \in Scopes, scope \in Scopes}
  \cup {Test(Chat, ChatBody(<<"system">>, <<String(AB)>>), A, "", "user"),
        Test("/v1/models", Object(<<>>), A, "", ""), Test(Chat, Null, A, "", ""),
        [Test(Chat, Other, AB, "", "") EXCEPT !.json = FALSE]}

ManyCalls ==
  {Client(Chat, b) : b \in ChatBodies} \cup {Client(Responses, b) : b \in ResponsesBodies}
  \cup {Client(Anthropic, b) : b \in AnthropicBodies} \cup Tests
  \cup {Client("/v1/models", ChatBody(<<"">>, <<String(AB)>>)),
        [Client(Chat, ChatBody(<<"">>, <<String(AB)>>)) EXCEPT !.json = FALSE]}

\* One and two messages that say "a" or something else.
FewCalls ==
  LET Says == {String(<<"a">>), String(<<"b">>)}
  IN  {Client(Chat, ChatBody(<<role>>, <<c>>)) : role \in {"", "system"}, c \in Says}
      \cup {Client(Chat, ChatBody(<<role, other>>, <<c, String(<<"a">>)>>)) :
              role \in {"", "system"}, other \in {"", "system"}, c \in Says}

MCCalls(c) == IF c \in ProbeConfigs THEN ManyCalls ELSE FewCalls
MCAllCalls == ManyCalls \cup FewCalls
=============================================================================
