----------------------------- MODULE Extraction -----------------------------
(***************************************************************************)
(* internal/extractor: the fragments of text that the three extractors     *)
(* find in the JSON body of a request, and the body that /admin/test makes *)
(* of a text.                                                              *)
(*                                                                         *)
(* A JSON value is a record with a kind: a string with its text, a list    *)
(* with its items, an object with its fields, null, or anything else.  The *)
(* role of an object is kept beside its other fields; "" stands for none.  *)
(* A fragment is [scope, place, text], its place the JSON path that a      *)
(* match reports.                                                          *)
(***************************************************************************)
EXTENDS Naturals, SequencesExt

String(text) == [kind |-> "string", text |-> text]
List(items) == [kind |-> "list", items |-> items]
Message(role, fields) == [kind |-> "object", role |-> role, fields |-> fields]
Object(fields) == Message("", fields)
Null == [kind |-> "null"]
Other == [kind |-> "other"]    \* a number, a boolean, or no such field
Malformed == [kind |-> "malformed"]   \* a body that is no JSON

Field(object, key) ==
  IF key \in DOMAIN object.fields THEN object.fields[key] ELSE Other

-----------------------------------------------------------------------------
(* collectText.                                                            *)

StringValue(value) == IF value.kind = "string" THEN value.text ELSE <<>>

FirstTextOnly(texts) == Head(texts)   \* slip: nothing is fallen back on

\* The first text that is not empty.
FirstText(texts) ==
  FoldLeft(LAMBDA found, text : IF found = <<>> THEN text ELSE found, <<>>, texts)

JoinFirst(parts) == FirstText(parts)   \* slip: the first part only

\* strings.Join of the parts that are not empty, with a line end between.
JoinLines(parts) ==
  FoldLeft(LAMBDA joined, part :
             IF joined = <<>> THEN part
             ELSE IF part = <<>> THEN joined ELSE joined \o <<"\n">> \o part,
           <<>>, parts)

RECURSIVE CollectText(_)
CollectText(value) ==
  CASE value.kind = "string" -> value.text
    [] value.kind = "list" ->
         JoinLines([i \in DOMAIN value.items |-> CollectText(value.items[i])])
    [] value.kind = "object" ->
         FirstText(<<StringValue(Field(value, "text")),
                     CollectText(Field(value, "content")),
                     CollectText(Field(value, "input"))>>)
    [] OTHER -> <<>>

-----------------------------------------------------------------------------
(* The extractors: a text that is empty makes no fragment.                 *)

Fragment(scope, place, text) ==
  IF text = <<>> THEN <<>> ELSE <<[scope |-> scope, place |-> place, text |-> text]>>

ScopeRoleless(message) == message.role   \* slip: no default

ScopeOf(message) == IF message.role = "" THEN "user" ELSE message.role

\* The loop over messages; an item that is no object is passed over.
Messages(value) ==
  IF value.kind # "list" THEN <<>>
  ELSE FlattenSeq([i \in DOMAIN value.items |->
         LET message == value.items[i] IN
         IF message.kind # "object" THEN <<>>
         ELSE Fragment(ScopeOf(message), <<"messages", i>>,
                       CollectText(Field(message, "content")))])

InputItem(item, place) ==
  CASE item.kind = "string" -> Fragment("user", place, item.text)
    [] item.kind = "object" ->
         Fragment(ScopeOf(item), place,
                  FirstText(<<CollectText(Field(item, "content")),
                              CollectText(Field(item, "text")),
                              CollectText(Field(item, "input_text"))>>))
    [] OTHER -> <<>>

Input(value) ==
  IF value.kind = "list"
  THEN FlattenSeq([i \in DOMAIN value.items |->
                     InputItem(value.items[i], <<"input", i>>)])
  ELSE Fragment("user", <<"input">>, CollectText(value))

OpenAIChat(body) == Messages(Field(body, "messages"))

OpenAIResponses(body) ==
  Fragment("instructions", <<"instructions">>, CollectText(Field(body, "instructions")))
    \o Input(Field(body, "input"))

AnthropicMessages(body) ==
  Fragment("system", <<"system">>, CollectText(Field(body, "system")))
    \o Messages(Field(body, "messages"))

Fragments(path, body) ==
  CASE path = "/v1/chat/completions" -> OpenAIChat(body)
    [] path = "/v1/responses" -> OpenAIResponses(body)
    [] path = "/v1/messages" -> AnthropicMessages(body)

ExtractorPaths == {"/v1/chat/completions", "/v1/responses", "/v1/messages"}

\* decodeObject: to json.Unmarshal null is a map without keys.
Decode(body) == IF body = Null THEN Object(<<>>) ELSE body

\* What Service.Inspect gets from the extractor that matches, if any.
Extract(path, json, body) ==
  LET Outcome(extraction, fragments) ==
        [extraction |-> extraction, fragments |-> fragments]
  IN  CASE path \notin ExtractorPaths \/ ~json -> Outcome("none", <<>>)
        [] path \in ExtractorPaths /\ json ->
             IF Decode(body).kind # "object" THEN Outcome("broken", <<>>)
             ELSE LET found == Fragments(path, Decode(body))
                  IN  Outcome(IF found = <<>> THEN "unknown" ELSE "text", found)

-----------------------------------------------------------------------------
(* buildTestInspectionRequest and synthesizeTestBody of /admin/test.  A    *)
(* payload is [path, json, body, text, role, scope]; Other is no body.     *)

TestPath(payload) ==
  IF payload.path = "" THEN "/v1/chat/completions" ELSE payload.path

TestRole(payload) ==
  CASE payload.role # "" -> payload.role
    [] payload.role = "" /\ payload.scope # "" -> payload.scope
    [] payload.role = "" /\ payload.scope = "" -> "user"

SynthesizeTestBody(payload) ==
  LET text == String(payload.text)
      asked == {payload.scope, TestRole(payload)}
      message == Object([messages |->
                   List(<<Message(TestRole(payload), [content |-> text])>>)])
  IN  CASE TestPath(payload) = "/v1/chat/completions" -> message
        [] TestPath(payload) = "/v1/responses" ->
             IF "instructions" \in asked THEN Object([instructions |-> text])
             ELSE Object([input |-> text])
        [] TestPath(payload) = "/v1/messages" ->
             IF "system" \in asked THEN Object([system |-> text]) ELSE message

\* A text of white space only is no text (strings.TrimSpace; runes of no width
\* are not white space to it).
Blank(text) == \A i \in DOMAIN text : text[i] \in {" ", "\n", "ideographic space"}

TestRefused(payload) ==
  payload.body = Other /\ (Blank(payload.text) \/ TestPath(payload) \notin ExtractorPaths)

TestBody(payload) ==
  IF payload.body = Other THEN SynthesizeTestBody(payload) ELSE payload.body
=============================================================================
