---------------------------- MODULE MCConfigLoad ----------------------------
(* One file that loads and many that differ from it in a few places, under *)
(* several environments.  A kilobyte is 4 bytes and an int64 has 8 bits:   *)
(* one gigabyte is 64 bytes and two of them wrap.                          *)
EXTENDS ConfigLoad

MCBadUrls == {"up:8080"}
MCBadDurations == {"soon"}
MCBadPatterns == {"("}
MCRunes == {"k", "m", "b", "g", "x", "B", "G", "T", "M", "K", " ", ".", "5"}
MCRefusedPaths == {"metrics"}
MCNumeral == "0" :> 0 @@ "200" :> 200 @@ "42" :> 42

Plain == "base_url" :> "http://up"

\* One setting, or two, away from the plain file.
Settings ==
  {Plain, <<>>,
   "base_url" :> "up:8080", "listen" :> "" @@ Plain, "mode" :> "enforce" @@ Plain,
   "mode" :> "audit" @@ Plain, "fail_mode" :> "" @@ Plain,
   "metrics_path" :> "" @@ Plain, "metrics_path" :> "/healthz" @@ Plain,
   "metrics_path" :> "metrics" @@ Plain, "metrics_path" :> "/admin/test" @@ Plain,
   "metrics_path" :> "" @@ "metrics_enabled" :> FALSE @@ Plain,
   "admin_enabled" :> TRUE @@ "bearer_token" :> " " @@ Plain,
   "admin_enabled" :> TRUE @@ "bearer_token" :> "secret" @@ Plain,
   "admin_enabled" :> TRUE @@ "bearer_token" :> "secret"
     @@ "metrics_path" :> "/admin/test" @@ Plain}
  \cup {d :> "soon" @@ Plain : d \in Durations}
  \cup {d :> "5s" @@ Plain : d \in Durations}

Units4 == {<<>>, <<"B">>, <<"k", "B">>, <<" ", "m", "b">>, <<"G", "B">>,
           <<"T", "B">>, <<".", "5", "M", "B">>, <<"x">>}
Sizes == {Size(<<n>>, u) : n \in {-1, 2, 33}, u \in Units4}
         \cup {Size(<<2>>, u) : u \in {<<" ">>, <<" ", "K", "b", " ", " ">>, <<"b", " ">>}}
         \cup {Size(<<128>>, <<>>)}
         \cup {Size(<<>>, u) : u \in {<<>>, <<"K", "B">>}}

Block(status, mode, message) ==
  [type |-> "block", status_code |-> status, response_mode |-> mode,
   content_type |-> "", message |-> message]
Log == [Block(0, "", "") EXCEPT !.type = "log_only"]

Words == [type |-> "exact", words |-> {"a"}, patterns |-> {}, distance |-> 0]
Regex(p) == [type |-> "regex", words |-> {}, patterns |-> {p}, distance |-> 0]
Fuzzy(n) == [type |-> "fuzzy_contains_any", words |-> {"a"}, patterns |-> {}, distance |-> n]

Rule(id, match, action) ==
  [id |-> id, enabled |-> TRUE, endpoints |-> {"chat"}, scopes |-> {"user"},
   match |-> match, action |-> action]

Actions == {Block(s, m, t) : s \in {0, 451}, m \in Modes \cup {"", "html"}, t \in {"", "no"}}
           \cup {Block(s, "", "") : s \in {-1, 42, 2000}}
           \cup {Log, [Log EXCEPT !.type = "tag_and_pass"], [Log EXCEPT !.type = "drop"]}
Matches == {Words, [Words EXCEPT !.words = {}], [Words EXCEPT !.type = "contains"],
            Regex("a+"), Regex("("), [Regex("a+") EXCEPT !.patterns = {}],
            Fuzzy(0), Fuzzy(1), Fuzzy(6), Fuzzy(7), [Fuzzy(1) EXCEPT !.words = {}]}
OneRule == {Rule("r", Words, a) : a \in Actions} \cup {Rule("r", m, Log) : m \in Matches}
           \cup {[Rule("r", Regex("("), Log) EXCEPT !.enabled = FALSE],
                 [Rule("r", Words, Log) EXCEPT !.endpoints = {}],
                 [Rule("r", Words, Log) EXCEPT !.scopes = {}], Rule("", Words, Log)}
Rules ==
  {<<r>> : r \in OneRule}
  \cup {<<Rule(i, Words, Block(0, "", "")), Rule(j, Words, Log)>> : i, j \in {"r", "s"}}

File(settings, rules) == [parses |-> TRUE, settings |-> settings, rules |-> rules]
MCFiles ==
  {File(s, <<>>) : s \in Settings} \cup {File(Plain, r) : r \in Rules}
  \cup {File("request_body_limit" :> size @@ Plain, <<>>) : size \in Sizes}
  \cup {[File(Plain, <<>>) EXCEPT !.parses = FALSE]}

MCEnvirons ==
  {<<>>, "base_url" :> "http://env" @@ "mode" :> "enforce", "mode" :> " ",
   "request_body_limit" :> Size(<<1>>, <<"g", "b">>),
   "status_code" :> "200" @@ "response_mode" :> "empty",
   "status_code" :> "0" @@ "response_mode" :> " " @@ "message" :> " ",
   "status_code" :> "", "status_code" :> "42", "response_mode" :> "text" @@ "content_type" :> "text/html",
   "message" :> "env" @@ "listen" :> ":1"}
=============================================================================
