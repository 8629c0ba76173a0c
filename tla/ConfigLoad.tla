------------------------------ MODULE ConfigLoad ------------------------------
(***************************************************************************)
(* internal/config and the part of reloadLocked that uses its result: from *)
(* a file and the environment to the configuration that runs.  Load        *)
(* decodes the file over the defaults, lets the environment override it,   *)
(* refuses what is not valid and fills in what the rules that block leave  *)
(* open.  reloadLocked then parses, compiles and builds again; what fails  *)
(* there was accepted first.                                               *)
(*                                                                         *)
(* A file is [parses, settings, rules]; its settings are a function whose  *)
(* domain is the keys the file has, and the environment is another.  Two   *)
(* values of a key are strings; a size is [number, unit], its number a     *)
(* sequence of at most one integer and its unit the runes that follow.     *)
(***************************************************************************)
EXTENDS Integers, FiniteSets, SequencesExt, TLC

CONSTANTS
  Files,      \* the files an operator or a save puts in place
  Environs,   \* the environments a process may be started in
  BadUrls,    \* what url.Parse refuses or finds no scheme or host in
  BadDurations,  \* what time.ParseDuration refuses
  BadPatterns,   \* what regexp.Compile refuses
  RefusedPaths,  \* what ServeMux never takes as a pattern
  Numeral,    \* Numeral[s] is the integer strconv.Atoi reads in s, if it does
  Runes,      \* what the unit of a size may be written in
  Kilo,       \* 1024 in the code
  MaxInt      \* the largest int64

ASSUME NumbersAssumption == {Kilo, MaxInt} \subseteq Nat \ {0}

\* config.MatchConfig, ActionConfig and Rule (less its description).
MatchConfig == [type : STRING, words : SUBSET STRING, patterns : SUBSET STRING,
                distance : Int]
ActionConfig == [type : STRING, status_code : Int, response_mode : STRING,
                 content_type : STRING, message : STRING]
RuleConfig == [id : STRING, enabled : BOOLEAN, endpoints : SUBSET STRING,
               scopes : SUBSET STRING, match : MatchConfig, action : ActionConfig]

SizeConfig == [number : Seq(Int), unit : Seq(Runes)]

ASSUME RunesAssumption == {"M", "B"} \subseteq Runes      \* of the default

ASSUME FilesAssumption ==
  \A f \in Files :
    /\ f.rules \in Seq(RuleConfig)
    /\ "request_body_limit" \in DOMAIN f.settings =>
         f.settings["request_body_limit"] \in SizeConfig

ASSUME EnvironsAssumption ==
  \A e \in Environs :
    "request_body_limit" \in DOMAIN e => e["request_body_limit"] \in SizeConfig

VARIABLES
  env,      \* the environment, fixed while the process runs
  file,     \* the configuration file
  running,  \* [settings, rules, limit]: the configuration in App.state
  outcome,  \* how the last reloadLocked ended
  loaded    \* history: the file that running was loaded from

vars == <<env, file, running, outcome, loaded>>

-----------------------------------------------------------------------------
(* Numbers and sizes.                                                      *)

Wrap(n) == ((n + MaxInt + 1) % (2 * (MaxInt + 1))) - (MaxInt + 1)
Fits(n) == n \in -(MaxInt + 1) .. MaxInt

Size(number, unit) == [number |-> number, unit |-> unit]

Upper(runes) ==
  LET capital == "k" :> "K" @@ "m" :> "M" @@ "g" :> "G" @@ "b" :> "B"
  IN  [i \in DOMAIN runes |->
         IF runes[i] \in DOMAIN capital THEN capital[runes[i]] ELSE runes[i]]

UnitsBytesFirst ==                        \* slip: "B" before what ends in it
  <<[suffix |-> <<"B">>, scale |-> 1],
    [suffix |-> <<"K", "B">>, scale |-> Kilo],
    [suffix |-> <<"M", "B">>, scale |-> Kilo * Kilo],
    [suffix |-> <<"G", "B">>, scale |-> Kilo * Kilo * Kilo]>>

Units ==
  <<[suffix |-> <<"K", "B">>, scale |-> Kilo],
    [suffix |-> <<"M", "B">>, scale |-> Kilo * Kilo],
    [suffix |-> <<"G", "B">>, scale |-> Kilo * Kilo * Kilo],
    [suffix |-> <<"B">>, scale |-> 1]>>

\* fmt.Sscanf reads an integer and never looks at what follows it.
SizeParses(size) == size.number # <<>> /\ Fits(Head(size.number))

\* strings.TrimSpace(strings.ToUpper(value)), as far as the unit goes.
EndOf(unit) ==
  Min({n \in 0 .. Len(unit) : \A k \in n + 1 .. Len(unit) : unit[k] = " "})
UnitOf(size) == LET unit == Upper(size.unit) IN SubSeq(unit, 1, EndOf(unit))

\* ParseByteSize: the first unit the text ends in, else bytes.
ParseByteSize(size) ==
  LET fitting == {i \in DOMAIN Units : IsSuffix(Units[i].suffix, UnitOf(size))}
      amount == Head(size.number)
  IN  IF fitting = {} THEN amount ELSE Wrap(amount * Units[Min(fitting)].scale)

-----------------------------------------------------------------------------
(* Load.                                                                   *)

Durations == {"read_timeout", "write_timeout", "idle_timeout", "timeout", "keep_alive"}

\* DefaultConfig; what only the formatting of logs and headers uses is left out.
Defaults ==
  [listen |-> ":8099", base_url |-> "",
   read_timeout |-> "15s", write_timeout |-> "0s", idle_timeout |-> "120s",
   timeout |-> "180s", keep_alive |-> "30s",
   mode |-> "dry-run", fail_mode |-> "fail_open",
   request_body_limit |-> Size(<<2>>, <<"M", "B">>),
   metrics_enabled |-> TRUE, metrics_path |-> "/metrics",
   admin_enabled |-> FALSE, bearer_token |-> ""]

Overrides == {"listen", "base_url", "mode", "fail_mode", "request_body_limit"}

Over(written, others) ==
  [key \in DOMAIN written \cup DOMAIN others |->
     IF key \in DOMAIN written THEN written[key] ELSE others[key]]

DecodeOver(old, f) == Over(f.settings, old.settings)   \* slip: over what runs

\* yaml.Unmarshal into a fresh DefaultConfig.
Decode(old, f) == Over(f.settings, Defaults)

\* strings.TrimSpace, on a string of blanks or on any other; ParseByteSize does
\* the same to a size.
Trimmed(value) == IF value = " " THEN "" ELSE value

StatusParses == "status_code" \in DOMAIN env =>
                  Trimmed(env["status_code"]) \in DOMAIN Numeral

Override(settings) ==
  [key \in DOMAIN settings |->
     IF key \notin Overrides \cap DOMAIN env THEN settings[key]
     ELSE IF key = "request_body_limit" THEN env[key] ELSE Trimmed(env[key])]

OverrideRule(rule) ==
  LET Of(key, value) == IF key \in DOMAIN env THEN Trimmed(env[key]) ELSE value
      action == rule.action
  IN  IF action.type # "block" THEN rule
      ELSE [rule EXCEPT !.action = [
              type |-> "block",
              status_code |-> IF "status_code" \in DOMAIN env
                              THEN Numeral[Trimmed(env["status_code"])]
                              ELSE action.status_code,
              response_mode |-> Of("response_mode", action.response_mode),
              content_type |-> Of("content_type", action.content_type),
              message |-> Of("message", action.message)]]

DurationsOfServer(settings) ==                 \* slip: not the upstream's
  \A key \in Durations \ {"timeout", "keep_alive"} : settings[key] \notin BadDurations

DurationsParse(settings) ==
  \A key \in Durations : settings[key] \notin BadDurations

SettingsValid(settings) ==
  /\ settings["listen"] # ""
  /\ settings["base_url"] \notin BadUrls \cup {""}
  /\ DurationsParse(settings)
  /\ SizeParses(settings["request_body_limit"])
  /\ settings["mode"] \in {"dry-run", "enforce"}
  /\ settings["fail_mode"] \in {"fail_open", "fail_close"}
  /\ settings["metrics_enabled"] => settings["metrics_path"] # ""
  /\ settings["admin_enabled"] => Trimmed(settings["bearer_token"]) # ""

MatchValid(match) ==
  \/ match.type \in {"contains_any", "exact"} /\ match.words # {}
  \/ match.type = "fuzzy_contains_any" /\ match.words # {} /\ match.distance \in 1 .. 6
  \/ match.type = "regex" /\ match.patterns # {} /\ match.patterns \cap BadPatterns = {}

Modes == {"json", "text", "empty", "minimal_json"}
RuleValid(rule) ==
  /\ rule.id # "" /\ rule.endpoints # {} /\ rule.scopes # {}
  /\ MatchValid(rule.match)
  /\ \/ rule.action.type = "block" /\ rule.action.response_mode \in Modes \cup {""}
     \/ rule.action.type \in {"log_only", "tag_and_pass"}

RulesValid(rules) ==
  /\ \A i \in DOMAIN rules : RuleValid(rules[i])
  /\ \A i, j \in DOMAIN rules : rules[i].id = rules[j].id => i = j

MessageOf(mode, message) ==
  IF mode = "json" /\ message = "" THEN "request blocked by prompt policy" ELSE message
ContentTypeOf(mode, type) ==
  IF mode = "text" /\ type = "" THEN "text/plain; charset=utf-8" ELSE type

FillModeLast(action) ==                        \* slip: the mode after the rest
  [action EXCEPT !.status_code = IF @ = 0 THEN 403 ELSE @,
                 !.response_mode = IF @ = "" THEN "json" ELSE @,
                 !.message = MessageOf(action.response_mode, @),
                 !.content_type = ContentTypeOf(action.response_mode, @)]

Fill(action) ==
  LET mode == IF action.response_mode = "" THEN "json" ELSE action.response_mode
  IN  [action EXCEPT !.status_code = IF @ = 0 THEN 403 ELSE @,
                     !.response_mode = mode,
                     !.message = MessageOf(mode, @),
                     !.content_type = ContentTypeOf(mode, @)]

Filled(rules) ==
  [i \in DOMAIN rules |->
     IF rules[i].action.type = "block"
     THEN [rules[i] EXCEPT !.action = Fill(@)] ELSE rules[i]]

Overridden(old, f) ==
  [settings |-> Override(Decode(old, f)),
   rules |-> [i \in DOMAIN f.rules |-> OverrideRule(f.rules[i])]]

Accepted(old, f) ==
  /\ f.parses /\ StatusParses
  /\ LET cfg == Overridden(old, f)
     IN  SettingsValid(cfg.settings) /\ RulesValid(cfg.rules)

-----------------------------------------------------------------------------
(* reloadLocked with what Load returned.                                   *)

EngineBuilds(cfg) ==
  \A i \in DOMAIN cfg.rules :
    cfg.rules[i].enabled /\ cfg.rules[i].match.type = "regex"
      => cfg.rules[i].match.patterns \cap BadPatterns = {}

ProxyBuilds(cfg) ==
  /\ cfg.settings["base_url"] \notin BadUrls
  /\ \A key \in {"timeout", "keep_alive"} : cfg.settings[key] \notin BadDurations

\* buildMux registers metrics.path beside these; twice the same panics.
Routes(cfg) ==
  {"/healthz", "/readyz", "/ui", "/ui/", "/"}
  \cup IF cfg.settings["admin_enabled"]
       THEN {"/admin/config", "/admin/config/preview", "/admin/config/apply",
             "/admin/config/rollback", "/admin/test", "/admin/reload"}
       ELSE {}
MuxPanics(cfg) ==
  /\ cfg.settings["metrics_enabled"]
  /\ cfg.settings["metrics_path"] \in RefusedPaths \cup Routes(cfg)

\* What reloadLocked does with a file, in this order: Load refuses it, a later
\* step fails, buildMux panics, or the state is stored.
Outcome(old, f) ==
  LET cfg == Overridden(old, f)
  IN  IF ~Accepted(old, f) THEN "refused"
      ELSE IF ~(EngineBuilds(cfg) /\ ProxyBuilds(cfg)) THEN "failed"
      ELSE IF MuxPanics(cfg) THEN "panic" ELSE "stored"

State(old, f) ==
  LET cfg == Overridden(old, f)
  IN  [settings |-> cfg.settings, rules |-> Filled(cfg.rules),
       limit |-> ParseByteSize(cfg.settings["request_body_limit"])]

Unread == [parses |-> FALSE, settings |-> <<>>, rules |-> <<>>]
Nothing == [settings |-> Defaults, rules |-> <<>>, limit |-> 0]

Init ==
  /\ env \in Environs
  /\ file \in Files
  /\ running = Nothing /\ outcome = "none" /\ loaded = Unread

Edit == file' \in Files /\ UNCHANGED <<env, running, outcome, loaded>>

\* server.New at the start, and every reload and save after it.
Reload ==
  /\ outcome' = Outcome(running, file)
  /\ \/ outcome' = "stored" /\ running' = State(running, file) /\ loaded' = file
     \/ outcome' # "stored" /\ UNCHANGED <<running, loaded>>
  /\ UNCHANGED <<env, file>>

Next == Edit \/ Reload
Spec == Init /\ [][Next]_vars

-----------------------------------------------------------------------------
(* What a loader owes to whoever wrote the file and the environment.       *)

Serving == loaded # Unread

\* What Validate accepts, the rest of the load can use: nothing that was parsed
\* or compiled to be checked fails when it is parsed or compiled to be used, and
\* the fallbacks of serverDuration are never needed.  So a configuration that
\* is refused is refused before anything is built; a panic of ServeMux is the
\* only exception.
AcceptedIsServed ==
  /\ outcome # "failed"
  /\ Serving => \A key \in Durations : running.settings[key] \notin BadDurations

\* What runs is what is written, whatever ran and was written before: each
\* setting has the value of the environment where that has one, else of the
\* file, else the default; and every rule of the file is there, in its place,
\* as it was written except for the answer of a rule that blocks.
RunsAsWritten ==
  Serving =>
    /\ \A key \in DOMAIN Defaults :
         running.settings[key] =
           IF key \in Overrides \cap DOMAIN env
           THEN IF key = "request_body_limit" THEN env[key] ELSE Trimmed(env[key])
           ELSE IF key \in DOMAIN loaded.settings THEN loaded.settings[key]
           ELSE Defaults[key]
    /\ Len(running.rules) = Len(loaded.rules)
    /\ \A i \in DOMAIN loaded.rules :
         LET was == loaded.rules[i]
             is == running.rules[i]
         IN  /\ \A part \in DOMAIN was \ {"action"} : is[part] = was[part]
             /\ was.action.type # "block" => is.action = was.action

\* What is set of an answer: in environment e, else in the file.
AnswerSet(e, written) ==
  LET Set(key) == IF key \in DOMAIN e THEN Trimmed(e[key]) ELSE written[key]
  IN  [status_code |-> IF "status_code" \in DOMAIN e
                       THEN Numeral[Trimmed(e["status_code"])] ELSE written.status_code,
       response_mode |-> Set("response_mode"), message |-> Set("message"),
       content_type |-> Set("content_type")]

Answers(answer, set) ==
  /\ answer.type = "block"
  /\ answer.status_code = IF set.status_code = 0 THEN 403 ELSE set.status_code
  /\ answer.response_mode \in Modes
  /\ answer.response_mode = "json" => answer.message # ""
  /\ answer.response_mode = "text" => answer.content_type # ""
  /\ \A key \in {"response_mode", "message", "content_type"} :
       set[key] # "" => answer[key] = set[key]

\* The answer of a rule that blocks is the one that was set, by the environment
\* where it sets any, and what is left open is filled in with what the mode
\* needs, whichever of the two leaves what open and blanks included: a mode
\* that writeBlockedResponse knows, a message where there is a place for one,
\* 403 for a status of 0.  Any other status is kept, even one that cannot be
\* sent: Validate does not look at it.
BlocksAnswerAsSet ==
  \A i \in DOMAIN loaded.rules :
    loaded.rules[i].action.type = "block" =>
      Answers(running.rules[i].action, AnswerSet(env, loaded.rules[i].action))

\* What the name of a unit is worth, in bytes.
Worth ==
  {[name |-> <<>>, bytes |-> 1], [name |-> <<"B">>, bytes |-> 1],
   [name |-> <<"K", "B">>, bytes |-> Kilo],
   [name |-> <<"M", "B">>, bytes |-> Kilo * Kilo],
   [name |-> <<"G", "B">>, bytes |-> Kilo * Kilo * Kilo]}

\* The limit of a body is the number of bytes that is written: a whole number,
\* then blanks or none, then nothing or a unit in either case, then blanks or
\* none, as long as the product is an int64.
LimitAsWritten ==
  LET size == running.settings["request_body_limit"]
      unit == Upper(size.unit)
  IN  Serving =>
        \A n, m \in 0 .. Len(unit), worth \in Worth :
          /\ n <= m /\ \A k \in (1 .. n) \cup (m + 1 .. Len(unit)) : unit[k] = " "
          /\ SubSeq(unit, n + 1, m) = worth.name
          /\ Fits(Head(size.number) * worth.bytes)
          => running.limit = Head(size.number) * worth.bytes
=============================================================================
