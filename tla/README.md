# prompt-guard: TLA+ specifications

prompt-guard is a reverse proxy in front of LLM APIs. It reads the JSON body of
a POST, extracts the texts, matches them against configured rules and blocks,
tags or forwards the request. An admin API replaces the configuration of the
running process and tries texts against it. This directory models the parts of
`src/` in which order, failure and arithmetic decide whether that works, checks
them with TLC and proves the core with TLAPS.

## 1. The system

| component | code | state it keeps | operations |
|---|---|---|---|
| configuration workflow | `server/config_workflow.go`, `server/admin.go`, `server.go:108-168` | the file at `configPath`, the directory of backups, `App.state`, `reloadMu` | GET / PUT `/admin/config`, preview, apply, rollback, reload |
| process lifecycle | `cmd/prompt-guard/main.go` | process, HTTP server with the mux of the start | start, shutdown |
| request pipeline | `server.go:214-609` | per request: snapshot, body, result, headers | `handleProxy` |
| metrics | `server/metrics.go` | seven atomic counters | add, scrape |
| upstream proxy | `proxy/proxy.go` | none of its own | `ServeHTTP`, `ErrorHandler` |
| inspection service | `inspect/service.go` | extractors, normalizer, engine of one configuration | `Inspect` |
| rule engine | `engine/engine.go` | compiled rules, sorted | `New`, `Evaluate`, fuzzy search |
| extractors | `extractor/*.go` | none | `Match`, `Extract` |
| normalizer | `normalize/normalizer.go` | none | `Normalize` |
| configuration loader | `config/*.go`, `server.go:115-147` | none (the environment of the process) | `Load`, `Validate`, `ParseByteSize`, environment overrides |
| backup listing and naming | `config_workflow.go:98-217` | the files and times under `.prompt-guard-backups` | `createBackupLocked`, `listBackups`, `readBackup`, `sanitizeBackupReason` |
| preview diff | `config_workflow.go:219-337` | none | `diffLines`, `squashEqualRuns` |
| admin test endpoint | `admin.go:236-285, 360-456` | none | `handleTest` |
| audit log, UI | `audit/logger.go`, `server/ui.go` | none | log a decision, serve a page |

How they interact:

* Every HTTP request is a goroutine. `handleProxy` loads `App.state` (an atomic
  pointer) once; a reload stores a new one at any time.
* Admin handlers share one file and one backup directory. `saveConfig` and
  `reload` hold `reloadMu`. GET, preview, the reading of a backup and the
  building of an answer hold nothing.
* A save is: read the file, load the proposed text from a temporary copy,
  back up, truncate, write, load. If the load fails: truncate, write what was
  read, load again. Each of these may fail; the process may die between any
  two; and `buildMux` may panic in the load.
* The counters are shared by all requests.
* `Inspect` picks the extractor by path and content type, normalizes what it
  extracts and hands it to the engine. `/admin/test` calls the same `Inspect`
  with a body it makes up.
* `reloadLocked` calls `config.Load` and then parses, compiles and builds again
  what `Validate` parsed and compiled to check it.

The hard behaviours, and what makes each component correct:

| component | hard | correct when |
|---|---|---|
| configuration workflow | interleaved saves, unlocked readers, half-done writes, crash between truncate and write, failing restore, panic under the lock, operator edits | a save is atomic; a refused save changes nothing; nothing that ran is lost; file and memory agree; every request ends |
| request pipeline | reload between two steps, bodies at the limit, read errors and stalled senders, fail modes, counts made one by one | judged under one configuration; nothing uninspected under `fail_close`; bodies forwarded whole; counters add up; no request is left without a branch |
| inspection and rules | order of rules, ties, several hits, dry-run | the decision does not depend on order; every hit is reported once, by priority |
| fuzzy search | window lengths, early give-up, swapped rows | a rule matches exactly what is within the edit distance |
| loader | `int64` multiplication and suffixes of suffixes; order of defaults, file, environment and checks; work done twice | what runs is what is written; a limit is the amount written; a block answers as it was set; what is accepted can be served |
| backups | names made of time and reason, half-written files, times in whole seconds, an unstable sort cut at 20, old lists | no backup is lost or overwritten; a rollback restores what it names; what a save replaced can be found |
| diff | table indices, squashing | the diff rebuilds both files |
| extractors, normalizer, test endpoint | nested JSON of any shape, fallbacks that shadow each other, a body made of a text | no text of a known shape goes uninspected; a test is judged like a request |

## 2. Modules

    ConfigRegister          what the workflow promises: file and running
         ^                  configuration change together
         | implements       (INSTANCE ... WITH a refinement mapping)
    ConfigStore             admin handlers, file, backups, reloadMu, crashes
         ^        ^
    MCConfigStore  ConfigStoreProofs

    Normalizer <-- BackupList <-- MCBackupList, BackupListProofs
        ^                   backups: names, order, rollbacks
        |
    RuleEngine <-- RuleEngineProofs
      ^     ^               engine and inspect as operators
      |     Gateway <-- MCGateway, GatewayProofs
      |                     handleProxy with reloads and counters
      |
    Inspection --> Extraction     JSON bodies to texts; bodies of /admin/test
      ^                     service life, from the body to the decision,
    MCInspection            against an order-free reading

    ConfigLoad <-- MCConfigLoad, ConfigLoadProofs
                            defaults, file, environment, checks, sizes
    FuzzyMatch <-- MCFuzzyMatch, FuzzyMatchProofs
                            the fuzzy search, loop by loop
    LineDiff <-- MCLineDiff, LineDiffProofs
                            the diff of the preview, loop by loop

    InductionLemmas         induction up to a number, folds as equations; used
                            by RuleEngineProofs, BackupListProofs,
                            LineDiffProofs, FuzzyMatchProofs

Operators whose name says what is wrong with them and whose comment starts
with "slip" (`FailLocked`, `CapAtLimit`, ...) are not part of any
specification: each is a mapped definition with a plausible mistake, kept to
show that a property notices it. `PROJECT.json` pairs each with its property.

### ConfigStore

| in the model | in the code |
|---|---|
| `disk`, `backups` | the file at `configPath`; the contents under `.prompt-guard-backups` (never deleted) |
| `running`, `up` | the file `App.state` was loaded from; the process runs |
| `mux` | what differs between files in the mux that `main` gave to the HTTP server: whether it has the admin routes, and where it has the metrics |
| `lock`, `pc[h]`, `req[h]` | `reloadMu`; where each handler goroutine is; what it holds in local variables |
| `Receive` | routing by the mux of the start, `requireAdmin` (which looks at the state of now), `decodeConfigUpdate` |
| `ReadBackup` | `readBackup`, before the lock; it may meet a backup still being written |
| `ReadCurrent`, `Check`, `CreateBackup`, `OpenConfig`, `WriteConfig` | `saveConfigLocked` up to the write; `os.WriteFile` is two steps |
| `LoadNew`, `RestoreOpen`, `RestoreWrite`, `ReloadOld` | `reloadLocked` after the write and the way back |
| `PlainLoad`, `PanicInLoad` | `reloadLocked` from reload or from an unchanged save; the panic of `buildMux` |
| `AnswerState`, `AnswerFile`, `ShowState` | what PUT, GET, apply and rollback read after the unlock |
| `PreviewRead`, `PreviewLoad` | `previewConfig` |
| `Edit`, `Crash`, `Boot` | the operator's editor; kill, or shutdown giving up on handlers; start |

`config.Load` is a function of the file and of the environment, which is fixed
while the process runs, so a configuration is named by its file: `Valid` are
those that load, `MuxPanics` those whose `metrics.path` makes `ServeMux` panic
(`/healthz` is a valid `metrics.path`; `ConfigLoad` has the condition),
`AdminOn` those with the admin API, `Metrics` says where each has the counters
shown. `Torn` is what a truncated file holds. It may itself be valid: with
`PROMPT_GUARD_UPSTREAM_BASE_URL` set, an empty file loads, and the checked
instances assume this worse case. `edited` and `failed` are history: they record
an edit, or an error of a write to the file, since the file was last loaded.

Left out: an edit that lands between the truncate and the write of one
`os.WriteFile` (the mixture of both is no file anybody meant), requests other
than the six operations, and what answers look like. The wrong-token and
wrong-method branches end a request before it touches anything.

### ConfigLoad

| in the model | in the code |
|---|---|
| `file`, `env` | the file at `configPath`; the environment, fixed while the process runs |
| `running`, `outcome`, `loaded` | the configuration and `bodyLimit` in `App.state`; how the last `reloadLocked` ended; history: the file `running` is of |
| `Defaults`, `Decode` | `DefaultConfig`, `yaml.Unmarshal` into it |
| `StatusParses`, `Override`, `OverrideRule` | `applyEnvOverrides` |
| `SettingsValid`, `RulesValid`, `MatchValid` | the checks of `Validate` |
| `Fill` | what `Validate` writes into the rules that block |
| `SizeParses`, `ParseByteSize`, `Wrap` | `ParseByteSize`; `Wrap` is the `int64` product |
| `EngineBuilds`, `ProxyBuilds`, `MuxPanics`, `Outcome`, `Reload` | the rest of `reloadLocked`, in its order |

A file is its settings, a function whose domain is the keys it has, and its
rules. What the libraries decide is a constant: `BadUrls`, `BadDurations`,
`BadPatterns`, `RefusedPaths`, `Numeral` (what `Atoi` reads). A size is what
`Sscanf` reads of it, a number, and the runes behind it, of which `UnitOf` trims
the blanks at the end. `LimitAsWritten` is about the units that have a name
(`Worth`), with blanks before and after or none: of "10 K B", which ends in no
"KB", the code makes ten bytes, and nobody can say what was meant.
`BlocksAnswerAsSet` is about what of an answer was set and what was left open,
not about whether a status that was set can be sent, which the code does not see
to (see the observations). The settings that only tune headers, logs
and connections are left out: they are copied.

### BackupList

| in the model | in the code |
|---|---|
| `dir` | the backups: content and time of the last write, by name |
| `asked`, `save` | the request that waits for `reloadMu`; the save that holds it |
| `shown` | the last list a UI was given, which may be old when it is used |
| `Name`, `Sanitize`, `Cut` | `createBackupLocked`'s file name, `sanitizeBackupReason` |
| `Apply`, `Rollback`, `Refuse` | `saveConfig` from the two handlers; a rollback reads its backup before it waits |
| `CreateBackup`, `WriteBackup`, `WriteConfig`, `FailSave` | the steps of a save that touch files; any of them may fail |
| `Lists`, `List` | `listBackups`: every order an unstable sort by whole seconds may leave, cut at the limit |

Saves exclude one another, which `ConfigStore` shows, so one is under way; one
more waits, which is enough for a request that was read before and is written
after. The clock is never set back, and a save takes at least a nanosecond: a
clock that is set back, or a step smaller than its resolution, could repeat a
name, and `os.WriteFile` would overwrite the older backup. A name is its
timestamp and its slug; `Text` is the string that a list shows and a rollback
sends. `Runes` are those of reasons and names; "a", "b" and "r" stand for
letters, `Digits` for what a timestamp is written in.

### Gateway and RuleEngine

`Gateway` has one action per branch of `handleProxy`, and one for each count and
for the audit line on the way: another request, or a reload, may come between
any two. Thus `Encoded` counts and `PassEncoded` forwards, `CountBlocked` counts
and `Block` answers. A request is a record of what the branches look at (path,
form, length, declared length, read error, what an extractor makes of it), a
configuration a record of the policy fields. `key` stands for whatever
`isBypassed` looks at, API key or address. `replay` says that `r.GetBody` is
set; net/http's server never sets it, the tests and an embedding program do.
`breaks` says that reading the body ends in an error: the client went away, or
it stalled until the read timeout. `Increment` is the wrapping `int64` sum of
`state.bodyLimit+1`. An extractor's outcome is one of "text", "unknown"
(schema), "broken" (no JSON, or JSON that is neither an object nor null) and
"none" (no extractor serves the path). A body cut short by the limit is
"broken". `Block` takes the status of the rule to be one that `WriteHeader`
accepts, which the loader does not see to. `Relay` chooses between an answer and
a 502; it is one action because both end the request.

`RuleEngine` holds the functions both modules use: `Compile` is the stable sort
and the normalization of words, `Matches` the four match types, `Evaluate` the
nested loops, one fold in another (`AddHits` is the inner), `Decide` the fold
over the matches, `Inspect` the service. The patterns of a
`regex` rule are literals, the texts of a fuzzy rule those within its distance.

### Extraction, Normalizer, Inspection

`Extraction` translates the three extractors and `collectText` over JSON values
(strings, lists, objects, null, anything else) of any depth, and the body that
`/admin/test` makes of path, text, role and scope. A body that is null is an
object without fields to `decodeObject` (`Decode`), since `json.Unmarshal`
leaves a nil map: such a request is of unknown schema, while a list, a number or
a string in its place is an error. `Normalizer` works rune by rune. `Inspection`
is the life of one `inspect.Service`, which judges requests and tests one after
the other. Its properties use none of these operators but `Lowered` and the sets
of runes: they look for every string in a body along every way into it, say
which of them count, put them in order, read the rules as a set, and expect the
decision and the report that follow.

### FuzzyMatch

The loops of `fuzzyContains` over windows and of `levenshteinDistanceWithin`
over rows are actions; a row of the table is one step. Its properties use
another definition of distance: strings reachable by single insertions,
deletions and replacements.

### LineDiff

One action per pass of a loop: `Fill` for a cell of the table, `Keep`, `Delete`
and `Insert` for the walk, `HoldEqual` and `ShowChange` for `squashEqualRuns`.
Its properties are about both files and the shown script. What can be left of a
file when lines are taken out (`Thinnings`) is defined by enumeration, and
`ChangesAreFewest` compares the script with every common thinning of the two
files. Lines are values of a constant set `Text`. `splitLines` is taken as done,
so differences of line ends only, which it drops, do not occur.

## 3. Runs

| run | shows | bounds |
|---|---|---|
| `store` | saves are atomic (`SavesAreAtomic` is the refinement of `ConfigRegister`), nothing that ran is lost, file and memory agree when nobody is at work, a refused save changes nothing, the inductive invariant `IInv` | two handlers, two files that load (one without the admin API), one that does not, and the torn one, which loads; 1.5 million states |
| `store_live` | every admin request ends: the lock is released on every path, panics included | two handlers |
| `store_panic`, `store_metrics` | the findings below | as small as they can be |
| `inspection` | decision, skips, errors and report for any call, as a reader of body and rules expects them | lists of up to three rules of every shape (priorities with ties, all actions, disabled, two scopes) on a dozen requests; single rules of every match type on some 300 bodies and tests of all three protocols, JSON up to five levels deep, bodies that are null, no object or no JSON, blanks, zero-width runes, upper case |
| `fuzzy` | match and evidence for words of up to four and texts of up to six runes | bounds 0, 1, 2; the empty word; words shorter than the bound |
| `diff` | the edit script holds both files at every step, has the fewest changes, and what is shown hides unchanged lines only | all pairs of files of up to four lines over two; eight files of six to nine lines, in pairs, for the runs that are shortened |
| `gateway` | one request of every form under seventeen policies with reloads between its steps; bodies one below, at, one and two above the limit; every request settles | `MaxInt` = 7 |
| `gateway_two` | two requests in flight, with reloads: verdicts, and what the counters say at every step of both | four policies, eight forms |
| `gateway_block_answer` | the finding below | |
| `load` | what is accepted can be served; what runs is what is written, whatever ran before; a block answers as it was set; the limit is the size written | some 100 files, each a few places away from a valid one (every check fails in one of them), ten environments, any sequence of them; a kilobyte is 4, an `int64` has 8 bits, so a gigabyte fits and two wrap |
| `backups` | no backup is overwritten, reasons can be read, a rollback restores what it names, a save is reversible | two files, two reasons (one leaves no slug, one is cut), names of four runes, lists of two, two seconds of three nanoseconds |

`ConfigStore` needs no bound on steps: its state is finite, since files are
named and history is kept in two flags. Two handlers suffice for the
interleavings the lock is to exclude, one in its critical section and one
anywhere; the proofs cover any number. In `Gateway` each request runs once, so
the counters are bounded by the number of requests. Two requests are enough for
the counters, each of which depends on each request alone.

`Inspection`, `FuzzyMatch` and `LineDiff` have no failures and no concurrency:
a service is immutable, and calls share nothing. A diff is computed once, so
that run does not look for deadlock. In `BackupList` time is bounded
(`MaxClock`), and with it the number of saves: four, enough for a list of two to
drop some, for backups of one second and of two, and for a rollback of a
rollback. The bounds of `load` are in its files; a load depends on the file, the
environment and nothing else, and the run tries every file after every other.

In `Inspection` a test counts that names one scope, in scope, role or both, and
one that its path can express (`Clear`); see the observations.

### Fairness

`ConfigStore` assumes weak fairness of each handler's steps (goroutines that
can run do, and file operations return) and strong fairness of `Lock`:
`sync.Mutex` hands the lock over to a waiter that has starved for a
millisecond. Nothing is assumed of requests, edits, crashes and restarts.
`Gateway` assumes weak fairness of the steps of `handleProxy`. For reading a
body this rests on the server's `read_timeout`, by default 15 seconds, taken
from the configuration of the start (`main.go:40`): a client that stalls makes
the read fail, which is one of the cases of `breaks`. A `read_timeout` of `0s`
switches the timeout off, and with it the guarantee: `Settles` is then true of
clients that send or close only. None is assumed
of `Arrive`, `Reload` and `Relay`: clients and administrators act when they
like, and the transport sets no response timeout, so an upstream may take for
ever. `Settles` therefore ends where the upstream begins.

### Findings

* `store_panic`: a configuration with `metrics.path: /healthz` passes
  validation and makes `ServeMux` panic after the file was replaced and before
  it could be restored. The running configuration stays, the file does not,
  and the next start panics.
* `store_metrics`: the server keeps the mux of the start. After a reload that
  switches metrics off the counters are still shown; after one that moves them
  they are shown at the old path and the new one is forwarded to the upstream.
  CONFIG_REFERENCE.md:365-366 describes both settings without such a limit, and
  DEPLOYMENT.md:248 has a reload replace the configuration as a whole. The admin
  handlers look at the state themselves and answer 404 when it has the admin API
  off, so that setting is obeyed; it cannot be switched on by a reload, since
  the handlers that reload and save are admin routes, too.
* `gateway_block_answer`: the response of a block is made from the first
  match, which may be a `log_only` or `tag_and_pass` rule of higher priority.

Observed while modelling. The code's way is modelled; no run is spent on them:

* Backups: applying what the file already holds makes no backup
  (`config_workflow.go:55`), though the UI says one was created (`ui.html:653`)
  and after a manual edit the configuration that ran is then in none.
  `server_test.go:347` takes the first of the list for the newest; among
  backups of one second the order is anyone's, which `SaveIsReversible` excepts
  where more than a list full of them share a second.
* Metrics: nothing ever adds to `proxyErrorsTotal`, exported as "Total proxy
  errors." (`metrics.go:63`); a scrape reads the counters one by one.
* Loader: `ParseByteSize` ignores what follows the number, so "2TB" is two bytes
  and "1.5MB" one megabyte; negative sizes are accepted; a product beyond
  `int64` wraps (`LimitAsWritten` excepts it). A block rule with a `status_code`
  of 42, -1 or 2000 loads and runs, since `Validate` looks for 0 only
  (`loader.go:123`): `WriteHeader` panics outside 100..999, so the blocked
  caller gets no answer. CONFIG_REFERENCE.md:588 has a legal `status_code` among
  what is validated; `BlocksAnswerAsSet` promises no more than the status that
  was set. At least one rule and an http or https `base_url`, which
  CONFIG_REFERENCE.md:162 and :583 ask for, are not enforced. A word that
  normalizes to nothing makes `contains_any` match every text.
* Test endpoint: on `/v1/responses` a scope other than "instructions" is tested
  as user input, and where role and scope differ the role wins except for the
  two special places. `Clear` leaves such tests out.
* Gateway: with `early_reject_oversize` off an oversize body is still answered
  413 after it was read (CONFIG_REFERENCE.md:289 has it that one may switch it
  off and pass such bodies on). A `request_body_limit` of 2^63-1 makes `limit+1`
  wrap, so nothing is read and an empty body is forwarded (`WholeBodies`,
  `FailsClosed` and `BlocksExactlyHits` except that one limit).
* Workflow: GET and preview may read a truncated file while a save writes it;
  an edit made between a save's read and its write is overwritten and in no
  backup (`NothingLost` excepts `edited`); the second `reloadLocked` of a
  refused save may put an edited file into effect.
* Fuzzy search: with `max_edit_distance` not smaller than a word, the word
  matches every text that has a window of an allowed length.

## 4. Proofs

`ConfigStoreProofs` proves for any set of handlers, any files and any
environment, from the two named assumptions of `ConfigStore`:

* `Invariance`: `Spec => []IInv`, and from it `TypeCorrect`, `NothingIsLost`,
  `QuietAgreement` and `OwnLoads`;
* `Atomicity`: `Spec => SavesAreAtomic`, the refinement of `ConfigRegister`, and
  `RefusedSaves`: both where `MuxPanics = {}`. The premise is needed:
  `store_panic` refutes `RefusedSaveChangesNothing` without it.

The argument. None of the properties is inductive: whether a save's restore puts
back the right file depends on what it read several steps earlier. `IInv` adds
what the critical section knows: `LockHeld` (the handler in it is the holder of
the lock), `BackedUp` (what was read is in a backup before the file is opened),
`CurrentIsDisk` and `RestoredIsDisk` (what was read is what the file holds
before the replacement and after the restore), `LoadsItsOwn`, `KeptAside` and
`Agrees`. The refinement maps the file to `CommittedFile`: while a save has the
file open, the file counts as what the save read; it commits with the load that
succeeds, or by failing for good, or when the process dies. A step of a handler
then is a `Save`, a `Reload`, a `Disturb` or a stutter.

The invariance proof splits `TypeOK` into `Flags` and `Data` (`FlagsStep`,
`DataStep`), and `PartsStep` covers the rest of `IInv` by kind of step:
`Outside` is the lemma for steps taken without the lock, `Leaving` for the load
that ends a critical section, and the steps in between get a case each.
`StepRefines` and `RefusedStep` go by action in the same way.

`RuleEngineProofs` proves what the operators of the engine compute, for rules,
fragments and matches of any number:

* `CompileSorts`: a rank counts the rules that precede, so no two rules have
  the same (`RanksDiffer`), ranks are a bijection, and `Compile` is the stable
  sort of the rules, each once;
* `EveryHitIsReported`, `ReportedInOrder`, `ReportedByPriority`: `Evaluate`
  reports the pairs of rule and fragment that hit, all of them, no pair twice,
  rules in the order of `Compile` and fragments in theirs. With the report goes
  a pair of index sequences that ascend (`Sourced`);
* `StrongestDecides`, `BlocksIfHit`: `Decide` yields the strongest action of the
  matches, so `Inspect` blocks if and only if it enforces and a block rule hits;
* `ContainsWhatReads`, `ShownWordsAreBlocked`: a `contains_any` rule hits a text
  exactly if some part of the text reads as one of its words when case, white
  space and invisible runes are dropped. Texts are normalized part by part
  (`NormalizeJoins`), so what stands around a part does not matter; and what is
  written grows by one rune at a time (`SomeRunesWrite`), so each place in the
  normalized text is one in the text.

Except the last, they are the engine's part of what the run `inspection` checks
from the body on.

`GatewayProofs` proves for any requests, configurations and reloads, from the
types in `ShapesAssumption`:

* `BodiesAreWhole` and `ClosedOnFailure`. The inductive invariant `Sound` is
  stated of one request with its own values: undecided requests have sent
  nothing, and once the body is read it is whole and within the limit
  (`ReadWithinLimitIsWhole`: one byte more than the limit tells a body at the
  limit from a longer one), and once it is judged under `fail_close` inspection
  did not fail (`InspectFails`). `OthersUntouched` says that a step of one
  request leaves the values of the others alone, and a reload those of all.
* `BlocksAreHits`. `Judged` adds what inspection decided: from then on the
  decision is a block if and only if `MustBlock`, and the answer follows it.
  `InspectBlocks` gets that from `BlocksIfHit`; that the body was whole comes
  from `Sound`. `TypesHold` is the part of it that bounds the values.
* `CountersAgree`. A request is counted a step before or after the state shows
  what is counted, so the property itself is not inductive: from outside a
  counter is off by as many requests as are under way. Exact is a tally by step:
  a set of requests for each counter that `pc` and `result` determine
  (`Seen`, `Counted`, `Blocked`, `Skipped`, `Failing`). `Told` says how much a
  request has shown at each step; with it every step adds a request to a set if
  and only if it increments that counter (`StepBumps`), and the sets are finite
  (`OneMore`). A tally lies between the settled requests a counter is about and
  these with the ones under way (`TallyBounds`), what is blocked was counted as
  inspected, and what is inspected was audited (`AuditedFirst`).

`ConfigLoadProofs` proves for all files and environments, from the named
assumptions of `ConfigLoad` (what decoding guarantees of rules and sizes):

* `Served`: no step of `reloadLocked` after `config.Load` returns an error.
  `NothingFailsLater` is the argument: the checks of `Validate` cover the
  patterns of all rules, the URL and all durations, the later steps use a part
  of them.
* `BlocksAnswer`: by `BlockFilled`, override and fill leave every rule that
  blocks the status, mode, message and content type that the environment or the
  file sets, and where neither does, what the mode needs. A status that was set
  is kept whatever it is; that it can be sent is not proved, and not so.
* `Written`: what runs is a function of the file it was loaded from and the
  environment, so nothing of an earlier configuration is in it.
* `LimitIsWritten`, for every kilobyte and every width of an integer. The unit
  that was meant is the first that fits: "B" comes after the three that end in
  it (`EndsWhere`, `FirstCounts`), what is trimmed leaves the name
  (`TrimmedUnitIs`), and a product that fits does not wrap (`WrapFits`).

`BackupListProofs` proves for every clock, limit, file and reason:

* `BackupsAreKept` and `RollbacksRestore`. Both rest on `FreshName`: each name
  in the directory was given in an earlier nanosecond (`NamedBefore`), so that
  of the next backup is new. With it the content read from a backup, now or in a
  request that waits, is what the backup was made of or the torn one
  (`ReadFrom`), and what is torn does not load.
* `SavesAreReversible`. No backup is of a later second than the one under way
  (`Dated`, `Newest`), so a list cut at the limit can miss it only if more than
  the limit share its second (`ListOffersNewest`, by counting those before it).
* `NamesStayShort` and `ReasonsRead`. `sanitizeBackupReason` is followed step by
  step: what each rune appends, the trimmed dashes and the cut keep what can be
  read (`WrittenReads`, `TrimReads`, `CutReads`, then `SlugReads`), and the slug
  is found in the name again (`ReasonAfterID`), for timestamps hold no
  underscore or dash. `NamedSo` keeps for every name the reason it was made of,
  which for a rollback is made of another name (`RollbackRunes`).

`LineDiffProofs` proves for all pairs of files of any length:

* `BothAreRebuilt`: the script without its additions is the current file up to
  the cell the walk is at, without its removals the proposed (`RebuiltSoFar`).
* `NothingElseIsHidden`: the entries shown stand for the script up to a line
  (`Covers`), and what `squashEqualRuns` holds back is the unchanged lines from
  there on. `CoversSquashed` is its flush: three lines are shown on each side of
  a marker that counts the rest.
* `NoScriptIsShorter`: what the table holds. `Table` has every finished cell
  equal to what the code makes of its neighbours, and at most one more than
  each; so cells only fall to the right and down (`TableFallsFar`), and a common
  subsequence, taken as two ascending sequences of line numbers, is no longer
  than the first cell (`NoLongerChain`, by induction from its end). The walk
  keeps exactly that many lines (`KeptSoFar`), and every thinning of a file is
  such a sequence (`ThinnedIsMarked`).

`FuzzyMatchProofs` proves for every word, bound and text, from the types in
`InputsAssumption`:

* `NothingNearIsMissed`: `fuzzyContains` finds evidence exactly if at most
  `max_edit_distance` single edits turn the word into some part of the text;
* `NearestIsReported`: no part of the text is fewer edits away than the
  evidence.

The argument has three parts. *What the table holds.* The distance of two
strings is the last entry of the table that the equations of
`levenshteinDistanceWithin` determine (`IsTable`, `TableExists`,
`TablesAgree`). One edit of a string moves its distance by at most one
(`EditIsNear`: before the edit the tables agree, at it they come apart by one,
and `TablesFollow` carries that to the end), so n edits by at most n
(`AroundIsNear`). Conversely each entry counts the edits on a way through the
strings that begin like the text and end like the word (`BetweenSteps`), so
what is at distance n is within n edits (`NearIsAround`). *What is not
measured.* A string is at least as far away as the lengths differ
(`LengthsApart`), and no row comes back below what a whole row exceeds
(`RowGivesUp`). *The search.* The inductive invariant `IInv` (`SearchIsExact`)
says of each loop what it knows: the best so far is the least distance among the
windows already passed, and belongs to the evidence (`Searched`); the row
`prev` is that of the table of the window under way (`Measuring`); an answer is
the nearest of all windows (`Answered`). The properties are not inductive: they
speak of the end of a call only.

How induction is done. The theorems of the library that take a predicate cannot
be instantiated by the provers at hand, so `InductionLemmas` states induction
for a *set* of numbers: `InductionUpTo` says that a set which holds 0, and with
a number below N the next, holds all of `0 .. N`; it rests on the order of
finite sets in `FiniteSetTheorems`. `FoldExists` gives a fold over a sequence as
a function on its prefixes, and each fold of a model (`Decide`, `AddHits`,
`Evaluate`, `Lines`, `Position`, `Sanitize`, `Readable`, `Normalize`) has a
lemma named `...Unfolds` that turns it into the equations of a loop.

Only model-checked:

* liveness (`RequestsEnd`, `Settles`), which is out of the prover's reach;
* the four properties of `Inspection`: `CollectText` of `Extraction` recurses
  over JSON values through a RECURSIVE operator, which the SMT backend does not
  accept. The engine's part of three of them is proved in `RuleEngineProofs`,
  for any fragments; what is left to the run is that the fragments are the
  texts of the body.

## 5. What is not modelled, and what is left to do

Worth adding:

1. `Extraction`: collecting as a function on a set of values of bounded depth,
   with which the properties of `Inspection` could be proved.
2. `Gateway` as a refinement of a one-step judgement per request.

Not planned: the UI (a static page), logging and the wording of answers, the
transport's tuning and TLS (net/http's), regular expressions, YAML, JSON and
URL parsing (the libraries'), the ten seconds of grace of `Shutdown` (a handler
either ends or is cut off, and `Crash` covers the second), and the consistency
of a metrics scrape across counters, which nothing promises.
