------------------------------- MODULE Gateway -------------------------------
(***************************************************************************)
(* App.handleProxy: every request in flight is a goroutine that takes one  *)
(* snapshot of the runtime state and then decides, step by step, whether   *)
(* to answer by itself or to hand the request to the upstream; a reload    *)
(* may replace the runtime state between any two of its steps.  The        *)
(* counters of Metrics are shared by all; each Add is a step of its own,   *)
(* and so is the line of the audit log, so that other requests run between *)
(* what is counted and its count.                                          *)
(*                                                                         *)
(* A configuration is [paths, bypass, skipEncoded, failOpen, early, limit, *)
(* skipUnknown, dryRun, rules].  A request is [path, postJson, key,        *)
(* encoded, declared, length, breaks, replay, extraction, fragments]:      *)
(* key stands for what isBypassed looks at, declared is Content-Length or  *)
(* -1, length the bytes its body holds before its end or, when it breaks,  *)
(* before a read error (that of the server's read timeout is one); replay  *)
(* says that r.GetBody is set (by a test or an embedding program:          *)
(* net/http's server never sets it).                                       *)
(***************************************************************************)
EXTENDS RuleEngine, Integers

CONSTANTS
  Requests,   \* the requests that may arrive, each once
  Configs,    \* the configurations a reload may install
  Inputs,     \* what a request may look like
  MaxInt      \* the largest int64

ASSUME ShapesAssumption ==
  /\ MaxInt \in Nat
  /\ \A c \in Configs : /\ c.limit \in -MaxInt - 1 .. MaxInt
                       /\ c.rules \in Seq(RuleType)
  /\ \A i \in Inputs : /\ i.length \in Nat
                      /\ i.extraction \in {"none", "unknown", "broken", "text"}
                      /\ i.fragments \in Seq(ToSet(i.fragments))

VARIABLES
  config,     \* App.state
  pc,         \* the next step of each request
  in,         \* what each request looks like
  snap,       \* the runtime state each request works with
  read,       \* the bytes of its body held in memory
  result,     \* the result of its inspection, Failure when reading fails
  header,     \* the decision header of its answer
  answer,     \* who answered it, with what
  shown,      \* the match its block response is made from
  upstream,   \* what the upstream got of its body
  audited,    \* the requests whose decision was logged
  count       \* Metrics

vars == <<config, pc, in, snap, read, result, header, answer, shown, upstream,
          audited, count>>
outcome == <<header, answer, shown, upstream>>
work == <<in, snap, read, result>>

Counters == {"requests", "inspected", "blocked", "skipped", "extractErrors",
             "proxyErrors"}
Decisions == {"allow", "block", "log_only", "tag_and_pass", "skip"}
PCs == {"new", "load", "route", "passEncoded", "read", "inspect", "countError",
        "failMode", "audit", "countInspected", "countSkipped", "decide", "block",
        "upstream", "done"}
Answers == {"none", "400", "413", "415", "blocked", "relayed", "502"}
Forwarded == {"nothing", "stream", "replay", "whole", "part"}
NoMatch == [action |-> "none"]
NoResult == [decision |-> "none", skipped |-> FALSE, failed |-> FALSE,
             matches |-> <<>>]

Init ==
  /\ config \in Configs
  /\ pc = [r \in Requests |-> "new"]
  /\ in \in [Requests -> Inputs]
  /\ snap = [r \in Requests |-> config]
  /\ read = [r \in Requests |-> 0]
  /\ result = [r \in Requests |-> NoResult]
  /\ header = [r \in Requests |-> "none"]
  /\ answer = [r \in Requests |-> "none"]
  /\ shown = [r \in Requests |-> NoMatch]
  /\ upstream = [r \in Requests |-> "nothing"]
  /\ audited = {}
  /\ count = [c \in Counters |-> 0]

-----------------------------------------------------------------------------
(* Helpers.                                                                *)

Goto(r, step) == pc' = [pc EXCEPT ![r] = step]
Add(cs) == count' = [c \in Counters |-> count[c] + IF c \in cs THEN 1 ELSE 0]

Answer(r, what) ==
  /\ answer' = [answer EXCEPT ![r] = what]
  /\ Goto(r, "done")
  /\ UNCHANGED <<header, shown, upstream>>

\* state.proxy.ServeHTTP, with the decision header set before it.
Proxy(r, body, decision) ==
  /\ upstream' = [upstream EXCEPT ![r] = body]
  /\ header' = [header EXCEPT ![r] = decision]
  /\ Goto(r, "upstream")
  /\ UNCHANGED <<answer, shown>>

InScope(c, i) == i.path \in c.paths /\ i.postJson /\ i.key \notin c.bypass

\* state.bodyLimit + 1 in int64.
Increment(n) == IF n = MaxInt THEN -MaxInt - 1 ELSE n + 1

\* io.ReadAll(io.LimitReader(r.Body, state.bodyLimit + 1)): a limit that is not
\* positive reads nothing, and an error beyond the limit is never met.
CapAtLimit(c) == c.limit      \* slip: the limit, without the one byte more
Cap(c) == Increment(c.limit)

BytesReadPadded(c, i) == IF Cap(c) <= 0 THEN 0 ELSE Cap(c)   \* slip: a full buffer
BytesRead(c, i) ==
  IF Cap(c) <= 0 THEN 0 ELSE IF i.length < Cap(c) THEN i.length ELSE Cap(c)

ReadFails(c, i) == i.breaks /\ Cap(c) > i.length

\* What the extractor is given: nothing, where limit + 1 wraps, is not JSON.
Payload(r) ==
  IF read[r] = in[r].length \/ in[r].extraction = "none"
  THEN [extraction |-> in[r].extraction, fragments |-> in[r].fragments]
  ELSE [extraction |-> "broken", fragments |-> <<>>]

-----------------------------------------------------------------------------
(* The steps of handleProxy.                                               *)

Arrive(r) ==
  /\ pc[r] = "new"
  /\ Add({"requests"})
  /\ Goto(r, "load")
  /\ UNCHANGED <<config, work, outcome, audited>>

Load(r) ==
  /\ pc[r] = "load"
  /\ snap' = [snap EXCEPT ![r] = config]
  /\ Goto(r, "route")
  /\ UNCHANGED <<config, in, read, result, outcome, audited, count>>

\* Not an inspected path, not a POST of JSON, or a bypassed caller.
PassThrough(r) ==
  /\ pc[r] = "route" /\ ~InScope(snap[r], in[r])
  /\ Proxy(r, "stream", "allow")
  /\ UNCHANGED <<config, work, audited, count>>

Encoded(r) ==
  /\ pc[r] = "route" /\ InScope(snap[r], in[r]) /\ in[r].encoded
  /\ \/ /\ snap[r].skipEncoded
        /\ Add({"skipped"})
        /\ Goto(r, "passEncoded") /\ UNCHANGED outcome
     \/ /\ ~snap[r].skipEncoded /\ snap[r].failOpen
        /\ Proxy(r, "stream", "none") /\ UNCHANGED count
     \/ /\ ~snap[r].skipEncoded /\ ~snap[r].failOpen
        /\ Answer(r, "415") /\ UNCHANGED count
  /\ UNCHANGED <<config, work, audited>>

PassEncoded(r) ==
  /\ pc[r] = "passEncoded"
  /\ Proxy(r, "stream", "skip")
  /\ UNCHANGED <<config, work, audited, count>>

TooLong(c, i) == c.early /\ i.declared > c.limit /\ i.declared > 0

RejectEarly(r) ==
  /\ pc[r] = "route" /\ InScope(snap[r], in[r]) /\ ~in[r].encoded
  /\ TooLong(snap[r], in[r])
  /\ Answer(r, "413")
  /\ UNCHANGED <<config, work, audited, count>>

\* Slip: a request that was overtaken by a reload starts again.
StartReadingAgain(r) ==
  /\ pc[r] = "route" /\ InScope(snap[r], in[r]) /\ ~in[r].encoded
  /\ ~TooLong(snap[r], in[r])
  /\ Goto(r, IF snap[r] = config THEN "read" ELSE "load")
  /\ UNCHANGED <<config, work, outcome, audited, count>>

StartReading(r) ==
  /\ pc[r] = "route" /\ InScope(snap[r], in[r]) /\ ~in[r].encoded
  /\ ~TooLong(snap[r], in[r])
  /\ Goto(r, "read")
  /\ UNCHANGED <<config, work, outcome, audited, count>>

ReadBroken(r) ==
  /\ pc[r] = "read" /\ ReadFails(snap[r], in[r])
  /\ result' = [result EXCEPT ![r] = Failure]
  /\ Goto(r, "countError")
  /\ UNCHANGED <<config, in, snap, read, outcome, audited, count>>

ReadBody(r) ==
  /\ pc[r] = "read" /\ ~ReadFails(snap[r], in[r])
  /\ LET n == BytesRead(snap[r], in[r]) IN
       /\ read' = [read EXCEPT ![r] = n]
       /\ IF n > snap[r].limit
          THEN Answer(r, "413")
          ELSE Goto(r, "inspect") /\ UNCHANGED outcome
  /\ UNCHANGED <<config, in, snap, result, audited, count>>

\* Service.Inspect under the snapshot.
InspectUnder(r, c) ==
  /\ pc[r] = "inspect"
  /\ \E res \in {Inspect(c, in[r].path, Payload(r))} :
       /\ result' = [result EXCEPT ![r] = res]
       /\ Goto(r, IF res.failed THEN "countError" ELSE "audit")
  /\ UNCHANGED <<config, in, snap, read, outcome, audited, count>>

InspectBodyReloaded(r) == InspectUnder(r, config)   \* slip: the state loaded anew
InspectBody(r) == InspectUnder(r, snap[r])

CountError(r) ==
  /\ pc[r] = "countError"
  /\ Add({"extractErrors"})
  /\ Goto(r, "failMode")
  /\ UNCHANGED <<config, work, outcome, audited>>

\* Under fail_open a request goes on after an error, if its body was read or can
\* be read again (tryFailOpenProxyAfterReadError); else it is answered.
CanGoOnAlways(r) == ReadFails(snap[r], in[r]) => in[r].replay   \* slip: fail_mode
CanGoOn(r) == snap[r].failOpen /\ (ReadFails(snap[r], in[r]) => in[r].replay)

FailMode(r) ==
  /\ pc[r] = "failMode"
  /\ \/ CanGoOn(r) /\ Goto(r, "audit") /\ UNCHANGED outcome
     \/ ~CanGoOn(r) /\ Answer(r, "400")
  /\ UNCHANGED <<config, work, audited, count>>

\* state.audit.LogDecision.
Audit(r) ==
  /\ pc[r] = "audit"
  /\ audited' = audited \cup {r}
  /\ Goto(r, "countInspected")
  /\ UNCHANGED <<config, work, outcome, count>>

\* Slip: every inspected request counts as skipped.
CountInspectedSkipped(r) ==
  /\ pc[r] = "countInspected"
  /\ Add({"inspected"})
  /\ Goto(r, "countSkipped")
  /\ UNCHANGED <<config, work, outcome, audited>>

CountInspected(r) ==
  /\ pc[r] = "countInspected"
  /\ Add({"inspected"})
  /\ Goto(r, IF result[r].skipped THEN "countSkipped" ELSE "decide")
  /\ UNCHANGED <<config, work, outcome, audited>>

CountSkipped(r) ==
  /\ pc[r] = "countSkipped"
  /\ Add({"skipped"})
  /\ Goto(r, "decide")
  /\ UNCHANGED <<config, work, outcome, audited>>

CountBlocked(r) ==
  /\ pc[r] = "decide" /\ result[r].decision = "block"
  /\ Add({"blocked"})
  /\ Goto(r, "block")
  /\ UNCHANGED <<config, work, outcome, audited>>

\* The response of a block is made from firstMatch(result).
Block(r) ==
  /\ pc[r] = "block"
  /\ header' = [header EXCEPT ![r] = "block"]
  /\ answer' = [answer EXCEPT ![r] = "blocked"]
  /\ shown' = [shown EXCEPT ![r] = result[r].matches[1]]
  /\ Goto(r, "done")
  /\ UNCHANGED <<config, work, upstream, audited, count>>

\* The end of tryFailOpenProxyAfterReadError: the body is read again.
Replay(r) ==
  /\ pc[r] = "decide" /\ ReadFails(snap[r], in[r])
  /\ Proxy(r, "replay", "skip")
  /\ UNCHANGED <<config, work, audited, count>>

Pass(r) ==
  /\ pc[r] = "decide" /\ ~ReadFails(snap[r], in[r])
  /\ result[r].decision # "block"
  /\ Proxy(r, IF read[r] = in[r].length THEN "whole" ELSE "part",
           result[r].decision)
  /\ UNCHANGED <<config, work, audited, count>>

\* The upstream's answer is relayed, or proxy.ErrorHandler answers 502 (and
\* leaves proxyErrorsTotal alone).
Relay(r) ==
  /\ pc[r] = "upstream"
  /\ \E what \in {"relayed", "502"} : Answer(r, what)
  /\ UNCHANGED <<config, work, audited, count>>

\* reloadLocked stores a new runtime state.
Reload ==
  /\ config' \in Configs \ {config}
  /\ UNCHANGED <<pc, work, outcome, audited, count>>

Handle(r) ==
  \/ Load(r) \/ PassThrough(r) \/ Encoded(r) \/ PassEncoded(r)
  \/ RejectEarly(r) \/ StartReading(r) \/ ReadBroken(r) \/ ReadBody(r)
  \/ InspectBody(r) \/ CountError(r) \/ FailMode(r)
  \/ Audit(r) \/ CountInspected(r) \/ CountSkipped(r)
  \/ CountBlocked(r) \/ Block(r) \/ Replay(r) \/ Pass(r)

Next == Reload \/ \E r \in Requests : Arrive(r) \/ Handle(r) \/ Relay(r)

\* Goroutines run; an upstream may take for ever, since the transport has no
\* response timeout, and clients and administrators act when they like.
Spec == Init /\ [][Next]_vars /\ \A r \in Requests : WF_vars(Handle(r))

-----------------------------------------------------------------------------
(* What the gateway is for.                                                *)

TypeOK ==
  /\ config \in Configs
  /\ pc \in [Requests -> PCs]
  /\ in \in [Requests -> Inputs]
  /\ snap \in [Requests -> Configs]
  /\ \A r \in Requests :
       /\ read[r] \in 0 .. in[r].length
       /\ result[r].decision \in Decisions \cup {"none"}
  /\ header \in [Requests -> Decisions \cup {"none"}]
  /\ answer \in [Requests -> Answers]
  /\ upstream \in [Requests -> Forwarded]
  /\ audited \in SUBSET Requests
  /\ count \in [Counters -> Nat]

\* A rule of that action, enabled for the path, matches the text under c.
HitBy(action, c, i) ==
  \E rule \in ToSet(c.rules), fragment \in ToSet(i.fragments) :
    rule.action = action /\ Hits(CompileRule(rule), fragment, i.path)

\* The body is of the size and the form that inspection is meant for.
Inspectable(c, i) ==
  /\ InScope(c, i) /\ ~i.encoded /\ ~TooLong(c, i) /\ ~i.breaks
  /\ i.length <= c.limit /\ i.extraction = "text"

\* A request is blocked exactly if the one configuration it was received
\* under enforces its rules and one of its block rules hits: no reload that
\* lands between two steps of handleProxy, no order of rules and no other
\* rule that hits as well makes a difference.
BlocksExactlyHits ==
  \A r \in Requests :
    pc[r] \in {"upstream", "done"} /\ snap[r].limit < MaxInt =>
      (answer[r] = "blocked" <=>
         /\ Inspectable(snap[r], in[r]) /\ ~snap[r].dryRun
         /\ HitBy("block", snap[r], in[r]))

\* Under fail_close nothing that is in scope gets past the gateway without
\* having been inspected, unless a skip_on_ setting or the lack of an
\* extractor lets it: not a broken body, nor one too long, nor bad JSON.
FailsClosed ==
  \A r \in Requests :
    LET c == snap[r]  i == in[r] IN
    (/\ upstream[r] # "nothing" /\ InScope(c, i) /\ c.limit < MaxInt
     /\ ~c.failOpen /\ ~(i.encoded /\ c.skipEncoded))
    => /\ upstream[r] = "whole" /\ i.length <= c.limit
       /\ \/ i.extraction \in {"text", "none"}
          \/ i.extraction = "unknown" /\ c.skipUnknown

\* What is forwarded after inspection is the body the client sent, all of it,
\* for every limit but the largest integer.
WholeBodies ==
  \A r \in Requests : snap[r].limit < MaxInt => upstream[r] # "part"

\* Requests between two steps of handleProxy: what they have done so far may or
\* may not be counted yet.
InFlight == {r \in Requests : pc[r] \notin {"new", "upstream", "done"}}

\* What a counter says of a request that was answered or handed on.
Counts(c, r) ==
  CASE c = "requests" -> pc[r] # "new"
    [] c = "inspected" -> r \in audited
    [] c = "blocked" -> answer[r] = "blocked"
    [] c = "skipped" -> header[r] = "skip" \/ (r \in audited /\ result[r].skipped)
    [] c = "extractErrors" ->
         result[r].failed \/ upstream[r] = "replay" \/ answer[r] = "400"
    [] c = "proxyErrors" -> FALSE      \* nothing adds to it

\* A counter is the number of the requests that came to what it counts; only
\* requests under way can make a difference, each of at most one.  So nothing
\* is counted twice, missed, or counted under another name, however the steps
\* of concurrent requests interleave, and when no request is under way every
\* counter is exact.  What is counted as inspected was audited first, and what
\* is counted as blocked was counted as inspected first.
Accounts ==
  /\ \A c \in Counters :
       LET settled == {r \in Requests \ InFlight : Counts(c, r)}
       IN  count[c] \in Cardinality(settled) ..
                        Cardinality(settled) + Cardinality(InFlight)
  /\ count["blocked"] <= count["inspected"]
  /\ count["inspected"] <= Cardinality(audited)

\* Every request is answered or handed to the upstream, however often the
\* configuration is replaced meanwhile.
Settles ==
  \A r \in Requests : pc[r] = "load" ~> pc[r] \in {"upstream", "done"}

-----------------------------------------------------------------------------
(* What the documentation says and the code does not do.                   *)

\* status_code, message and response_mode take effect for block rules only.
BlockAnswersAreBlocks ==
  \A r \in Requests : answer[r] = "blocked" => shown[r].action = "block"
=============================================================================
