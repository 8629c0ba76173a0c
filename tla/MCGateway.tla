------------------------------ MODULE MCGateway ------------------------------
(* Small instances of Gateway.  The instances share one vocabulary: the    *)
(* texts "ok" and "bad", the paths "chat" (inspected), "raw" (inspected,   *)
(* without an extractor) and "models" (not inspected).                     *)
EXTENDS Gateway, TLC

CONSTANTS r1, r2

OneRequest == {r1}
TwoRequests == {r1, r2}
Symmetry == Permutations(TwoRequests)

Rule(id, priority, action) ==
  [id |-> id, enabled |-> TRUE, priority |-> priority, endpoints |-> {"chat"},
   scopes |-> {"user"}, match |-> [type |-> "exact", words |-> {<<"bad">>}],
   action |-> action]

BlockRule == Rule("block", 1, "block")
LogFirst == <<BlockRule, Rule("log", 9, "log_only")>>
TagOnly == <<Rule("tag", 5, "tag_and_pass")>>
BlockOff == <<[BlockRule EXCEPT !.enabled = FALSE]>>
BlockSystem == <<[BlockRule EXCEPT !.scopes = {"system"}], Rule("log", 1, "log_only")>>

Base == [paths |-> {"chat", "raw"}, bypass |-> {"friend"}, skipEncoded |-> TRUE,
         failOpen |-> TRUE, early |-> TRUE, limit |-> 2, skipUnknown |-> TRUE,
         dryRun |-> FALSE, rules |-> LogFirst]
Closed == [Base EXCEPT !.failOpen = FALSE, !.skipEncoded = FALSE,
                       !.skipUnknown = FALSE]

\* One setting of each kind away from the base.
WideConfigs ==
  {Base, Closed,
   [Base EXCEPT !.dryRun = TRUE], [Closed EXCEPT !.dryRun = TRUE],
   [Base EXCEPT !.early = FALSE], [Closed EXCEPT !.early = FALSE],
   [Base EXCEPT !.skipEncoded = FALSE], [Base EXCEPT !.skipUnknown = FALSE],
   [Closed EXCEPT !.skipUnknown = TRUE], [Closed EXCEPT !.skipEncoded = TRUE],
   [Base EXCEPT !.limit = 0], [Base EXCEPT !.limit = 7], [Closed EXCEPT !.limit = 7],
   [Base EXCEPT !.rules = TagOnly], [Base EXCEPT !.rules = BlockOff],
   [Base EXCEPT !.rules = BlockSystem], [Closed EXCEPT !.rules = <<>>]}

Fragment(text) ==
  <<[scope |-> "system", place |-> <<"messages", 1>>, text |-> <<"ok">>],
    [scope |-> "user", place |-> <<"messages", 2>>, text |-> <<text>>]>>

Plain == [path |-> "chat", postJson |-> TRUE, key |-> "nobody", encoded |-> FALSE,
          declared |-> 2, length |-> 2, breaks |-> FALSE, replay |-> FALSE,
          extraction |-> "text", fragments |-> Fragment("bad")]

Bodies == {[Plain EXCEPT !.length = n, !.declared = d, !.breaks = b, !.replay = b] :
             n \in 1 .. 4, d \in {-1, 2, 3}, b \in BOOLEAN}
\* Content-Length is unknown or, unless the body breaks, the length.
WideInputs ==
  {i \in Bodies : i.declared = -1 \/ i.declared = i.length
                  \/ (i.breaks /\ i.declared > i.length)}
  \cup {[Plain EXCEPT !.declared = 4, !.length = 1, !.breaks = TRUE],
        [Plain EXCEPT !.path = "models"], [Plain EXCEPT !.postJson = FALSE],
        [Plain EXCEPT !.key = "friend"], [Plain EXCEPT !.encoded = TRUE],
        [Plain EXCEPT !.path = "raw", !.extraction = "none"],
        [Plain EXCEPT !.extraction = "unknown"], [Plain EXCEPT !.extraction = "broken"],
        [Plain EXCEPT !.fragments = Fragment("ok")]}

\* Few configurations and inputs, for two requests at once.
FewConfigs == {Base, Closed, [Base EXCEPT !.dryRun = TRUE, !.skipEncoded = FALSE],
               [Closed EXCEPT !.early = FALSE, !.rules = TagOnly]}
FewInputs ==
  {Plain, [Plain EXCEPT !.encoded = TRUE], [Plain EXCEPT !.extraction = "broken"],
   [Plain EXCEPT !.length = 1, !.declared = -1, !.breaks = TRUE, !.replay = TRUE],
   [Plain EXCEPT !.extraction = "unknown"], [Plain EXCEPT !.fragments = Fragment("ok")],
   [Plain EXCEPT !.key = "friend"], [Plain EXCEPT !.length = 4, !.declared = 4]}

\* A small log-only rule that is looked at before the block rule, a lenient
\* configuration and one without any limit.
FindingConfigs ==
  {Base, [Base EXCEPT !.early = FALSE], [Base EXCEPT !.limit = 7]}
FindingInputs == {Plain, [Plain EXCEPT !.length = 4, !.declared = 4]}
=============================================================================
