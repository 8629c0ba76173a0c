---------------------------- MODULE MCConfigStore ----------------------------
(* Small instances of ConfigStore.                                         *)
EXTENDS ConfigStore, TLC

CONSTANTS h1, h2, a, b, bad, torn, free

MCHandlers == {h1, h2}
MCContentAB == {a, b}
MCContent == {a, b, bad}
\* a and b load; bad is refused by config.Load; in one
\* instance only a has the admin API.
MCValid == {a, b}
MCValidTorn == {a, b, torn}
MCAdminOn == {a, b}
MCAdminOnA == {a}
MCPanics == {b}
MCMetrics == [f \in {a, b, torn} |-> "/metrics"] @@ bad :> "nowhere"
MCMetricsMoved == [MCMetrics EXCEPT ![b] = "nowhere"]
MCNone == {}
\* b and bad differ only in the white space before their first line, which
\* may decide whether YAML parses.
MCTrim == a :> "a" @@ b :> "b" @@ bad :> "b" @@ torn :> "empty"
Symmetry == Permutations(MCHandlers)
=============================================================================
