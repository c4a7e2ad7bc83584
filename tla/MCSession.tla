----------------------------- MODULE MCSession -----------------------------
(***************************************************************************)
(* The instance TLC checks: two rules, one transaction, two formatters.    *)
(* MaxEffort bounds the workflows and test cases together: one workflow    *)
(* with two test cases, in one call or two, or several without.            *)
(***************************************************************************)
EXTENDS Session

CONSTANTS r1, r2, s1, s2, e1

Rule(n, sev, type, fns) ==
  [name |-> n, severity |-> sev, type |-> type, fns |-> fns, impossible |-> FALSE, schema |-> TRUE]

Source(kind, members, profile) == [kind |-> kind, members |-> members, profile |-> profile]

NoProfile == [n \in Names |-> NoEntry]
Turns(n, entry) == [NoProfile EXCEPT ![n] = entry]

Tests == Rule(r1, "error", {"static", "test"}, {"static", "test"})
Quiet == Rule(r2, "off", {"analytics"}, {"analytics"})
Lints == Rule(r1, "hint", {"static"}, {"static", "analytics"})
Mute == Rule(r1, "error", {"test"}, {})
Documented == [Mute EXCEPT !.type = {"informational"}, !.impossible = TRUE]
Odd == Rule(r1, "error", {"unknown"}, {})
Mixed == Rule(r1, "warn", {"informational", "test"}, {"test"})

Empty == Source("pattern", {}, NoProfile)
Single(rule) == Source("rule", {Holds(rule)}, NoProfile)
Set(rules, profile) == Source("inline", {Holds(rule) : rule \in rules}, profile)
Files(members, profile) == Source("pattern", members, profile)

Library(a, b) == [s \in Sources |-> IF s = s1 THEN a ELSE b]

MCLibraries == {
  Library(Set({Tests, Quiet}, [n \in Names |-> [severity |-> "error"]]), Empty),
  Library(Files({Holds(Lints), [kind |-> "unloadable"], [kind |-> "neither"]},
                Turns(r1, [type |-> {"analytics"}])), Empty),
  Library(Single(Documented), Empty),
  Library(Set({Lints}, NoProfile), Single(Lints)),
  Library(Files({[kind |-> "unloadable"], [kind |-> "neither"]}, NoProfile), Empty),
  Library(Files({Holds(Lints), [kind |-> "failing"]}, NoProfile), Empty),
  Library(Files({Holds(Lints), [kind |-> "rule set"]}, NoProfile), Empty),
  Library(Single(Mute), Empty),
  Library(Single(Odd), Empty),
  Library(Single(Mixed), Empty),
  Library(Source("unresolved", {}, NoProfile), Empty),
  Library(Source("neither", {}, NoProfile), Empty) }

MCConfigs ==
  {NoProfile} \cup {Turns(r1, entry) : entry \in {
     [severity |-> "off"], [severity |-> "warn", type |-> {"static"}],
     [type |-> {"informational"}], [type |-> {}], [options |-> "unfit"]}}

MCNames == {r1, r2}
MCSources == {s1, s2}
MCEdges == {e1}
MCSignals == {{"violation"}, {"rule-skip"}}
=============================================================================
