------------------------- MODULE RuleConfiguration -------------------------
(***************************************************************************)
(* How the rules of a workflow are loaded: core/src/rules.  A source named *)
(* by the user resolves to one rule, to a rule set with its rules inline,  *)
(* or to a rule set that names files by a pattern; every rule found takes  *)
(* the overrides of its set's profile, then those of the user, and must    *)
(* be able to run in the modes it then declares.                           *)
(***************************************************************************)
EXTENDS Naturals, FiniteSets

CONSTANTS
  Names,     \* names of rules (meta.name)
  Sources    \* the entries of `rules` a workflow is started with

Modes == {"static", "analytics", "test"}

Types == Modes \cup {"informational"}

SeverityLevel == [error |-> 1, warn |-> 2, hint |-> 3, off |-> 4]

Severities == DOMAIN SeverityLevel

\* A rule as its author wrote it, or as its configuration left it: fns are the
\* modes it has a function for, impossible says it documents why no function
\* exists, schema says it declares options.  A hand-made rule may declare a
\* type nobody knows.
Rules == [name: Names, severity: Severities, type: SUBSET (Types \cup {"unknown"}),
          fns: SUBSET Modes, impossible: BOOLEAN, schema: BOOLEAN]

\* One entry of `rules: {}` or of a profile: a partial record, its absent
\* fields override nothing.  options are "fit" or not for the rule's schema.
NoEntry == [field \in {} |-> "none"]

Sets(entry, field) == field \in DOMAIN entry

\* applyRuleConfiguration
Overridden(rule, entry) ==
  [rule EXCEPT !.severity = IF Sets(entry, "severity") THEN entry.severity ELSE @,
               !.type     = IF Sets(entry, "type") THEN entry.type ELSE @]

OptionsRejected(rule, entry) ==
  rule.schema /\ Sets(entry, "options") /\ entry.options = "unfit"

\* A wrong order of the overrides: the profile has the last word.
ConfigThenProfile(rule, profile, config) ==
  Overridden(Overridden(rule, config), profile)

\* applyProfileThenConfig
Configured(rule, profile, config) == Overridden(Overridden(rule, profile), config)

\* checkRuleTypeDeclaration: asked of every rule, before the filter reads its type
Declares(rule) == rule.type # {} /\ rule.type \subseteq Types

\* assertRuleExecutionInvariant: asked of the rules the filter keeps.  A rule the
\* configuration made informational keeps the functions nobody calls any more.
CanRun(rule) ==
  IF "informational" \in rule.type
  THEN rule.type = {"informational"}
  ELSE ~rule.impossible /\ rule.type \subseteq rule.fns

\* createSeverityRuleFilter
Keeps(threshold, rule) ==
  /\ threshold # "off"
  /\ SeverityLevel[rule.severity] <= SeverityLevel[threshold]

\* resolveEligibleRule, when it throws
Rejects(rule, profile, config, threshold) ==
  LET configured == Configured(rule, profile, config) IN
  \/ OptionsRejected(rule, profile)
  \/ OptionsRejected(rule, config)
  \/ ~Declares(configured)
  \/ Keeps(threshold, configured) /\ ~CanRun(configured)

-----------------------------------------------------------------------------
\* What a source turns out to be.  The matches of a pattern may hold a rule,
\* hold a rule set, fail to load (or export nothing), hold something else, or
\* be no module at all; the rules of an inline set are rules.  A rule that is a
\* source of its own has no profile.
Holds(rule) == [kind |-> "rule", rule |-> rule]

RulesOf(source) == {m.rule : m \in {m \in source.members : m.kind = "rule"}}

ProfileOf(source, rule) == IF source.kind = "rule" THEN NoEntry ELSE source.profile[rule.name]

\* loadRules and loadRuleSet, when they throw
FailsToLoad(source, config, threshold) ==
  \/ source.kind = "unresolved"
  \/ \E m \in source.members : m.kind \in {"rule set", "failing"}
  \/ source.kind = "pattern" /\ source.members # {} /\ RulesOf(source) = {}
  \/ \E rule \in RulesOf(source) :
       Rejects(rule, ProfileOf(source, rule), config[rule.name], threshold)

LoadFails(library, config, threshold) ==
  \E s \in Sources : FailsToLoad(library[s], config, threshold)

\* A loaded rule remembers its source: the same rule found twice is two rules.
Loaded(library, config, threshold) ==
  UNION {{[from |-> s, rule |-> Configured(rule, ProfileOf(library[s], rule), config[rule.name])] :
            rule \in {rule \in RulesOf(library[s]) :
                        Keeps(threshold, Configured(rule, ProfileOf(library[s], rule),
                                                    config[rule.name]))}} :
         s \in Sources}

-----------------------------------------------------------------------------
\* isRuleEnabled, ruleRunsInMode
IsEnabled(rule) == rule.severity # "off" /\ rule.type # {"informational"}

RunsInMode(rule, mode) == IsEnabled(rule) /\ mode \in rule.type

\* findDuplicates of the names
Duplicated(loaded) == \E a, b \in loaded : a # b /\ a.rule.name = b.rule.name

=============================================================================
