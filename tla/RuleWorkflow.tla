---------------------------- MODULE RuleWorkflow ----------------------------
(***************************************************************************)
(* Thymian.lint, .test and .analyze from the loaded rules to the report:    *)
(* the runner calls every rule that runs in the mode, the tester's context *)
(* records for each call which test cases ran and which result it placed   *)
(* on which case, and createRuns turns results and cases into executions,  *)
(* whose status decides the exit code.                                     *)
(***************************************************************************)
EXTENDS RuleConfiguration, Sequences

CONSTANTS
  Libraries,    \* what the sources may hold
  Configs,      \* user configurations: an entry for every name
  Edges,        \* transactions of the format
  Signals,      \* what one result may carry: violation, rule-skip, both, none
  NoRule,
  MaxEffort,    \* bound on the workflows and the test cases of a session together
  MaxResults    \* bound on the results of one case, and on a rule's own ones

\* A result is located at a transaction of the format, or elsewhere: at another
\* element, at a name, or at an element the format does not have.
Places == Edges \cup {"elsewhere"}

Statuses == {"passed", "failed", "skipped"}

ASSUME WorkflowAssumption ==
  /\ NoRule \notin Names
  /\ "elsewhere" \notin Edges
  /\ Signals \subseteq SUBSET {"violation", "rule-skip"}
  /\ {"violation"} \in Signals
  /\ MaxEffort \in Nat /\ MaxResults \in Nat \ {0}

\* What an entry overrides, it sets to something the loader knows.
EntryOK(entry) ==
  /\ Sets(entry, "severity") => entry.severity \in Severities
  /\ Sets(entry, "type") => entry.type \subseteq Types \cup {"unknown"}

ASSUME InputAssumption ==
  /\ \A userConfig \in Configs : /\ DOMAIN userConfig = Names
                                  /\ \A n \in Names : EntryOK(userConfig[n])
  /\ \A library \in Libraries, s \in Sources :
       /\ RulesOf(library[s]) \subseteq Rules
       /\ library[s].kind # "rule" => \A n \in Names : EntryOK(library[s].profile[n])

VARIABLES
  phase,        \* "idle", "running" (its rules are), "replied" (the runs are in)
  mode,
  config,       \* the user's rules: {} of this workflow
  loaded,       \* its rules
  visited,      \* names of the rules the runner has come to
  current,      \* the rule whose function is running
  calls,        \* that rule's calls of the context: for each, its test cases
  found,        \* the results those calls gave the rule
  ruleResults,  \* what the rules that ended returned, with their calls
  executions,   \* the executions of the reply
  listed,       \* the names of its rule descriptors
  effort        \* workflows started and test cases run so far (for the bound)

ruleVars == <<visited, current, calls, found, ruleResults>>
workflowVars == <<phase, mode, config, loaded, ruleVars, executions, listed, effort>>

-----------------------------------------------------------------------------
\* What is found has a place and its signals; as a result it also tells the call
\* that found it and the test case it was found in, 0 and 0 when the rule made it
\* itself.
Findings(places) == [at: places, signals: Signals]

Numbered(k, c, F) ==
  {[call |-> k, case |-> c, at |-> f.at, signals |-> f.signals] : f \in F}

Few(S) == {F \in SUBSET S : Cardinality(F) <= MaxResults}

\* What one test case of a call may come to: its status, the transactions that ran
\* in it, what was found in it and what of that the call places on it.
Case(status, ran, F, placed) ==
  [status |-> status, ran |-> ran, found |-> F, placed |-> placed]

\* A case that was skipped or could not be executed: nobody looks at it.
Barren(statuses, ran) == {Case(s, R, {}, {}) : s \in statuses, R \in ran}

OneAtMost == {{}} \cup {{e} : e \in Edges}

\* validateCommonHttpTransactions, validateHttpTransactions: one transaction per
\* case; a function may locate its results anywhere, and only those at the
\* transaction are placed.  The live filter may reject the pair.
ValidateCases ==
  {Case("passed", {e}, F, {f \in F : f.at = e}) : e \in Edges, F \in Few(Findings(Places))}
    \cup Barren({"failed", "skipped"}, OneAtMost)

\* validateGroupedCommonHttpTransactions: one case per group
GroupCases ==
  {Case("passed", R, F, F) : R \in SUBSET Edges \ {{}}, F \in Few(Findings(Places))}
    \cup Barren({"failed", "skipped"}, SUBSET Edges)

\* httpTest: a case that failed an assertion is a violation at the asserted
\* transaction, or at the case when none is known
PipelineCases ==
  Barren(Statuses, SUBSET Edges)
    \cup UNION {{Case("failed", R, {f}, {f}) :
                   f \in {f \in Findings(R \cup {"elsewhere"}) : f.signals = {"violation"}}} :
                R \in SUBSET Edges}

\* runHttpTest: the rule looks at the outcome itself
InspectedCases == Barren(Statuses, SUBSET Edges)

\* getRuleExecutionDiagnostics: what call number k leaves of its cases.  createRuns
\* does not tell a skipped case from a failed one.
Entry(k, cs) ==
  [c \in DOMAIN cs |-> [passed |-> cs[c].status = "passed", ran |-> cs[c].ran,
                        placed |-> Numbered(k, c, cs[c].placed)]]

\* What the call returns to its rule.
FoundIn(k, cs) == UNION {Numbered(k, c, cs[c].found) : c \in DOMAIN cs}

-----------------------------------------------------------------------------
\* createRuns.  done is what a rule left: [returned, entries].
AllPlaced(entries) ==
  UNION {UNION {entries[k][c].placed : c \in DOMAIN entries[k]} : k \in DOMAIN entries}

\* positionByEdgeId: the first case of the call that ran the transaction
IsPosition(entry, c, edge) ==
  edge \in entry[c].ran /\ \A b \in 1 .. c - 1 : edge \notin entry[b].ran

\* A wrong reading of consumedResults: every call takes the result again.
NeverConsumed(entries, k, result) == FALSE

\* consumedResults, for a result no call placed: an earlier call took it
AlreadyConsumed(entries, k, result) ==
  \E j \in 1 .. k - 1 : \E c \in DOMAIN entries[j] : result.at \in entries[j][c].ran

Synthesized(done, k, c) ==
  {r \in done.returned \ AllPlaced(done.entries) :
     /\ ~AlreadyConsumed(done.entries, k, r)
     /\ IsPosition(done.entries[k], c, r.at)}

Attributed(done, k, c) == done.entries[k][c].placed \cup Synthesized(done, k, c)

Unattributed(done) ==
  {r \in done.returned : \A k \in DOMAIN done.entries : \A c \in DOMAIN done.entries[k] :
                           r \notin Attributed(done, k, c)}

Carries(results, signal) == \E r \in results : signal \in r.signals

\* A wrong precedence: a rule-skip hides a violation of the same case.
SkipHidesViolation(case, results) ==
  IF Carries(results, "rule-skip") \/ ~case.passed THEN "skipped"
  ELSE IF Carries(results, "violation") THEN "failed" ELSE "passed"

\* computeTestCaseStatus
CaseStatus(case, results) ==
  IF Carries(results, "violation") THEN "failed"
  ELSE IF Carries(results, "rule-skip") \/ ~case.passed THEN "skipped"
  ELSE "passed"

Execution(name, call, case, results, status) ==
  [rule |-> name, call |-> call, case |-> case, results |-> results, status |-> status]

CaseExecutions(name, done) ==
  UNION {{Execution(name, k, c, Attributed(done, k, c),
                    CaseStatus(done.entries[k][c], Attributed(done, k, c))) :
            c \in DOMAIN done.entries[k]} : k \in DOMAIN done.entries}

\* The fallback: a result of no executed case is a case of its own.
LoneExecutions(name, done) ==
  {Execution(name, 0, 0, {r}, IF "violation" \in r.signals THEN "failed" ELSE "skipped") :
     r \in Unattributed(done)}

\* executionsFromRunRulesResult: one execution per returned entry (lint, analyze)
LeafExecutions(name, done) ==
  {Execution(name, 0, 0, {r}, IF "violation" \in r.signals THEN "failed"
                              ELSE IF "rule-skip" \in r.signals THEN "skipped" ELSE "passed") :
     r \in done.returned}

RuleExecutions(name, done) ==
  IF mode = "test" THEN CaseExecutions(name, done) \cup LoneExecutions(name, done)
                   ELSE LeafExecutions(name, done)

\* resolveViolationLocation throws for an element the format does not have: the
\* results createRuns asks it about
MayNotResolve(done) ==
  \E r \in IF mode = "test" THEN Unattributed(done) ELSE done.returned : r.at = "elsewhere"

\* classifyReport
HasFindings(execs) == \E x \in execs : x.status = "failed"

-----------------------------------------------------------------------------
Idle ==
  /\ phase' = "idle" /\ mode' = "static" /\ config' = [n \in Names |-> NoEntry]
  /\ loaded' = {} /\ visited' = {} /\ current' = NoRule /\ calls' = <<>> /\ found' = {}
  /\ ruleResults' = [n \in {} |-> NoRule] /\ executions' = {} /\ listed' = {}

WorkflowInit ==
  /\ phase = "idle" /\ mode = "static" /\ config = [n \in Names |-> NoEntry]
  /\ loaded = {} /\ visited = {} /\ current = NoRule /\ calls = <<>> /\ found = {}
  /\ ruleResults = [n \in {} |-> NoRule] /\ executions = {} /\ listed = {}
  /\ effort = 0

\* lint, test, analyze: the rules are loaded and the action is emitted; its
\* handler refuses two rules of one name (runRules).  threshold is the severity
\* the command was given.
Start(m, library, userConfig, threshold) ==
  /\ phase = "idle" /\ effort < MaxEffort
  /\ effort' = effort + 1
  /\ ~LoadFails(library, userConfig, threshold)
  /\ ~Duplicated(Loaded(library, userConfig, threshold))
  /\ phase' = "running" /\ mode' = m /\ config' = userConfig
  /\ loaded' = Loaded(library, userConfig, threshold)
  /\ UNCHANGED <<ruleVars, executions, listed>>

StartFails(library, userConfig, threshold) ==
  /\ phase = "idle" /\ effort < MaxEffort
  /\ effort' = effort + 1
  /\ \/ LoadFails(library, userConfig, threshold)
     \/ Duplicated(Loaded(library, userConfig, threshold))
  /\ UNCHANGED <<phase, mode, config, loaded, ruleVars, executions, listed>>

Running(rule) == rule \in {l.rule : l \in loaded} /\ RunsInMode(rule, mode)

\* A wrong one: the rule stays on the list.
RunRuleAgain(rule) ==
  /\ phase = "running" /\ current = NoRule
  /\ Running(rule) /\ rule.name \notin visited
  /\ current' = IF mode \in rule.fns THEN rule.name ELSE NoRule
  /\ UNCHANGED <<phase, mode, config, loaded, visited, calls, found, ruleResults, executions,
                 listed, effort>>

\* runRules: the next rule of this mode.  One without a function for it is passed
\* over; its results are never missed, since nobody knows there were none.
RunRule(rule) ==
  /\ phase = "running" /\ current = NoRule
  /\ Running(rule) /\ rule.name \notin visited
  /\ visited' = visited \cup {rule.name}
  /\ current' = IF mode \in rule.fns THEN rule.name ELSE NoRule
  /\ UNCHANGED <<phase, mode, config, loaded, calls, found, ruleResults, executions,
                 listed, effort>>

\* The rule calls its context, which runs some test cases.  (A call that runs none
\* records nothing that createRuns reads.)
Calls(CaseSet) ==
  /\ phase = "running" /\ current # NoRule /\ mode = "test"
  /\ \E n \in 1 .. MaxEffort - effort :
       /\ effort' = effort + n
       /\ \E cs \in [1 .. n -> CaseSet] :
            /\ calls' = Append(calls, Entry(Len(calls) + 1, cs))
            /\ found' = found \cup FoundIn(Len(calls) + 1, cs)
  /\ UNCHANGED <<phase, mode, config, loaded, visited, current, ruleResults, executions,
                 listed>>

Validates == Calls(ValidateCases)
ValidatesGroups == Calls(GroupCases)
TestsPipeline == Calls(PipelineCases)
InspectsPipeline == Calls(InspectedCases)

RuleEnds ==
  /\ current' = NoRule /\ calls' = <<>> /\ found' = {}
  /\ UNCHANGED <<phase, mode, config, loaded, visited, executions, listed, effort>>

\* The rule returns what it likes of what its calls found, and results of its own.
RuleReturns ==
  /\ phase = "running" /\ current # NoRule
  /\ \E kept \in SUBSET found, own \in Few(Findings(Places)) :
       ruleResults' = [n \in DOMAIN ruleResults \cup {current} |->
                         IF n = current THEN [returned |-> kept \cup Numbered(0, 0, own), entries |-> calls]
                                        ELSE ruleResults[n]]
  /\ RuleEnds

\* A rule that throws, or whose call does, takes the workflow with it.
RuleThrows ==
  /\ phase = "running" /\ current # NoRule
  /\ Idle /\ UNCHANGED effort

AllVisited == \A l \in loaded : Running(l.rule) => l.rule.name \in visited

\* createRuns and the reply; rulesToRuleDescriptors lists the rules.
Replies ==
  /\ phase = "running" /\ current = NoRule /\ AllVisited
  /\ phase' = "replied"
  /\ executions' = UNION {RuleExecutions(n, ruleResults[n]) : n \in DOMAIN ruleResults}
  /\ listed' = {l.rule.name : l \in {l \in loaded : RunsInMode(l.rule, mode)}}
  /\ UNCHANGED <<mode, config, loaded, ruleVars, effort>>

ReplyFails ==
  /\ phase = "running" /\ current = NoRule /\ AllVisited
  /\ \E n \in DOMAIN ruleResults : MayNotResolve(ruleResults[n])
  /\ Idle /\ UNCHANGED effort

\* finalizeWorkflow: the report is built and emitted, the caller classifies it
Finalize ==
  /\ phase = "replied"
  /\ Idle /\ UNCHANGED effort

-----------------------------------------------------------------------------
AllResults == [call: Nat, case: Nat, at: Places, signals: Signals]

AllCases == [passed: BOOLEAN, ran: SUBSET Edges, placed: SUBSET AllResults]

\* What a rule leaves
Done == [returned: SUBSET AllResults, entries: Seq(Seq(AllCases))]

WorkflowTypeOK ==
  /\ phase \in {"idle", "running", "replied"} /\ mode \in Modes
  /\ DOMAIN config = Names /\ \A l \in loaded : l.from \in Sources /\ l.rule \in Rules
  /\ visited \subseteq Names /\ current \in Names \cup {NoRule}
  /\ calls \in Seq(Seq(AllCases)) /\ found \subseteq AllResults
  /\ DOMAIN ruleResults \subseteq visited
  /\ \A n \in DOMAIN ruleResults : ruleResults[n] \in Done
  /\ listed \subseteq Names /\ effort \in 0 .. MaxEffort

\* AttributedOnce: in a test report, every result a rule returned, and every result
\* its calls placed on a case, belongs to exactly one execution, and a placed one
\* to the case it was found in.  createRuns guards it twice (the results placed by
\* any call, the results already consumed): without either, one failure is told
\* twice and fails a case of another call.
AttributedOnce ==
  phase = "replied" /\ mode = "test" =>
    \A n \in DOMAIN ruleResults :
      LET done   == ruleResults[n]
          placed == AllPlaced(done.entries) IN
      \A r \in done.returned \cup placed :
        \E x \in executions :
          /\ x.rule = n /\ r \in x.results
          /\ r \in placed => x.call = r.call /\ x.case = r.case
          /\ \A y \in executions : y.rule = n /\ r \in y.results => y = x

\* ViolationsDecide: the command reports findings exactly when some rule returned
\* a violation or a call placed one on its case.  No HTTP failure, skipped case or
\* rule-skip makes a finding, and none hides one.
ViolationsDecide ==
  phase = "replied" =>
    (HasFindings(executions) <=>
       \E n \in DOMAIN ruleResults :
         \/ Carries(ruleResults[n].returned, "violation")
         \/ Carries(AllPlaced(ruleResults[n].entries), "violation"))

\* RanAsConfigured: the rules the report lists are those the runner called, each
\* as the user's configuration left it: the user may turn off a rule its profile
\* turns on, and a rule without the function its type asks for is refused when it
\* is loaded, not listed and silently passed over.
RanAsConfigured ==
  phase = "replied" =>
    /\ listed = DOMAIN ruleResults
    /\ \A n \in listed :
         /\ Sets(config[n], "severity") => config[n].severity # "off"
         /\ Sets(config[n], "type") => mode \in config[n].type
=============================================================================
