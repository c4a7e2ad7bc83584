# Thymian, specified in TLA+

Thymian tests and lints HTTP APIs. It is a small core around an event bus, with almost everything
else (loading formats, sampling, dispatching requests, testing, linting, reporting) in plugins that
register handlers on that bus. This directory holds TLA+ modules for the parts of it where order,
concurrency and failure decide whether it is correct, TLC configurations that check them on small
instances, and TLAPS proofs of their main properties for every size.

Paths below are relative to `src/packages/`. `PROJECT.json` has, for each definition, the lines of
code it stands for.

- [The system](#the-system): the parts, their state, how they interact, what is hard about them
- [The modules](#the-modules): one section per modelled component
- [The runs](#the-runs): what is checked on which instance, and why the bounds are enough
- [The proofs](#the-proofs): what holds for every instance, and along which argument
- [Where code and documentation disagree](#where-code-and-documentation-disagree)
- [What is not modelled](#what-is-not-modelled)
- [The plan](#the-plan)

## The system

Everything runs in one Node.js process (plus remote plugins behind a WebSocket), so there are no
data races, but every `await` is a point at which other handlers, timers and messages come in.

| Component | State | Operations | Talks to | Hard about it |
| --- | --- | --- | --- | --- |
| **Event bus**, `core/src/emitter` | three RxJS subjects (events, responses, errors) and a map of listener counts, shared by all child emitters | `on`, `onAction`, `emit`, `emitAction`, `shutdown`, `completeSubjects` | everything | concurrent calls of one action, answers that are late, repeated or missing, timers, teardown under waiting callers |
| **Run lifecycle**, `core/src/thymian.ts` | registered plugins, ready flag, the flag `closed` of a run | `register`, `ready`, `run`, `close` | bus | two closes race for one promise and one bus |
| **Workflows**, `core/src/thymian.ts` | none beyond their locals | `loadFormat`, `lint`, `test`, `analyze`, `validate`, `finalizeWorkflow` | plugins, by actions | a chain of actions, each of which may fail |
| **Run-scoped hooks**, `plugin-sampler/src/hooks/run-scoped-hooks.ts` | a latch (a memoized promise) and a teardown list | `load`, `start`, `close` | hook runner | first-touch latch under concurrent requests, close during setup, close twice |
| **Hook runner**, `plugin-sampler/src/hooks/hook-runner.ts` | hooks, the format, chains of nested requests | `beforeEachRequest`, `afterEachResponse`, `authorize`, `runNested` | run-scoped hooks, bus | requests made by hooks run hooks; a guard cuts cycles |
| **Request dispatcher**, `plugin-request-dispatcher` | a `PQueue` of bounded concurrency | `core.request.dispatch`, `core.close` | bus, network | queueing time counts against the caller's timer; close waits for an idle queue |
| **HTTP test pipeline**, `core/src/http-testing`, `plugin-http-tester` | test cases with steps and results | operators that filter, map, run and validate | hook runner, dispatcher | skip, fail and error of a case must not be mixed up |
| **Rules and report**, `core/src/rules`, `core/src/report`, `plugin-http-tester`, `-linter`, `-analyzer` | loaded rules, what each call of a rule's context recorded, executions of the report | load and configure rules, run them, build the report | plugins | three layers of configuration, the same result seen in several calls, precedence of statuses |
| **Reporter**, `plugin-reporter` | formatters, a memoized flush | `core.report`, `core.close` | bus | flush once although closed twice; a report that arrives during the flush |
| **WebSocket proxy**, `plugin-websocket-proxy` | registry of clients, per-connection handshake, contexts waiting for an answer | `start`, `stop`, messages of clients, forwarding of actions | bus, sockets | handshake against timer, clients that break the protocol or leave |
| **CLI**, `common-cli`, `thymian`, `plugin-sampler/src/cli` | the session of `serve`, the loop of `sampler check`, a promise queue | commands, exit codes | core | closes while a workflow runs, an error of one transaction |
| Formats, parsers, samplers, validators, rule sets | data | pure functions and I/O | | strings and schemas, not order |

What makes each of them correct:

- *Event bus.* A caller hears the answers to its own call, all of them while it waits and none
  afterwards; it settles, whatever handlers do; it never takes silence or an error for success;
  tearing the bus down releases everybody.
- *Run.* It settles once, with the first cause of its failure, and leaves no live bus behind; it
  resolves only if everything on its main path went well.
- *Run-scoped hooks.* Setup runs once, before any request; teardown runs once, in reverse, completely,
  and only if a request came.
- *Hook runner.* Every chain of nested requests ends; a verdict given inside a nested request stays
  there, and what the seeds of a hook met is told to the case with the verdict of the hook.
- *Dispatcher.* At most `concurrency` requests are in flight and no slot is idle while one waits,
  whoever has given up; what was owed when `core.close` came is settled before it is answered.
- *Test pipeline.* Every case ends in exactly one outcome that nothing changes afterwards, a problem of
  one case is no problem of another, and every test ends.
- *Rules and report.* Rules run as the user configured them or the workflow fails; each result is told
  exactly once; the exit code says "findings" exactly when there is a violation.
- *Reporter.* What was reported before the close is written before it is answered, by each formatter.
- *Proxy.* `start` resolves when and only when the required plugins are on the bus; an action sent to a
  remote plugin is answered at most once; `stop` reaches every registered client.

`PROJECT.json` lists under "hazards" where, line by line, these can go wrong, with the property that
watches each of them, or a note on why none does.

## The modules

```
ActionPromise  <--refined by--  ThymianEmitter  <--relied on by--  ThymianRun
                                  MCThymianEmitter
                                  ThymianEmitterProofs               ThymianRunProofs
                                  ThymianEmitterRefinement
RunScopedHooks                  WebSocketProxy
  MCRunScopedHooks                MCWebSocketProxy
  RunScopedHooksProofs            WebSocketProxyProofs

TestPromise  <--refined by--  HttpTest  <-- HookRunner
                                MCHttpTest
                                HttpTestProofs
RuleConfiguration --> RuleWorkflow --> Session <-- Reporter
                                         MCSession
                                         SessionProofs
Expectation
  MCExpectation
  ExpectationProofs
```

An arrow `-->` is EXTENDS: `HttpTest` composes the hooks with the pipeline and the dispatcher, `Session` the
workflows with the reporter. An `MC` module holds the values its configuration gives to the constants; a `Proofs` module extends
the module it is about. Definitions whose comment begins "A wrong ..." are not part of any
specification: each is the form a plausible mistake would give the definition that follows it, and
shows that a property would notice.

### ThymianEmitter (core/src/emitter/thymian-emitter.ts, utils.ts)

The action half of the bus. `registered` and `listeners` are what `onAction` leaves: a subscription,
and a count in the shared map. `emitAction` is split where the code is split:

| Code | Model |
| --- | --- |
| `onAction` 288-344 | `Register` |
| `emitAction` up to its first `await` (count listeners, subscribe the collector), 346-400 | `CallUnhandled` (nobody listens, not a `core.` action), `CallAction` |
| the microtask that publishes the event, 402-408 | `SendEvent`: every handler subscribed *by now* is invoked |
| the merged stream with `filter`, `take(takeNum)`, `takeUntil(timer)`, 389-400 | `collector`, `results`; `Publish`, `Expire` |
| the handler's context `reply` and `error`, its promise, 299-342, 525-583 | `Reply`, `ReplyError`, `HandlerThrows`, `HandlerReturns` |
| what follows the `await`, 410-505 | `Outcome`, a function of the state |
| `completeSubjects` 188-192 | `CompleteSubjects` |

Handlers are as free as the code leaves them: they may answer before or after they return, again, or
never. `given` is a history variable: everything published for a call. The three strategies matter
through their quota and their outcome only; what `collect` and `deep-merge` make of the answers is left
out. Child emitters (`child`) share the subjects and the map, and so are the same bus here.

`ActionPromise` is the abstract specification: what an `await emitter.emitAction(...)` can count on,
without collectors, quotas, timers or handlers. `ThymianEmitter` implements it under the mapping
`PromiseOf` (`ImplementsActionPromise`), checked by TLC and proved. One step may move many calls: the end
of the subjects settles all of them, which is why `PromiseNext` is a conjunction over calls.

### ThymianRun (core/src/thymian.ts 268-349, 903-945)

One `Thymian.run`. `main` is where the main path (`ready`, the caller's function, `close`) is;
`closing["main"]` and `closing["error"]` are the two uses of `close()`, that of the main path and that of
`tryCloseThymian`, which the first error diagnostic or the first failure of the main path starts. Both emit
`core.close` on, drain and complete *the same* bus. `ready` returns at once on a Thymian that is ready, so a
run may begin with the caller's function. `core.ready` and `core.close` are calls of `emitAction` and are
represented by what `ActionPromise` promises: `faulty` records whether an error was heard, a call that heard
one is rejected (both use error-sensitive options), and `core.ready`, which is strict, may also be rejected
over silence. `shutdown`, the drain, may take any time between its idle time and its hard limit; that is
one step, `Drain`, that may happen at any time.

### RunScopedHooks (plugin-sampler/src/hooks/run-scoped-hooks.ts, with its callers in hook-runner.ts)

`setup` is `startPromise`; `at` is how far `runBeforeAll` came; `teardown` is the list, as a set of
sequence numbers because `close` sorts it; `items[k]` is what close `k` spliced off it. Requests and closes are
concurrent in every order, and the callbacks of users may throw. `trace`, the history of callbacks, is
what the properties speak of. `Load` resets everything; it is guarded by quiescence because the comment of
`load` (49-56) names a load during a run as a shape that does not occur. A `beforeAll` that never returns is
covered, since no fairness is assumed.

### WebSocketProxy (plugin-websocket-proxy/src/websocket-proxy-server.ts, index.ts, utils.ts)

Per connection: `socket` (the `ws` library, external), `state` (the handshake), `window` (its race against
the timer) and `name`. `window = "won"` and `"admitted"` are apart because the continuation of the race (86-106, `timeoutPromise`
in `core/src/utils.ts`) runs some microtasks after the ready message. Before it does, only the bus, `stop` and further
messages of the same socket can act; everything else that comes from outside (other sockets, timers, the server's close
event) is guarded by `Drained`. Clients are unconstrained: any message in any state,
leaving at any time. The code does some surprising things, and so does the model:

- a register under a name that is in use, or with a wrong token, is told `ok: false` and then registered
  all the same (218-258; there is no `return`), and the later of two namesakes replaces the earlier in the registry;
- nothing listens to a client's leaving: it stays in the registry and its handlers stay on the bus;
- answers are accepted from a connection in any state, as long as one is owed;
- `stop()` closes those in the registry only, then waits for *all* sockets; a second `stop()` of a server
  that has closed is rejected by `ws`.

The content of acknowledgements, tokens and events is left out, and each connection stands for one handler
(`onActions` may name several actions; they differ in the event only).

### HookRunner and HttpTest (plugin-sampler/src/hooks, core/src/http-testing, plugin-request-dispatcher)

The path of a request, with everything that can end it. `HookRunner` has the pure part: a *frame* is one
request under way, of a test case or a seed (a request a hook sends with `utils.request`), with its `stage`, the hooks of that stage that are `left`, and what the seeds of
the stage `recorded`. `NewFrame`, `Enter`, `NextStage`, `Refused`, `Verdict` and `SeedAnswered` are what `compose`, `runNested` and
`interpretHookFailure` make of it; a kind without hooks passes in the same turn, so that a frame is at a kind only while a hook of it runs.
`HttpTest` has the state and the steps:

| Code | Model |
| --- | --- |
| a test case and its status, `ctx.skip`, `ctx.fail`, the `next` of `httpTest` | `status`, `kept`; `EndCase` |
| an error in the observable; the catch in the loop of `sampler check` (check.ts:150-169) | `ErrorLeaves`, `BreakCase` |
| the seeds a hook sends, any number at once, and those their hooks send | `request[s]`, a frame for each, and `caller[s]`, whose results it reports to; `HookSeeds`, `SeedReturns` |
| the end of a hook, and of the last of a kind; its verdict or its defect | `HookReturns`, `ComposeReturns`, `KeepResults`; `HookThrows` |
| the cycle guard, hook-runner.ts:403-418 | `WillRunAHook`, `Refused` |
| `PQueue` with its concurrency, and callers that gave up | `queue`, `inflight`, `orphans`; `Enqueue`, `StartNext`, `Abandon` |
| the timers of `emitAction` around a hook and around a dispatch | `HookTimesOut`, `DispatchTimesOut` |
| the dispatcher's `core.close` | `AskClose`, `RepliesToClose`; `owed` is who was waiting when it came |
| status comparison, `expectForTransactions`, `replayStep` | `StatusDiffers`, `ExpectationDecides`, `Replay`, `Passes` |

Two callers drive it (`mode`). A rule hands all its transactions to one `httpTest`, rxjs runs them at once and
one error ends them all; `sampler check` makes an `httpTest` per transaction and turns an error into an outcome.
A hook that outlives its timer goes on: its case is `"broken"`, its request is still at its hooks, and it may still send seeds.
Hooks are free to do what their interface lets them: send seeds one by one, together (`Promise.all`) or without waiting for them, set the authorize flag,
catch what a seed throws or not, skip, fail, throw, or never return. A seed may outlive the hook that sent it; once the last hook of
that kind has ended, its answer goes to nobody, and what its own hooks do still happens. `SerializeFails` skips a case whose request cannot be serialized and breaks it for any other error
(run-requests.operator.ts:137-154). A test of no transactions resolves at once. One counter stands for the hooks of a kind bound to a transaction; which
hook it is, the overlay of request data and the content of requests are left out.

`TestPromise` is the abstract specification: what whoever awaits the test can count on, without hooks, requests, queues or timers.
Each case earns one outcome, once; the promise settles once, resolved with the last outcome, or rejected with the first case
that breaks (a rule) or ended with the run (`sampler check`), and no case begins afterwards. `HttpTest` implements it under the mapping
`TP` (`ImplementsTestPromise`), checked by TLC and proved: the steps of hooks, requests, dispatcher and timers that decide no case are stutters.

### RuleConfiguration, RuleWorkflow, Reporter and Session (core/src/rules, core/src/report, plugin-http-tester, plugin-reporter)

`RuleConfiguration` has the pure part: from the sources a user names (a rule, an inline rule set, a rule set with a
pattern and what its matches hold) to the loaded rules, with every check of `rule-loader.ts` and
`rule-execution-invariant.ts`, the overrides of profile and user, and the severity filter. `RuleWorkflow` has `lint`, `test` and `analyze`:

- `Start`, `StartFails`: the rules are loaded, and `runRules` refuses two of one name. `mode` is the action
  that was emitted. Loading the format is left out: it fails or not, before any of this.
- `RunRule`, `RuleReturns`, `RuleThrows`: `runRules`, one rule after another.
- `Validates`, `ValidatesGroups`, `TestsPipeline`, `InspectsPipeline`: the calls of `HttpTestApiContext`. Which cases
  a call runs, how they end and what is found in them is free; which results it *places* on which case is the code's.
- `Replies`: `createRuns`. `Synthesized` and `AlreadyConsumed` are the two guards of `resolvePlacements`,
  `CaseStatus` is `computeTestCaseStatus`, `LoneExecutions` is the fallback. For `lint` and
  `analyze`, `LeafExecutions` is `executionsFromRunRulesResult`. `ReplyFails`: a result at an element the format
  does not have makes `resolveViolationLocation` throw.
- `Finalize`: `finalizeWorkflow`; `HasFindings` is `classifyReport`, which decides the exit code.

A result that no call found (a rule's own) has call and case 0. A case keeps the set of transactions that ran in it: steps
are left out, a result is placed on a case. The results `createRuns` counts are the returned ones and the
*placed* ones: a rule that drops a placed result from its return value is still reported by it.

`Reporter` has one chain of writes per formatter, which `core.report` extends and nobody awaits, and the flush
of `core.close`: a loop that waits for the tail until the chain has stopped growing, started by the first close and
awaited by all. `Session` is what `serve` makes of them: workflows one after another, each report queued at the reporter in the step that
builds it, closes at any time.

### Expectation (core/src/http-testing/test-builder/compilers/response-scoped-to-transaction-validator.ts)

`expectForTransactions(...filters)` compiles its filters to one function. `Outcome` says what the compiled function of a filter does with a
response: throw, return true or false, or return nothing. A filter is a record; compound filters name their
parts. The headers' names are compared as they are (the code ignores case), and filters of the request are refused when compiled.

## The runs

| Run | Configuration | Specification | Shows |
| --- | --- | --- | --- |
| `emitter` | `MCThymianEmitter.cfg` | safety | answers, quotas, outcomes and teardown of two concurrent calls (2.3 million states) |
| `emitter_liveness` | `MCThymianEmitterLive.cfg` | fair | every call settles; the emitter implements `ActionPromise` (307 thousand states) |
| `emitter_collect` | `EmitterCollect.cfg` | safety | a violation, see below |
| `run` | `ThymianRun.cfg` | fair | a run settles once, with its first cause, over a bus torn down (1331 states) |
| `run_rejects` | `RunRejects.cfg` | safety | a violation, see below |
| `run_scoped_hooks` | `MCRunScopedHooks.cfg` | safety | setup and teardown under 3 requests and 2 closes (7302 states) |
| `proxy` | `MCWebSocketProxy.cfg` | safety | the handshake, the registry, start, stop and answers (960,000 states) |
| `proxy_start` | `ProxyStart.cfg` | safety | a violation, see below |
| `http_test` | `MCHttpTest.cfg` | fair | two cases, hooks that seed each other, one slot, timers, refusals and a close; the pipeline implements `TestPromise` (665 thousand states) |
| `http_test_outcomes` | `HttpTestOutcomes.cfg` | safety | a violation, see below |
| `session` | `MCSession.cfg` | fair | rules of all kinds through workflows to a report, under two closes (371 thousand states) |
| `filters_expect` | `MCExpectation.cfg` | safety | a violation, see below |

`CHECK_DEADLOCK FALSE` is in every configuration: each of these systems comes to an end (all calls made
and settled, the run over, all sockets ended, all cases settled, the bounds of a session used up) and then has nothing left to do.

**Properties.** Each is stated in its module, above its definition, in words. In short:
`HearsItsOwnAnswers` (correlation), `QuotaIsReachable` (the count taken before the microtask can be filled
by the handlers the event reaches after it), `EveryListenerHeard` (under which conditions "wait for all
listeners" is true), `NoSilentSuccess`, `ShutdownReleasesCallers`, `EveryCallSettles`,
`ImplementsActionPromise`; `RejectsWithFirstCause`, `SettledMeansTornDown`, `SuccessIsClean`,
`RunSettles`; `NoRequestBeforeSetup`, `Unwinds`, `NothingStranded`, `TeardownIsLatched`;
`StartMeansReady`, `AdmittedIsRegistered`, `RegistryIsReady`, `AnswersOnce`; `NoReentry` (seeds end), `NobodyIsStuck` (nobody waits for what nobody owes),
`SlotsAreUsed`, `OneRequestEach`, `CloseSettlesOwed` (the dispatcher), `OwnRequestDecides`, `AllAreAccountedFor`,
`ImplementsTestPromise`, `TestEnds` (the cases); `AttributedOnce`, `ViolationsDecide`, `RanAsConfigured` (the report),
`CloseAfterReports`, `FlushDrains`, `ClosesAnswered` (the reporter); and one `TypeOK` per module.

**Bounds**, and why they are enough to be interesting:

- `emitter`: two calls (`Calls`), so that an answer can go to the wrong one and a teardown can meet several;
  two listeners of one action, the least with which one can take the other's place or register between count
  and event; `MaxAnswers` 2 answers published per call, so that one listener can answer twice or two once
  each. The requests cover collecting and first, strict and lenient, core and unhandled plugin actions.
  Calls are symmetric. With liveness (no symmetry) `MaxAnswers` is 1; a call can then be closed by an answer, by a
  timer short of its quota, and by teardown.
- `run`: two plugins, so that registration can fail in the middle; `MaxDiagnostics` 3 error events: one to
  start the error close, one for a handler of each close.
- `run_scoped_hooks`: three requests (one that arms the latch, one that waits with it, one that comes after it
  settled), two closes (a run has at most two), `MaxLoads` 2 for one reload, and lists of hooks that mix the kinds (`MCHookLists`).
- `proxy`: three connections (the required client, a namesake that replaces it, another plugin), one required
  and one extra name, one action event and two stops. Connections are symmetric, and so are stops.
- `http_test`: a transaction whose beforeEach hook seeds another one, twice at once if it likes (`SeedIds` 2), and an authorize hook of that one that tries to seed
  its own token without hooks, or the first transaction again: both ways round the cycle guard. A second case with an authorize and an afterEach hook, so that one
  can break under the other. `Concurrency` 1, so that requests wait and abandoned ones take the slot; `MaxAbandoned` 1 bounds only the seeds that are given
  up, which a hook could go on sending for ever. `Steps` 2 for one replay; both modes are in one run. The server answers what the selector names or a status the operation does not declare; one that is declared is
  recorded like the latter and thrown like neither. `SetsFlag` is empty: with a hook that sets the flag in the place of the afterEach hook the same properties
  hold (718 thousand states); an instance with both is left out for its size. Chains of more than two requests, several hooks of one kind and more seeds at once are met by the theorems only.
- `session`: `MaxEffort` 3 counts workflows and test cases together: one workflow with two cases, in one call or in
  two, which is the least that can attribute a result twice; or up to three workflows. `MaxResults` 1 result per case and one of the rule's own. One
  transaction, since the guards speak of *the same* transaction in two cases, and places outside of it; a violation and a rule-skip, which
  are the two signals that decide a status (a result that carries both is left to the theorems). Twelve libraries and six configurations meet every branch of the loader: every kind of source and match, each check failing,
  a profile and a user overriding severity, type and options. `MaxReports` 2 and `MaxCloses` 2: a report that arrives during a flush, and a close during another.
- `filters_expect`: every kind of response filter and one compound of each kind, `MaxFilters` 2, `MaxTransactions` 1.

**Fairness.** Only what Node.js and the code guarantee. Emitter: microtasks run (`SendEvent`) and timers
fire (`Expire`); no handler need return or answer, nobody need tear the bus down. Run: the registration of a
plugin has a timeout (`timeoutPromise`, 903-945), calls of the bus settle (that is `EveryCallSettles`),
`shutdown` has a hard limit of five times its idle time, and continuations of settled promises run; the caller's
function need not return, and so `RunSettles` begins where that no longer matters. Tests: continuations of settled promises run
(`PipelineSteps`, `CaseSteps`) and the timers of actions fire (`Timers`), per case; hooks need not return and the server need not answer. Session: a write ends and
the awaits of `flush` and `core.close` resume; no rule need return and no close need come. Run-scoped hooks
and proxy are checked for safety only: their progress depends on the user's callbacks and on clients, of which nothing can be assumed.

## The proofs

TLAPS (tlapm) proves, for any value of the constants that satisfies their assumptions (`NamesAssumption`,
`BoundsAssumption`, `HookListsAssumption`, `NoConnAssumption`, `HooksAssumption`, `HttpTestAssumption`,
`WorkflowAssumption`, `InputAssumption`, `ReporterAssumption`: well-typed parameters, finitely many
listeners), each safety invariant, each `TypeOK` and each action property of the passing runs, and both refinements. In every module the
argument is `Init => IInv`, `IInv /\ [Next]_vars => IInv'` and `IInv => Inv`, with one step per action.
Beyond what the runs check they prove, for each liveness property, what it rests on
([below](#what-liveness-rests-on)), and for three of the five disagreements how far they go.

- **ThymianEmitterProofs** (`TypeCorrect`, `Correlation`, `Reachability`, `Completeness`, `NoSilence`,
  `Release`, `Armed`). The invariants are not inductive alone: that a quota can be filled needs `Counted` (the shared
  count *is* the number of subscriptions, and a count taken earlier is not larger: registrations only add), that
  an answer comes from an invoked handler needs `Stages` (nothing happens to a call before its event is
  sent), and that a filled quota heard everybody needs `QuotaTaken` with a pigeonhole argument on cardinalities:
  as many answers as invoked handlers, by different handlers, are answers by all of them.
- **ThymianEmitterRefinement** (`Implementation`): `Spec => ImplementsActionPromise`. Every step of the
  emitter is, for each call, one of "nothing", "issued" or "progress" of `ActionPromise`; it needs `IInv` to know that a collector
  that closes holds what its outcome is computed from.
- **ThymianRunProofs** (`TypeCorrect`, `FirstCauseWins`, `TornDown`, `CleanSuccess`, `SettlingUnderWay`, `CausePursued`, `SuccessOvertakes`,
  `Forward`, `BoundedProgress`). What the promise says
  follows from how far the two closes got (`Settlement`), and that from what each stage left behind (`CloseProgress`,
  `MainProgress`, `FirstCause`). `Handover` adds that a main path that ended left somebody to settle the promise. From it, `SuccessOvertakes` delimits the
  finding of `run_rejects`: a run resolves over a recorded cause only in the step in which its main close has overtaken a rejecting close still on its way.
- **RunScopedHooksProofs** (`TypeCorrect`, `SetupFirst`, `Unwinding`, `NothingIsStranded`, `LatchedTeardown`, `NobodyHangs`).
  `Unwinds` speaks of all pairs of callbacks; it is preserved because no two closes hold items at once and every item left
  is earlier in the list than what has run (`Remaining`), because a setup step is past all setup before it (`SetupProgress`), and because
  nobody takes the list while the setup runs (`Latched`). `Accounted` says where every item owed is: run, listed or taken.
- **WebSocketProxyProofs** (`TypeCorrect`, `ReadyWhenStarted`, `StopReaches`, `RegistryCorrect`, `OneAnswer`, `OnlyRequired`).
  `Handshake` says what a connection has behind it in each state, `Answering` ties `pending`, `received` and the count of answers together.
  `OnlyRequired` delimits the finding of `proxy_start`: where only required names ever connect (`Names = Required`), `StartsOnceRequiredConnected` holds.
- **HttpTestProofs** (`TypeCorrect`, `NeverReentered`, `Bounded`, `SlotsUsed`, `RequestsAreOwned`, `OwnRequestsDecide`, `CloseWaits`,
  `AccountedFor`, `OutcomesStay`, `NobodyStuck`, `TestPromiseKept`), for any hooks, any number of seeds at once and chains of any shape. `IInv` adds `FramesOK` (a chain names no transaction twice, and the target of a frame
  is on it only if no hook of that frame runs, `Plain`), `CasesFit` (what a case has under way at each status), `CallersFit` (whoever a seed reports to is at its
  hooks), `OwedWait` (who is owed an answer waits for one) and `Accounts`. From `FramesOK` `Bounded` is a
  pigeonhole argument over the transactions. (`ChainsBounded` follows from what `NoReentry` needs, and `OutcomesAreFinal`
  from `ImplementsTestPromise`; no run checks them beside those.) `RequestsAreOwned` has to follow each request through `Enqueue`, `StartNext` and `Abandon`: the lemmas `Started`,
  `Enqueued` and `GivenUp` say what each does to who waits, once for all actions. `OwnRequestsDecide` and `TestPromiseKept` share `OutcomeSteps`: all that decides a
  case goes through `EndCase`, `ErrorLeaves` or `BreakCase`, so it finds the one case decided, or none, once for all actions; `TestStepMaps` then
  makes `Begin`, `Finish`, `Break`, `RunStops` or a stutter of the step.
- **SessionProofs** (`TypeCorrect`, `ResultsAttributedOnce`, `ViolationsDecideVerdict`, `RunsAsConfigured`, `ClosesComeAfterReports`,
  `FlushesDrain`, `ClosesUnderWay`, `ThresholdFilters`). For the reporter, `FlushOK` bounds each tail by what was owed and by what was written. For the workflow, `LoadedOK` says that loaded rules are
  configured, declared and able to run, `RunOK` that the rules visited so far left results (nobody was passed over without a function: `NotPassedOver`), `EntriesOK`
  where the placed results of each call are, and `ReplyOK` that the executions are those of the results. That a result is in
  exactly one execution is proved of the *definitions*, for any number of calls and cases (`Attribution`): `FirstPosition` finds
  the first case that ran a transaction by well-founded induction, `OnePosition` that there is only one, and the two guards exclude a second call.

  `ThresholdFilters` is about the loader alone: a stricter threshold loads a subset of the rules of a looser one, configured alike, and rejects no library the
  looser one accepts.
- **ExpectationProofs** (`AndThrows`, `LaterNeverAsked`, `OrDemandsMore`, `OnlyMasked`, `NoFalseAlarms`). An `and` throws just when a part
  throws *and all parts before it returned true*. As a filter that holds returns nothing more often than true, what stands behind it is never asked: not in an
  `and`, and not in an expectation of several filters, which is one. A passing test case hides a mismatch only so, and a failing one fails over the first
  filter that throws for its response. An `or` throws wherever an `and` of the same parts does. `Outcome`, a recursive function over the filters, is opaque to
  these proofs: they hold whatever single filters assert, and what a compound filter computes stays with TLC.

### What liveness rests on

Liveness under fairness is out of the prover's reach. What can fail about these properties short of an unfair scheduler is that somebody waits for what
nobody owes, or that the steps there are lead nowhere; that is safety, and is proved for every size:

| Liveness, checked by TLC | Someone can always go on | The steps lead somewhere |
| --- | --- | --- |
| `EveryCallSettles` | `Armed`: a waiting call has its event's microtask before it or its timer armed | one step each |
| `RunSettles` | `SettlingUnderWay`: a close has a step that no handler, plugin or caller has to allow | `Forward`, `BoundedProgress`: each step but a diagnostic raises a measure bounded by `NumPlugins + 12` |
| `TestEnds` | `NobodyStuck`: an undecided case has a step or a timer that needs neither hook nor server | `Bounded`: the chains of seeds are bounded by the transactions |
| `ClosesAnswered` | `ClosesUnderWay`: a write to settle, a flush to resume, or the answer itself | the reports of a session are bounded |
| none (hooks may never return) | `NobodyHangs`: a setup that is awaited was started and has a next hook, a close has a next item | |

That these facts and the fairness of the code give the liveness properties is the step TLC takes, on the instances.

**Only model-checked**: `EveryCallSettles`, `RunSettles`, `TestEnds` and `ClosesAnswered`, because liveness under fairness is out of
the prover's reach (and `ENABLED` with it: the theorems above name the steps instead), and the five violations.

## Where code and documentation disagree

1. **`emitter_collect`**: `docs/arc42/08-crosscutting-concepts.md:39` (under `src/`) says of `'collect'` "Wait for all listeners". The
   code counts answers, not listeners (`take(takeNum)`), and a context can answer twice. The reporter's
   `core.close` handler does when its flush fails: it replies in `finally` and then throws
   (`plugin-reporter/src/index.ts:177-186`). One listener fills the places of two, and the call ends while the other
   still runs. `EveryListenerHeard` states what does hold: it is true if handlers answer at most once.
2. **`run_rejects`**: `plugin-sampler/src/cli/commands/sampler/check.ts:89` says that `Thymian.run` "closes and
   rejects on the first such diagnostic". One that arrives while the main path is in its own `close()` starts a second close, but the main
   path can finish first, and the run resolves (`core/src/thymian.ts:329`). `SuccessIsClean` and
   `RejectsWithFirstCause` state what does hold, and `SuccessOvertakes` proves that this race is the only way to lose a diagnostic the run heard.
3. **`proxy_start`**: the guide on connecting remote plugins (line 70) says of `required` that Thymian "waits for the plugin to connect
   before starting". `setContainsAll` (`plugin-websocket-proxy/src/utils.ts`) demands that *exactly* the required
   names are connected: when a plugin that is not required connects before the last required one, `start()` stays pending and `core.ready` is not answered
   by the proxy. `StartMeansReady` states the direction that holds, and `OnlyRequired` proves the other where no
   other names connect.
4. **`http_test_outcomes`**: ADR 0024 (`docs/arc42/adr/0024-a-per-transaction-problem-must-not-end-the-run.md:40-41` under `src/`) decides that "a problem
   with one Transaction" is "an outcome of that Transaction, and never an outcome of the run". For `sampler check` it is. For a rule, a refused connection, a
   defect in a hook or a failed sample rejects the one `httpTest` of all its transactions (`http-test.ts:52-54`), `runRules` rethrows it
   (`rule-runner.ts:261-279`), and the whole `core.test` fails. `AllAreAccountedFor` states what does hold.
5. **`filters_expect`**: the guide on new rules (`creating-new-rules.md:235`) says of `or(statusCode(301), statusCode(302))` "Either can match". Compiled for an
   expectation (`response-scoped-to-transaction-validator.ts:85-91`), every part of an `or` is run and one that throws makes the `or` throw: this very `or` fails a
   response with the status 301. No rule of the repository gives an `or` to `expectForTransactions` today.

Met while modelling, without a run of their own:

- In an expectation, an `and` stops after its first part that asserts and holds, because assertions return nothing and `every` takes that for false.
  `expectForTransactions(a, b)` is such an `and` (`single-step-test-builder.ts:211-213`), so `b` is never asked where `a` holds; `xor` is compiled as
  `and`. `AndThrows`, `LaterNeverAsked` and `OnlyMasked` say what is asked and what is hidden. Latent as well: each rule gives one filter, and no compound of several.
- `make-requests-in-hooks.mdx:154` says that `runHooks: false` "sends the generated request as-is"; a covering `authorize` hook runs all the same (`hook-runner.ts:435`).
  The guard counts it (403-414), and `NoReentry` needs that.
- A skip or fail in an `authorize` hook, or in any hook of a nested request, ends no test case: `run-requests.operator.ts:120-126` reads no
  verdict there, and `runNested` drops it (422-432). `skip-and-fail-tests.mdx:122-130` says that the test is marked as skipped.
- The second close of the reporter waits for the flush of the first; a report emitted after a formatter's flush landed is awaited by no close. `CloseAfterReports`
  speaks of the reports emitted before the first close.
- Two overlapping patterns of one rule set load a rule twice, and the workflow fails with a duplicate name. `Loaded` is a set per source: the model
  has two sources with the same rule for it.
- `core.analyze` does not close its in-memory repository if `runRules` throws (`plugin-http-analyzer/src/index.ts:216-224`).

## What is not modelled

- *Plain events* (`emit`, `on`): nobody waits for them; they reach the models as diagnostics of `ThymianRun` and as reports of `Reporter`.
- *The clocks of `shutdown`*: `Drain` may happen at any time, which covers every outcome of the drain but says nothing of how long it takes.
- *A second run on a Thymian that was closed*, and loads of a format while requests are under way.
- *The proxy's* acknowledgements, tokens and payloads, and what a remote plugin emits. Two unhandled rejections lie outside of the
  model: `start()` rejecting before `core.ready` awaits it, and a second `stop()`.
- *`validate` and `reportConvert`*, and the loading of formats and traffic: chains of calls whose answers are merged, with
  no state that outlives them. What a call promises is `ActionPromise`.
- *Hook loading*, the resolution of selectors and the overlay of request data: the models take the resolved hooks as constants.
- *The filter compilers* that select transactions of a format, of live traffic and of the analyzer's database: three translations of
  one expression language, over formats and SQL. Only the fourth, for expectations, is in `Expectation`.
- *Samplers and generators, parsers of OpenAPI and HAR, schemas, (de)serialization, the graph of a format, storage, what formatters render, flags and prompts*:
  pure data or I/O, without order or concurrency of their own. Most of the repository's lines are of this kind, the rule sets alone being a good
  part of them: rules are data to the models, which let a rule find and return anything.
- *The promise queue of the CLI*: 23 lines whose cases its unit test reaches.
- *A hook's own code around its seeds.* A hook ends with an error of its own or with what a seed of its stage threw; a seed it did not wait for and
  whose rejection nobody handles ends the process (Node's default), which is not modelled, nor is what a hook does after its end beyond the seeds it had sent.
- *The failure path of `flushAll`* (`plugin-reporter/src/index.ts:148-158`, a reply in `finally` before it rethrows): no shipped formatter's flush rejects. What the
  double answer would do to a collecting call is the finding of `emitter_collect`.

## The plan

What remains, in order:

1. **RunAndHooks**, a composition of `ThymianRun` and `RunScopedHooks`: `HttpTest` shows that a request may come after `core.close` was
   answered; which of them can still arm the latch, and what that strands.
2. The clocks of `shutdown`, so that its two limits can be compared with the timers of the calls it cuts off.
3. The agreement of the filter compilers: one expression, asked of a specification, of a live pair and of a stored one.
4. `validate` and `reportConvert`, as workflows of `Session`.
