------------------------------ MODULE HttpTest ------------------------------
(***************************************************************************)
(* A run of test cases through the pipeline of core/http-testing           *)
(* (generateRequests, runRequests, expectForTransactions, replayStep), the *)
(* sampler's hooks around every request, and the queue of the request      *)
(* dispatcher all of them share.                                           *)
(*                                                                         *)
(* Two callers drive it.  A rule (mode "rule") gives all its cases to one  *)
(* httpTest: rxjs runs them at once, and one error ends them all.          *)
(* `sampler check` (mode "check") makes an httpTest of every transaction,  *)
(* one after the other, and turns an error into an outcome.                *)
(*                                                                         *)
(* Besides the request of each case there are the seeds its hooks send,    *)
(* several of a hook at once if it does not wait for them one by one, and  *)
(* seeds of seeds.  A case whose hook outlived the timer of the action     *)
(* goes on in the sampler with nobody listening: its status is "broken"    *)
(* and its request is still at its hooks.                                  *)
(***************************************************************************)
EXTENDS HookRunner

CONSTANTS
  Cases,        \* the test cases
  Own,          \* Own[c]: the transaction the case is about
  Flag,         \* Flag[c]: the authorize flag its template is sampled with
  Steps,        \* the number of steps of a case of a rule
  Concurrency,  \* how many requests the dispatcher has in flight at once
  SeedIds,      \* bound: the seeds that may be under way at once
  Served,       \* the answers the server may give
  MaxAbandoned, \* bound: no seed is abandoned while so many requests are
  Modes,        \* the callers of this instance
  NoRequest,    \* nothing is under way
  Nobody        \* in the place of a caller that has given up

ASSUME HttpTestAssumption ==
  /\ IsFiniteSet(Cases)
  /\ IsFiniteSet(SeedIds)
  /\ Cases \cap SeedIds = {}
  /\ Own \in [Cases -> Transactions]
  /\ Flag \in [Cases -> BOOLEAN]
  /\ Steps \in Nat \ {0}
  /\ Concurrency \in Nat \ {0}
  /\ Served \subseteq Answers
  /\ MaxAbandoned \in Nat
  /\ Modes \subseteq {"rule", "check"}
  /\ Nobody \notin Cases \cup SeedIds
  /\ NoRequest \notin Frame

VARIABLES
  mode,      \* who drives the cases
  test,      \* the promise of httpTest, or the loop of `sampler check`
  status,    \* status[c]: HttpTestCase.status
  kept,      \* kept[c]: current.results names a seed answered off-selector
  step,      \* step[c]: steps begun
  request,   \* request[r]: the frame of a case's own request, or of a seed
  caller,    \* caller[s]: whose testResults the answer of the seed s goes to
  queue,     \* the requests waiting in the PQueue
  inflight,  \* the requests in flight
  orphans,   \* requests in flight whose caller has given up
  closing,   \* core.close at the dispatcher
  owed       \* requests waiting for an answer since before core.close

caseVars == <<status, kept, step>>
requestVars == <<request, caller>>
queueVars == <<queue, inflight, orphans>>
closeVars == <<closing, owed>>
vars == <<mode, test, caseVars, requestVars, queueVars, closeVars>>

Settled == {"skipped", "failed", "passed", "broken"}
Statuses == {"idle", "running"} \cup Settled
Closings == {"open", "asked", "replied"}

-----------------------------------------------------------------------------
Requests == Cases \cup SeedIds

Live(r) == request[r] # NoRequest

(* The pipeline no longer waits for what the hooks of this case do.        *)
IsZombie(r) == r \in Cases /\ status[r] = "broken"

(* The request r goes on as f, in the same stage.                          *)
SetRequest(r, f) == request' = [request EXCEPT ![r] = f] /\ UNCHANGED caller

(* compose has returned: what its seeds still record goes nowhere.         *)
EnterStage(r, f, stage) ==
  /\ request' = [request EXCEPT ![r] = Enter(f, stage)]
  /\ caller' = [s \in SeedIds |-> IF caller[s] = r THEN Nobody ELSE caller[s]]

(* The request is over, with an answer or an error; seeds of it go on.     *)
DropRequest(r) ==
  /\ request' = [request EXCEPT ![r] = NoRequest]
  /\ caller' = [s \in SeedIds |->
                  IF s = r \/ caller[s] = r THEN Nobody ELSE caller[s]]

OwnFrame(c, flag) ==
  NewFrame([target |-> Own[c], runHooks |-> TRUE, flag |-> flag], <<>>)

-----------------------------------------------------------------------------
(* A wrong count of the cases that are over: the broken ones are not.      *)
BrokenAreMissing(c) ==
  \A d \in Cases \ {c} : status[d] \in {"skipped", "failed", "passed"}

(* The observable completes when every case has been delivered.            *)
LastOf(c) == \A d \in Cases \ {c} : status[d] \in Settled

Completed(c) ==
  test' = IF test = "running" /\ LastOf(c) THEN "resolved" ELSE test

(* ctx.skip, ctx.fail, or the next handler of httpTest.                    *)
EndCase(c, s) == status' = [status EXCEPT ![c] = s] /\ Completed(c)

(* A wrong catch: `sampler check` lets the error of one test end the loop. *)
ErrorEndsAll(c) ==
  test' = IF test = "running" THEN "rejected" ELSE test

(* An error leaves the pipeline: httpTest rejects, and mergeMap listens to *)
(* no other case.  `sampler check` catches it and takes the next one.      *)
ErrorLeaves(c) ==
  IF mode = "rule"
  THEN test' = IF test = "running" THEN "rejected" ELSE test
  ELSE Completed(c)

BreakCase(c) ==
  /\ status' = [status EXCEPT ![c] = "broken"]
  /\ ErrorLeaves(c)

-----------------------------------------------------------------------------
(* The dispatcher.  A slot that is free takes the head of the queue at     *)
(* once, so the queue is empty whenever a slot is free.                    *)
Load == Cardinality(inflight) + orphans

Enqueue(r) ==
  /\ IF Load < Concurrency
     THEN inflight' = inflight \cup {r} /\ UNCHANGED queue
     ELSE queue' = Append(queue, r) /\ UNCHANGED inflight
  /\ UNCHANGED orphans

(* A wrong end of a request: the slot is given back to nobody.             *)
SlotStaysFree(flying, n) ==
  inflight' = flying /\ orphans' = n /\ UNCHANGED queue

(* The slots hold `flying` and n orphans, and one has become free.         *)
StartNext(flying, n) ==
  IF queue = <<>>
  THEN inflight' = flying /\ orphans' = n /\ UNCHANGED queue
  ELSE /\ queue' = Tail(queue)
       /\ IF Head(queue) = Nobody
          THEN inflight' = flying /\ orphans' = n + 1
          ELSE inflight' = flying \cup {Head(queue)} /\ orphans' = n

Abandoned == orphans + Cardinality({i \in DOMAIN queue : queue[i] = Nobody})

(* A wrong timeout: the request still belongs to the caller that gave up.  *)
StaysWithCaller(r) == UNCHANGED queueVars

(* The caller stops waiting; the request keeps its place.                  *)
Abandon(r) ==
  IF r \in inflight
  THEN inflight' = inflight \ {r} /\ orphans' = orphans + 1 /\ UNCHANGED queue
  ELSE /\ queue' = [i \in DOMAIN queue |->
                      IF queue[i] = r THEN Nobody ELSE queue[i]]
       /\ UNCHANGED <<inflight, orphans>>

Waiting == inflight \cup {r \in Requests : \E i \in DOMAIN queue : queue[i] = r}

-----------------------------------------------------------------------------
Init ==
  /\ mode \in Modes
  /\ test = IF Cases = {} THEN "resolved" ELSE "running"
  /\ status = [c \in Cases |-> "idle"]
  /\ kept = [c \in Cases |-> FALSE]
  /\ step = [c \in Cases |-> 0]
  /\ request = [r \in Requests |-> NoRequest]
  /\ caller = [s \in SeedIds |-> Nobody]
  /\ queue = <<>>
  /\ inflight = {}
  /\ orphans = 0
  /\ closing = "open"
  /\ owed = {}

(* generateRequests: a rule samples all its cases at once, `sampler check` *)
(* the next one when the one before has earned its outcome.                *)
MayStart(c) ==
  /\ test = "running"
  /\ status[c] = "idle"
  /\ mode = "check" => \A d \in Cases : status[d] # "running"

StartCase(c) ==
  /\ MayStart(c)
  /\ status' = [status EXCEPT ![c] = "running"]
  /\ step' = [step EXCEPT ![c] = 1]
  /\ SetRequest(c, OwnFrame(c, Flag[c]))
  /\ UNCHANGED <<mode, test, kept, queueVars, closeVars>>

(* A defineSample hook throws at severity warn, and breaks the one case.   *)
SampleFails(c) ==
  /\ MayStart(c)
  /\ BreakCase(c)
  /\ UNCHANGED <<mode, kept, step, requestVars, queueVars, closeVars>>

(* Any other error of the sampler has severity error: Thymian.run closes,  *)
(* and the loop of `sampler check` sees it and stops.                      *)
RunEnds(c) ==
  /\ MayStart(c)
  /\ mode = "check"
  /\ status' = [status EXCEPT ![c] = "broken"]
  /\ test' = "ended"
  /\ UNCHANGED <<mode, kept, step, requestVars, queueVars, closeVars>>

-----------------------------------------------------------------------------
(* The hooks of the request r, of a case or a seed.                        *)
AtHooks(r) == Live(r) /\ request[r].stage \in Kinds

Unused == {s \in SeedIds : ~Live(s)}

NextSeed == CHOOSE s \in Unused : TRUE

(* utils.request: one more seed, whatever else the hook has under way.  A  *)
(* seed that is refused, whose selector resolves to nothing or for which   *)
(* no request can be sampled only throws, and a hook may throw anyway.     *)
HookSeeds(r) ==
  /\ AtHooks(r)
  /\ Unused # {}
  /\ \E seed \in Seeds[request[r].target][request[r].stage] :
       /\ ~Refused(HookChain(request[r]), seed)
       /\ request' = [request EXCEPT
            ![NextSeed] = NewFrame(seed, HookChain(request[r]))]
  /\ caller' = [caller EXCEPT ![NextSeed] = r]
  /\ UNCHANGED <<mode, test, caseVars, queueVars, closeVars>>

(* A wrong reading: also the verdict of a hook nobody waits for any more.  *)
LateVerdictCounts(r) ==
  r \in Cases /\ request[r].stage \in {"beforeEach", "afterEach"}

(* runRequests reads the verdict of beforeEach and afterEach, and pushes   *)
(* the results of the hooks before it; of the authorize hook it reads only *)
(* the value, and runNested reads no verdict at all.                       *)
VerdictCounts(r) ==
  /\ r \in Cases /\ ~IsZombie(r)
  /\ request[r].stage \in {"beforeEach", "afterEach"}

(* compose has returned: its results go to the case (those of authorize go *)
(* nowhere, those of a seed to the log), and the next stage begins.        *)
KeepResults(r) ==
  kept' = [c \in Cases |->
    kept[c] \/ (c = r /\ VerdictCounts(r) /\ request[r].recorded # {})]

ComposeReturns(r, flag) ==
  LET f == [request[r] EXCEPT !.flag = flag]
  IN  IF IsZombie(r) THEN DropRequest(r) ELSE EnterStage(r, f, NextStage(f))

(* The next hook of the kind runs, or there is none.                       *)
HookReturns(r) ==
  /\ AtHooks(r)
  /\ \E flag \in FlagsLeft(request[r]) :
       IF request[r].left > 1
       THEN /\ SetRequest(r, [request[r] EXCEPT !.left = @ - 1, !.flag = flag])
            /\ UNCHANGED kept
       ELSE ComposeReturns(r, flag) /\ KeepResults(r)
  /\ UNCHANGED <<mode, test, status, step, queueVars, closeVars>>

(* A hook that ends with skip, fail or an undeclared answer: the hooks     *)
(* behind it do not run.                                                   *)
HookGivesVerdict(r, e) ==
  /\ VerdictCounts(r)
  /\ kept' = [kept EXCEPT ![r] = @ \/ request[r].recorded # {}]
  /\ EndCase(r, Verdict(e))
  /\ DropRequest(r)

(* A wrong runNested: a hook of a seed skips the case that sent the seed.  *)
VerdictReachesCaller(r, flag) ==
  /\ ~VerdictCounts(r)
  /\ ComposeReturns(r, flag)
  /\ UNCHANGED kept
  /\ IF r \in SeedIds /\ caller[r] \in Cases /\ ~IsZombie(caller[r])
     THEN EndCase(caller[r], "skipped")
     ELSE UNCHANGED <<test, status>>

HookVerdictDropped(r, flag) ==
  /\ ~VerdictCounts(r)
  /\ ComposeReturns(r, flag)
  /\ UNCHANGED <<test, status, kept>>

(* A defect is thrown on: out of the seed, which is over, or out of the    *)
(* action, where only a case that still waits for it can break.            *)
HookIsDefect(r) ==
  /\ DropRequest(r)
  /\ IF r \in Cases /\ ~IsZombie(r)
     THEN BreakCase(r)
     ELSE UNCHANGED <<test, status>>
  /\ UNCHANGED kept

HookThrows(r) ==
  /\ AtHooks(r)
  /\ \E e \in Errors(request[r]), flag \in FlagsLeft(request[r]) :
       IF Verdict(e) = "none"
       THEN HookIsDefect(r)
       ELSE HookGivesVerdict(r, e) \/ HookVerdictDropped(r, flag)
  /\ UNCHANGED <<mode, step, queueVars, closeVars>>

(* The timer of the action the case waits for.                             *)
HookTimesOut(c) ==
  /\ status[c] = "running"
  /\ AtHooks(c)
  /\ BreakCase(c)
  /\ UNCHANGED <<mode, kept, step, requestVars, queueVars, closeVars>>
-----------------------------------------------------------------------------
(* serializeRequest, then the action core.request.dispatch.                *)
AtSend(r) == Live(r) /\ request[r].stage = "send"

Send(r) ==
  /\ AtSend(r)
  /\ SetRequest(r, [request[r] EXCEPT !.stage = "sent"])
  /\ Enqueue(r)
  /\ UNCHANGED <<mode, test, caseVars, closeVars>>

(* A path parameter without a value: the case itself is skipped, any other *)
(* error breaks it; a seed throws into the hook that sent it.              *)
SerializeFails(r) ==
  /\ AtSend(r)
  /\ DropRequest(r)
  /\ IF r \in Cases
     THEN EndCase(r, "skipped") \/ BreakCase(r)
     ELSE UNCHANGED <<test, status>>
  /\ UNCHANGED <<mode, kept, step, queueVars, closeVars>>

(* The caller no longer waits at the dispatcher.                           *)
NotOwed(r) == owed' = owed \ {r} /\ UNCHANGED closing

Answer(r) ==
  /\ r \in inflight
  /\ \E answer \in Served :
       LET f == [request[r] EXCEPT !.answer = answer]
       IN  EnterStage(r, f, AfterAnswer(f))
  /\ StartNext(inflight \ {r}, orphans)
  /\ NotOwed(r)
  /\ UNCHANGED <<mode, test, caseVars>>

(* The action rejects; nothing between it and the pipeline catches that.   *)
DispatchFails(r) ==
  /\ NotOwed(r)
  /\ DropRequest(r)
  /\ IF r \in Cases THEN BreakCase(r) ELSE UNCHANGED <<test, status>>
  /\ UNCHANGED <<mode, kept, step>>

(* The connection is refused, or the dispatch fails.                       *)
Refuse(r) ==
  /\ r \in inflight
  /\ StartNext(inflight \ {r}, orphans)
  /\ DispatchFails(r)

(* A wrong timer, that starts when the request leaves the queue.           *)
TimesOutInFlight(r) ==
  /\ r \in inflight
  /\ r \in SeedIds => Abandoned < MaxAbandoned
  /\ Abandon(r)
  /\ DispatchFails(r)

(* The timer of the action runs from the moment it is asked for, so it     *)
(* also ends requests that have not left the queue.                        *)
DispatchTimesOut(r) ==
  /\ r \in Waiting
  /\ r \in SeedIds => Abandoned < MaxAbandoned
  /\ Abandon(r)
  /\ DispatchFails(r)

(* A wrong end of an abandoned request, counted once too often.            *)
OrphanAnsweredTwice ==
  /\ orphans > 0
  /\ StartNext(inflight, orphans - 2)
  /\ UNCHANGED <<mode, test, caseVars, requestVars, closeVars>>

OrphanAnswered ==
  /\ orphans > 0
  /\ StartNext(inflight, orphans - 1)
  /\ UNCHANGED <<mode, test, caseVars, requestVars, closeVars>>

(* runNested, when the answer has come and afterEach is done: it records   *)
(* the answer and returns, or its body cannot be read and it throws.       *)
SeedReturns(s) ==
  /\ Live(s)
  /\ request[s].stage = "answered"
  /\ \E recorded \in BOOLEAN :
       request' = [r \in Requests |->
         IF r = s THEN NoRequest
         ELSE IF recorded /\ r = caller[s]
              THEN SeedAnswered(request[r], request[s].answer)
              ELSE request[r]]
  /\ caller' = [caller EXCEPT ![s] = Nobody]
  /\ UNCHANGED <<mode, test, caseVars, queueVars, closeVars>>

-----------------------------------------------------------------------------
(* runRequests compares the status, and what follows it in the pipeline    *)
(* runs only while httpTest listens: expectForTransactions and skipIf,     *)
(* then the next step, a replay of the template this one has left.         *)
AtCheck(c) == Live(c) /\ request[c].stage = "answered"

StatusDiffers(c) ==
  /\ request[c].answer # "named"
  /\ EndCase(c, "skipped")
  /\ DropRequest(c)
  /\ UNCHANGED step

NobodyListens(c) ==
  /\ request[c].answer = "named"
  /\ test # "running"
  /\ DropRequest(c)
  /\ UNCHANGED <<test, status, step>>

ExpectationDecides(c) ==
  /\ request[c].answer = "named"
  /\ test = "running"
  /\ mode = "rule"
  /\ \/ \E s \in {"failed", "skipped"} : EndCase(c, s)
     \/ BreakCase(c)
  /\ DropRequest(c)
  /\ UNCHANGED step

Replay(c) ==
  /\ request[c].answer = "named"
  /\ test = "running"
  /\ mode = "rule"
  /\ step[c] < Steps
  /\ step' = [step EXCEPT ![c] = @ + 1]
  /\ SetRequest(c, OwnFrame(c, request[c].flag))
  /\ UNCHANGED <<test, status>>

Passes(c) ==
  /\ request[c].answer = "named"
  /\ test = "running"
  /\ mode = "rule" => step[c] = Steps
  /\ EndCase(c, "passed")
  /\ DropRequest(c)
  /\ UNCHANGED step

Check(c) ==
  /\ AtCheck(c)
  /\ \/ StatusDiffers(c) \/ NobodyListens(c) \/ ExpectationDecides(c)
     \/ Replay(c) \/ Passes(c)
  /\ UNCHANGED <<mode, kept, queueVars, closeVars>>

-----------------------------------------------------------------------------
(* core.close at the dispatcher: queue.onIdle, and the reply after it.     *)
AskClose ==
  /\ closing = "open"
  /\ closing' = "asked"
  /\ owed' = Waiting
  /\ UNCHANGED <<mode, test, caseVars, requestVars, queueVars>>

(* A wrong wait, on the event `empty`: a request may still be in flight.   *)
QueueIsEmpty == queue = <<>>

IsIdle == queue = <<>> /\ Load = 0

RepliesToClose ==
  /\ closing = "asked"
  /\ IsIdle
  /\ closing' = "replied"
  /\ UNCHANGED <<mode, test, caseVars, requestVars, queueVars, owed>>

-----------------------------------------------------------------------------
HookSteps(r) ==
  HookReturns(r) \/ HookSeeds(r) \/ HookThrows(r)

PipelineSteps(r) == Send(r) \/ SerializeFails(r)

CaseSteps(c) ==
  StartCase(c) \/ SampleFails(c) \/ RunEnds(c) \/ Check(c)

Timers(c) == HookTimesOut(c) \/ DispatchTimesOut(c)

Dispatcher == \/ \E r \in Requests : Answer(r) \/ Refuse(r)
              \/ OrphanAnswered

Closing == AskClose \/ RepliesToClose

Next == \/ \E r \in Requests : HookSteps(r) \/ PipelineSteps(r)
        \/ \E c \in Cases : CaseSteps(c) \/ Timers(c)
        \/ \E s \in SeedIds : SeedReturns(s) \/ DispatchTimesOut(s)
        \/ Dispatcher
        \/ Closing

(* A promise that is settled has its continuation run, and a timer that is *)
(* armed fires.  Nothing is assumed of the user's hooks, of the seeds they *)
(* send or of the server.                                                  *)
Fairness ==
  \A c \in Cases : WF_vars(PipelineSteps(c) \/ CaseSteps(c) \/ Timers(c))

Spec == Init /\ [][Next]_vars /\ Fairness

-----------------------------------------------------------------------------
TypeOK ==
  /\ mode \in {"rule", "check"}
  /\ test \in {"running", "resolved", "rejected", "ended"}
  /\ status \in [Cases -> Statuses]
  /\ kept \in [Cases -> BOOLEAN]
  /\ step \in [Cases -> 0..Steps]
  /\ request \in [Requests -> Frame \cup {NoRequest}]
  /\ caller \in [SeedIds -> Requests \cup {Nobody}]
  /\ queue \in Seq(Requests \cup {Nobody})
  /\ inflight \subseteq Requests
  /\ orphans \in Nat
  /\ closing \in Closings
  /\ owed \subseteq Requests

(* A hook runs only in a chain that names no transaction twice, its own    *)
(* included: this is what ends every chain of seeds, however the hooks     *)
(* seed each other (isOnChain, and the guard of runNested that asks for    *)
(* the authorize hook too).                                                *)
NoReentry ==
  \A r \in Requests : AtHooks(r) =>
    LET chain == HookChain(request[r])
    IN  \A i, j \in DOMAIN chain : chain[i] = chain[j] => i = j

(* What goes on whatever hooks and server do: a case that may start, one   *)
(* whose request is to be sent or whose answer is to be compared, and one  *)
(* with an armed timer, of its own hooks or of a dispatch.                 *)
GoesOn(c) ==
  \/ MayStart(c)
  \/ /\ status[c] = "running" /\ Live(c)
     /\ AtHooks(c) \/ AtSend(c) \/ AtCheck(c) \/ c \in Waiting

(* Nobody waits for what nobody owes: while a test is pending some case is *)
(* undecided, and each of these can go on without a hook that returns or a *)
(* server that answers, or waits for the one case `sampler check` runs.    *)
NobodyIsStuck ==
  test = "running" =>
    /\ \E c \in Cases : status[c] \notin Settled
    /\ \A c \in Cases : status[c] \notin Settled =>
         GoesOn(c) \/ (mode = "check" /\ \E d \in Cases : status[d] = "running" /\ GoesOn(d))

(* So a chain of seeds is never longer than there are transactions.        *)
ChainsBounded ==
  \A r \in Requests :
    Live(r) => Len(request[r].chain) <= Cardinality(Transactions)

(* The dispatcher never has more requests in flight than its option says,  *)
(* and none waits while a slot is free, whoever has given up in between.   *)
SlotsAreUsed ==
  /\ Load <= Concurrency
  /\ queue # <<>> => Load = Concurrency

AtDispatcher(r) == Live(r) /\ request[r].stage = "sent"

(* Every request at the dispatcher, of a case or one of the several seeds  *)
(* of a hook, is waited for by the one pipeline that sent it, once; an     *)
(* abandoned one no longer belongs to any.                                 *)
OneRequestEach ==
  /\ \A r \in Requests : AtDispatcher(r) <=> r \in Waiting
  /\ \A i, j \in DOMAIN queue :
       queue[i] = queue[j] /\ queue[i] # Nobody => i = j
  /\ \A i \in DOMAIN queue : queue[i] \notin inflight

(* A case is decided by its own request alone: by a beforeEach or an       *)
(* afterEach hook of it that is running, when it cannot be serialized, or  *)
(* at the check of its answer.  What the hooks of its seeds decide stays   *)
(* with the seeds, and what its own authorize hook decides is dropped.     *)
(* Whatever the verdict of a hook, the results that name an off-spec seed  *)
(* are kept: `sampler check` reports them as causedBy.                     *)
OwnRequestDecides ==
  [][\A c \in Cases :
       status[c] = "running" /\ status'[c] \in Settled \ {"broken"} =>
         /\ \A s \in SeedIds : request'[s] = request[s]
         /\ AtHooks(c) => /\ request[c].stage # "authorize"
                          /\ request[c].recorded # {} => kept'[c]
         /\ AtHooks(c) \/ AtSend(c) \/ AtCheck(c)]_vars

(* Whoever was waiting at the dispatcher when the run began to close has   *)
(* been answered, or has given up, before the dispatcher replies.          *)
CloseSettlesOwed == closing = "replied" => owed = {}

(* `sampler check` gives every transaction an outcome, whatever happens to *)
(* one of them, unless the run itself ends; an httpTest that resolves has  *)
(* no case under way.                                                      *)
AllAreAccountedFor ==
  /\ mode = "check" => test # "rejected"
  /\ test = "resolved" => \A c \in Cases : status[c] \in Settled
  /\ mode = "rule" /\ test = "resolved" => \A c \in Cases : ~Live(c)

(* A problem with one transaction is an outcome of that transaction and    *)
(* never of the run (ADR-0024): of an httpTest as a rule calls it too.     *)
EveryCaseEarnsAnOutcome ==
  test # "running" => \A c \in Cases : status[c] \in Settled

(* The verdict of a hook that outlived the timer of its action changes     *)
(* nothing of a case that has its outcome.                                 *)
OutcomesAreFinal ==
  [][\A c \in Cases : status[c] \in Settled => status'[c] = status[c]]_vars

(* What the caller of a test counts on: each case earns one outcome, the   *)
(* promise settles once, with the last of them or the first that breaks.   *)
OutcomeOf(c) == IF status[c] \in Settled THEN status[c] ELSE "none"

TP == INSTANCE TestPromise WITH
  Outcomes <- Settled, NoOutcome <- "none", caller <- mode,
  promise <- IF test = "running" THEN "pending" ELSE test,
  active <- {c \in Cases : status[c] = "running"},
  outcome <- [c \in Cases |-> OutcomeOf(c)]

ImplementsTestPromise == TP!TestSpec

(* Timers alone are enough: whatever the hooks and the server do, and if   *)
(* they do nothing, the test ends.                                         *)
TestEnds == <>(test # "running")
=============================================================================
