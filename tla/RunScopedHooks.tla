--------------------------- MODULE RunScopedHooks ---------------------------
(***************************************************************************)
(* The run-scoped hooks of the sampler plugin: `beforeAll` on a first-touch*)
(* latch, `afterAll` and the cleanups `beforeAll` returned on close.       *)
(*                                                                         *)
(* The hooks of a run are one list, ordered by their sequence number (the  *)
(* index in `hooks`).  Requests arrive concurrently; the first one arms    *)
(* the latch, a memoized promise that every request awaits.  core.close    *)
(* may arrive at any time, more than once (Thymian.run can close twice),   *)
(* and while the setup is still running.                                   *)
(***************************************************************************)
EXTENDS Naturals, Sequences

CONSTANTS
  Requests,   \* the requests of a run, dispatched concurrently
  Closes,     \* the calls of close()
  HookLists,  \* the run-scoped hooks a load may bring, in sequence order
  MaxLoads    \* bound: loads of a format

ASSUME HookListsAssumption == HookLists \subseteq Seq({"beforeAll", "afterAll"})

VARIABLES
  hooks,     \* the loaded hooks
  setup,     \* startPromise: "off" (undefined), "running", "resolved", "rejected"
  at,        \* the beforeAll hooks up to this sequence number have been run
  teardown,  \* the teardown items of the current load, by sequence number
  request,   \* request[r]: "idle", "waiting" (for setup), "sent" or "refused"
  closing,   \* closing[k]: "idle", "waiting", "running", "finished", "skipped"
  items,     \* items[k]: what k spliced off the list and has not run yet
  trace,     \* history: the run-scoped callbacks of this load, in order
  loads      \* loads so far

vars == <<hooks, setup, at, teardown, request, closing, items, trace, loads>>

Sequences == DOMAIN hooks
BeforeAll == {h \in Sequences : hooks[h] = "beforeAll"}
AfterAllOf(list) == {h \in DOMAIN list : list[h] = "afterAll"}

(* A callback that ran: a beforeAll and what it left, or a teardown item.  *)
SetUp(h, left) == [hook |-> h, did |-> left]
TornDown(h) == [hook |-> h, did |-> "teardown"]
Callbacks == [hook : Sequences, did : {"cleanup", "nothing", "threw", "teardown"}]

Init ==
  /\ hooks = <<>>
  /\ setup = "off"
  /\ at = 0
  /\ teardown = {}
  /\ request = [r \in Requests |-> "idle"]
  /\ closing = [k \in Closes |-> "idle"]
  /\ items = [k \in Closes |-> {}]
  /\ trace = <<>>
  /\ loads = 0

-----------------------------------------------------------------------------
(* A wrong reload that keeps the teardown of the load before it.           *)
KeptTeardown(list) == teardown \cup AfterAllOf(list)

FreshTeardown(list) == AfterAllOf(list)

(* load: the latch is reset and the list starts over with the afterAll     *)
(* hooks.  A load while a run is under way "is not a shape the CLI         *)
(* produces" (the comment of load), so here a load finds nothing running.  *)
Load ==
  /\ loads < MaxLoads
  /\ setup # "running"
  /\ \A r \in Requests : request[r] # "waiting"
  /\ \A k \in Closes : closing[k] \notin {"waiting", "running"}
  /\ loads' = loads + 1
  /\ hooks' \in HookLists
  /\ setup' = "off"
  /\ at' = 0
  /\ teardown' = FreshTeardown(hooks')
  /\ request' = [r \in Requests |-> "idle"]
  /\ closing' = [k \in Closes |-> "idle"]
  /\ items' = [k \in Closes |-> {}]
  /\ trace' = <<>>

(* runBeforeAll has run the hooks up to h: are there any left?             *)
SetupAfter(h) == IF \E i \in BeforeAll : i > h THEN "running" ELSE "resolved"

(* start: the first request starts the setup, all others find it started.  *)
Start ==
  IF setup = "off"
  THEN setup' = SetupAfter(0) /\ at' = 0
  ELSE UNCHANGED <<setup, at>>

(* beforeEachRequest, up to its await of the setup.                        *)
BeforeRequest(r) ==
  /\ request[r] = "idle"
  /\ request' = [request EXCEPT ![r] = "waiting"]
  /\ Start
  /\ UNCHANGED <<hooks, teardown, closing, items, trace, loads>>

NextBeforeAll(h) ==
  /\ h \in BeforeAll /\ h > at
  /\ \A i \in BeforeAll : i > at => h <= i

(* A beforeAll returns, with a cleanup for the list or without.            *)
BeforeAllReturns(left) ==
  /\ setup = "running"
  /\ \E h \in Sequences :
       /\ NextBeforeAll(h)
       /\ at' = h
       /\ setup' = SetupAfter(h)
       /\ teardown' = IF left = "cleanup" THEN teardown \cup {h} ELSE teardown
       /\ trace' = Append(trace, SetUp(h, left))
  /\ UNCHANGED <<hooks, request, closing, items, loads>>

(* A beforeAll throws: the promise rejects, the hooks after it never run.  *)
BeforeAllThrows ==
  /\ setup = "running"
  /\ \E h \in Sequences :
       /\ NextBeforeAll(h)
       /\ at' = h
       /\ setup' = "rejected"
       /\ trace' = Append(trace, SetUp(h, "threw"))
  /\ UNCHANGED <<hooks, teardown, request, closing, items, loads>>

(* A wrong wait: a request that finds the setup started goes ahead.        *)
ProceedOnceStarted(r) ==
  /\ request[r] = "waiting"
  /\ request' = [request EXCEPT ![r] = "sent"]
  /\ UNCHANGED <<hooks, setup, at, teardown, closing, items, trace, loads>>

(* The awaited setup settles: the request is sent, or fails unsent.        *)
Proceed(r) ==
  /\ request[r] = "waiting"
  /\ setup \in {"resolved", "rejected"}
  /\ request' = [request EXCEPT ![r] = IF setup = "resolved" THEN "sent" ELSE "refused"]
  /\ UNCHANGED <<hooks, setup, at, teardown, closing, items, trace, loads>>

-----------------------------------------------------------------------------
(* A wrong close that is not gated by the latch.                           *)
CloseUngated(k) ==
  /\ closing[k] = "idle"
  /\ closing' = [closing EXCEPT ![k] = "waiting"]
  /\ UNCHANGED <<hooks, setup, at, teardown, request, items, trace, loads>>

(* close: nothing to do if no request ever came.                           *)
Close(k) ==
  /\ closing[k] = "idle"
  /\ closing' = [closing EXCEPT ![k] = IF setup = "off" THEN "skipped" ELSE "waiting"]
  /\ UNCHANGED <<hooks, setup, at, teardown, request, items, trace, loads>>

(* A wrong close that does not wait for the setup to settle.               *)
SpliceEarly(k) ==
  /\ closing[k] = "waiting"
  /\ closing' = [closing EXCEPT ![k] = "running"]
  /\ items' = [items EXCEPT ![k] = teardown]
  /\ teardown' = {}
  /\ UNCHANGED <<hooks, setup, at, request, trace, loads>>

(* The setup settled, well or not: the whole list is taken off.            *)
Splice(k) ==
  /\ closing[k] = "waiting"
  /\ setup # "running"
  /\ closing' = [closing EXCEPT ![k] = "running"]
  /\ items' = [items EXCEPT ![k] = teardown]
  /\ teardown' = {}
  /\ UNCHANGED <<hooks, setup, at, request, trace, loads>>

(* A wrong order: first registered, first torn down.                       *)
RunFirst(k) ==
  /\ closing[k] = "running"
  /\ \E h \in items[k] :
       /\ \A i \in items[k] : h <= i
       /\ items' = [items EXCEPT ![k] = @ \ {h}]
       /\ trace' = Append(trace, TornDown(h))
  /\ UNCHANGED <<hooks, setup, at, teardown, request, closing, loads>>

(* The items run one at a time, last registered first; one that throws is  *)
(* only a warning.                                                         *)
RunItem(k) ==
  /\ closing[k] = "running"
  /\ \E h \in items[k] :
       /\ \A i \in items[k] : i <= h
       /\ items' = [items EXCEPT ![k] = @ \ {h}]
       /\ trace' = Append(trace, TornDown(h))
  /\ UNCHANGED <<hooks, setup, at, teardown, request, closing, loads>>

Finish(k) ==
  /\ closing[k] = "running"
  /\ items[k] = {}
  /\ closing' = [closing EXCEPT ![k] = "finished"]
  /\ UNCHANGED <<hooks, setup, at, teardown, request, items, trace, loads>>

Next ==
  \/ Load
  \/ \E r \in Requests : BeforeRequest(r) \/ Proceed(r)
  \/ BeforeAllThrows \/ \E left \in {"cleanup", "nothing"} : BeforeAllReturns(left)
  \/ \E k \in Closes : Close(k) \/ Splice(k) \/ RunItem(k) \/ Finish(k)

Spec == Init /\ [][Next]_vars

-----------------------------------------------------------------------------
(* Type correctness.                                                       *)
TypeOK ==
  /\ hooks \in HookLists \cup {<<>>}
  /\ setup \in {"off", "running", "resolved", "rejected"}
  /\ at \in Sequences \cup {0}
  /\ teardown \subseteq Sequences
  /\ request \in [Requests -> {"idle", "waiting", "sent", "refused"}]
  /\ closing \in [Closes -> {"idle", "waiting", "running", "finished", "skipped"}]
  /\ items \in [Closes -> SUBSET Sequences]
  /\ trace \in Seq(Callbacks)
  /\ loads \in Nat

ReturnedFrom(h) ==
  \E i \in DOMAIN trace : trace[i] \in {SetUp(h, "cleanup"), SetUp(h, "nothing")}

RanTeardown(h) == \E i \in DOMAIN trace : trace[i] = TornDown(h)

(* However many requests race, none is sent before every beforeAll has     *)
(* returned, and none at all if one of them threw.                         *)
NoRequestBeforeSetup ==
  \A r \in Requests : request[r] = "sent" => \A h \in BeforeAll : ReturnedFrom(h)

(* The callbacks of a run unwind: setup in registration order, teardown in *)
(* the reverse order, nothing set up once teardown began, and nothing      *)
(* called twice, however many requests and closes there are.               *)
Unwinds ==
  \A i, j \in DOMAIN trace : i < j =>
    IF trace[i].did = "teardown"
    THEN trace[j].did = "teardown" /\ trace[j].hook < trace[i].hook
    ELSE trace[j].did = "teardown" \/ trace[i].hook < trace[j].hook

(* What a finished close owes to a hook: an afterAll runs, and so does the *)
(* cleanup a beforeAll returned, even if a later beforeAll threw.          *)
Owed(h) ==
  \/ hooks[h] = "afterAll"
  \/ \E i \in DOMAIN trace : trace[i] = SetUp(h, "cleanup")

(* Once a close has finished nothing owed is stranded: it has run, or a    *)
(* close that is still running has it.                                     *)
NothingStranded ==
  (\E k \in Closes : closing[k] = "finished") =>
    \A h \in Sequences : Owed(h) => RanTeardown(h) \/ \E k \in Closes : h \in items[k]

(* Nobody's teardown runs unless a request came first.                     *)
TeardownIsLatched ==
  (\E h \in Sequences : RanTeardown(h)) => \E r \in Requests : request[r] # "idle"
=============================================================================
