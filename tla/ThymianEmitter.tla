--------------------------- MODULE ThymianEmitter ---------------------------
(***************************************************************************)
(* The action half of Thymian's event bus: ThymianEmitter.onAction,        *)
(* emitAction, the ActionContext given to a handler, and completeSubjects. *)
(*                                                                         *)
(* Three RxJS subjects (events, responses, errors) are shared by every     *)
(* child emitter.  emitAction counts the listeners of its action, opens a  *)
(* collector on the responses and errors that carry its correlation id,    *)
(* publishes the event one microtask later, and settles when the collector *)
(* closes: it took its quota of answers, its timer fired, or the subjects  *)
(* completed.  Handlers run concurrently, and a handler's context stays    *)
(* usable after it answered, returned or threw: nothing in the code limits *)
(* a handler to one answer.                                                *)
(***************************************************************************)
EXTENDS Naturals, Sequences, FiniteSets

CONSTANTS
  Calls,       \* emitAction calls; the call is also its event id
  Listeners,   \* onAction registrations
  Names,       \* action names
  CoreNames,   \* the names that start with "core."
  ListensTo,   \* the action each registration is for
  Requests,    \* what the calls may ask for: name, strategy, strict
  MaxAnswers   \* bound: answers published for one call

Strategies == {"first", "collect", "deep-merge"}

ASSUME NamesAssumption ==
  /\ CoreNames \subseteq Names
  /\ ListensTo \in [Listeners -> Names]
  /\ Requests \subseteq [name : Names, strategy : Strategies, strict : BOOLEAN]

ASSUME BoundsAssumption ==
  /\ IsFiniteSet(Listeners)
  /\ MaxAnswers \in Nat

VARIABLES
  request,     \* request[c]: the arguments of call c (fixed when it is made)
  registered,  \* the registrations subscribed to the events subject
  listeners,   \* listeners[n]: the shared Map of listener counts
  event,       \* event[c]: c's event "none", "pending" (microtask) or "sent"
  expected,    \* expected[c]: numOfListeners, read when c was made
  collector,   \* collector[c]: open, or what closed it
  results,     \* results[c]: what c's collector holds
  handler,     \* handler[c][l]: l's handler for c "idle", "running", "done"
  given,       \* given[c]: every answer published with c's correlation id
  completed    \* have the three subjects completed?

callVars == <<event, expected>>
vars == <<request, registered, listeners, event, expected, collector, results,
          handler, given, completed>>

Answers == [by : Listeners, kind : {"reply", "error"}]

Collectors == {"none", "open", "unhandled", "taken", "expired", "completed"}

Init ==
  /\ request \in [Calls -> Requests]
  /\ registered = {}
  /\ listeners = [n \in Names |-> 0]
  /\ event = [c \in Calls |-> "none"]
  /\ expected = [c \in Calls |-> 0]
  /\ collector = [c \in Calls |-> "none"]
  /\ results = [c \in Calls |-> <<>>]
  /\ handler = [c \in Calls |-> [l \in Listeners |-> "idle"]]
  /\ given = [c \in Calls |-> <<>>]
  /\ completed = FALSE

-----------------------------------------------------------------------------
(* A wrong onAction that counts the listener and forgets to subscribe it.  *)
RegisterUnsubscribed(l) ==
  /\ l \notin registered
  /\ listeners' = [listeners EXCEPT ![ListensTo[l]] = @ + 1]
  /\ UNCHANGED <<request, registered, callVars, collector, results, handler, given,
                 completed>>

(* A wrong onAction that lowers the count.                                 *)
RegisterDown(l) ==
  /\ l \notin registered
  /\ registered' = registered \cup {l}
  /\ listeners' = [listeners EXCEPT ![ListensTo[l]] = @ - 1]
  /\ UNCHANGED <<request, callVars, collector, results, handler, given, completed>>

(* onAction: the count is raised and the handler subscribed.  A            *)
(* subscription to completed subjects is dead but is counted all the same. *)
Register(l) ==
  /\ l \notin registered
  /\ registered' = registered \cup {l}
  /\ listeners' = [listeners EXCEPT ![ListensTo[l]] = @ + 1]
  /\ UNCHANGED <<request, callVars, collector, results, handler, given, completed>>

(* A wrong quota: every strategy stops at the first answer.                *)
TakeOne(strategy, numOfListeners) == IF numOfListeners = 0 THEN 0 ELSE 1

(* The collector's quota: `take(takeNum)`.                                 *)
TakeNum(strategy, numOfListeners) ==
  IF strategy = "first" THEN 1 ELSE numOfListeners

HasListener(n) == listeners[n] > 0

(* emitAction without a listener, outside "core.": it returns undefined    *)
(* (in strict mode after an uncorrelated NoHandlerRegisteredError event).  *)
CallUnhandled(c) ==
  /\ collector[c] = "none"
  /\ ~HasListener(request[c].name)
  /\ request[c].name \notin CoreNames
  /\ collector' = [collector EXCEPT ![c] = "unhandled"]
  /\ UNCHANGED <<request, registered, listeners, callVars, results, handler, given,
                 completed>>

(* A wrong subscription that does not notice completed subjects.           *)
OpenedOnDeadBus(quota) == IF quota = 0 THEN "taken" ELSE "open"

(* What a collector is as soon as it is subscribed: a quota of nothing is  *)
(* filled, completed subjects complete it.                                 *)
OpenedCollector(quota) ==
  CASE quota = 0 -> "taken"
    [] quota # 0 /\ completed -> "completed"
    [] OTHER -> "open"

(* emitAction up to its first await: count the listeners, subscribe.       *)
CallAction(c) ==
  /\ collector[c] = "none"
  /\ HasListener(request[c].name) \/ request[c].name \in CoreNames
  /\ expected' = [expected EXCEPT ![c] = listeners[request[c].name]]
  /\ event' = [event EXCEPT ![c] = "pending"]
  /\ collector' = [collector EXCEPT ![c] =
       OpenedCollector(TakeNum(request[c].strategy, listeners[request[c].name]))]
  /\ UNCHANGED <<request, registered, listeners, results, handler, given, completed>>

(* The microtask after it: every handler subscribed by now is invoked.     *)
SendEvent(c) ==
  /\ event[c] = "pending"
  /\ event' = [event EXCEPT ![c] = "sent"]
  /\ handler' = [handler EXCEPT ![c] = [l \in Listeners |->
       IF ~completed /\ l \in registered /\ ListensTo[l] = request[c].name
       THEN "running" ELSE "idle"]]
  /\ UNCHANGED <<request, registered, listeners, expected, collector, results, given,
                 completed>>

-----------------------------------------------------------------------------
(* A wrong filter: the correlation id is not compared.                     *)
IsResponseByName(c, m) == request[c].name = m.name

(* isResponseOf: the name and the correlation id both match.               *)
IsResponseOf(c, m) == request[c].name = m.name /\ c = m.correlationId

(* A wrong collector that still takes answers after it closed.             *)
ReceivesLate(c, m) == collector[c] # "none" /\ ~completed /\ IsResponseOf(c, m)

Receives(c, m) == collector[c] = "open" /\ ~completed /\ IsResponseOf(c, m)

(* responses.next / errors.next: each open collector the message matches   *)
(* takes it, and closes when its quota is full.                            *)
Publish(m) ==
  LET answer == [by |-> m.by, kind |-> m.kind] IN
  /\ results' = [c \in Calls |->
       IF Receives(c, m) THEN Append(results[c], answer) ELSE results[c]]
  /\ collector' = [c \in Calls |->
       IF Receives(c, m) /\ Len(results[c]) + 1 = TakeNum(request[c].strategy, expected[c])
       THEN "taken" ELSE collector[c]]
  /\ given' = [given EXCEPT ![m.correlationId] = Append(@, answer)]

(* A handler of listener l for call c publishes an answer of some kind.    *)
Answer(c, l, kind) ==
  /\ Len(given[c]) < MaxAnswers
  /\ Publish([name |-> ListensTo[l], correlationId |-> c, by |-> l, kind |-> kind])
  /\ UNCHANGED <<request, registered, listeners, callVars, completed>>

(* ctx.reply and ctx.error: the context has no memory of earlier answers.  *)
Reply(c, l) ==
  /\ handler[c][l] # "idle"
  /\ Answer(c, l, "reply")
  /\ UNCHANGED handler

ReplyError(c, l) ==
  /\ handler[c][l] # "idle"
  /\ Answer(c, l, "error")
  /\ UNCHANGED handler

(* The handler's promise settles: a rejection is published as an error.    *)
HandlerThrows(c, l) ==
  /\ handler[c][l] = "running"
  /\ handler' = [handler EXCEPT ![c][l] = "done"]
  /\ Answer(c, l, "error")

HandlerReturns(c, l) ==
  /\ handler[c][l] = "running"
  /\ handler' = [handler EXCEPT ![c][l] = "done"]
  /\ UNCHANGED <<request, registered, listeners, callVars, collector, results, given,
                 completed>>

(* A wrong window that waits for a first answer before it can close.       *)
ExpireOnceAnswered(c) ==
  /\ collector[c] = "open"
  /\ event[c] = "sent"
  /\ results[c] # <<>>
  /\ collector' = [collector EXCEPT ![c] = "expired"]
  /\ UNCHANGED <<request, registered, listeners, callVars, results, handler, given,
                 completed>>

(* takeUntil(timer): the window closes on whatever was collected.          *)
Expire(c) ==
  /\ collector[c] = "open"
  /\ event[c] = "sent"
  /\ collector' = [collector EXCEPT ![c] = "expired"]
  /\ UNCHANGED <<request, registered, listeners, callVars, results, handler, given,
                 completed>>

(* completeSubjects: every open collector completes with what it holds.    *)
CompleteSubjects ==
  /\ ~completed
  /\ completed' = TRUE
  /\ collector' = [c \in Calls |->
       IF collector[c] = "open" THEN "completed" ELSE collector[c]]
  /\ UNCHANGED <<request, registered, listeners, callVars, results, handler, given>>

-----------------------------------------------------------------------------
Settled(c) == collector[c] \notin {"none", "open"}

HasErrorIn(s) == \E i \in DOMAIN s : s[i].kind = "error"

(* A wrong ending: an empty window resolves, whatever the mode.            *)
SilentOutcome(c) ==
  CASE ~Settled(c) -> "pending"
    [] collector[c] = "unhandled" -> "undefined"
    [] OTHER -> IF HasErrorIn(results[c]) THEN "rejected" ELSE "resolved"

(* How emitAction ends once its collector is closed: an empty window is a  *)
(* timeout error only in strict mode and only if somebody was expected to  *)
(* answer; otherwise any error rejects the call; fewer answers than        *)
(* expected are only a warning.                                            *)
Outcome(c) ==
  CASE ~Settled(c) -> "pending"
    [] collector[c] = "unhandled" -> "undefined"
    [] OTHER ->
         IF results[c] = <<>> /\ request[c].strict /\ expected[c] > 0 THEN "timeoutError"
         ELSE IF HasErrorIn(results[c]) THEN "rejected" ELSE "resolved"

Next ==
  \/ \E l \in Listeners : Register(l)
  \/ \E c \in Calls : CallUnhandled(c) \/ CallAction(c) \/ SendEvent(c) \/ Expire(c)
  \/ \E c \in Calls, l \in Listeners :
       Reply(c, l) \/ ReplyError(c, l) \/ HandlerThrows(c, l) \/ HandlerReturns(c, l)
  \/ CompleteSubjects

(* Microtasks run and timers fire; nothing obliges a handler to answer or  *)
(* the bus to be torn down.                                                *)
Fairness == \A c \in Calls : WF_vars(SendEvent(c)) /\ WF_vars(Expire(c))

Spec == Init /\ [][Next]_vars
FairSpec == Spec /\ Fairness

-----------------------------------------------------------------------------
Invoked(c) == {l \in Listeners : handler[c][l] # "idle"}

(* Type correctness.                                                       *)
TypeOK ==
  /\ request \in [Calls -> Requests]
  /\ registered \subseteq Listeners
  /\ listeners \in [Names -> Nat]
  /\ event \in [Calls -> {"none", "pending", "sent"}]
  /\ expected \in [Calls -> Nat]
  /\ collector \in [Calls -> Collectors]
  /\ results \in [Calls -> Seq(Answers)]
  /\ handler \in [Calls -> [Listeners -> {"idle", "running", "done"}]]
  /\ given \in [Calls -> Seq(Answers)]
  /\ completed \in BOOLEAN

(* Correlation: a caller hears exactly the answers its own handlers gave   *)
(* it, in the order they were given, and misses none while it waits;       *)
(* answers to other calls of the same action never reach it.               *)
HearsItsOwnAnswers ==
  \A c \in Calls :
    /\ Len(results[c]) <= Len(given[c])
    /\ \A i \in DOMAIN results[c] : results[c][i] = given[c][i]
    /\ collector[c] = "open" => Len(results[c]) = Len(given[c])

(* The quota a waiting caller counted before its microtask can be filled   *)
(* by the handlers its event did reach, so waiting for the timer is never  *)
(* the bus's own doing: registrations between count and event only add.    *)
QuotaIsReachable ==
  \A c \in Calls :
    /\ collector[c] = "open"
    /\ event[c] = "sent"
    /\ request[c].strategy # "first"
    => expected[c] <= Cardinality(Invoked(c))

AnswersOnce(c) ==
  \A i, j \in DOMAIN given[c] : given[c][i].by = given[c][j].by => i = j

(* "Wait for all listeners": as long as every handler answers at most once *)
(* and none joined between count and event, a collecting call that ends by *)
(* its quota has heard every handler it reached.                           *)
EveryListenerHeard ==
  \A c \in Calls :
    /\ collector[c] = "taken"
    /\ event[c] = "sent"
    /\ request[c].strategy # "first"
    /\ AnswersOnce(c)
    /\ Cardinality(Invoked(c)) = expected[c]
    => \A l \in Invoked(c) : \E i \in DOMAIN results[c] : results[c][i].by = l

RepliesOnce(c) ==
  \A i, j \in DOMAIN given[c] :
    /\ given[c][i].by = given[c][j].by
    /\ given[c][i].kind = given[c][j].kind
    => i = j

(* What the documentation says of "collect", for handlers that reply once  *)
(* but may, like the reporter's core.close handler, reply in a finally     *)
(* block and then throw: the call still waits for all listeners.           *)
CollectWaitsForAllListeners ==
  \A c \in Calls :
    /\ collector[c] = "taken"
    /\ event[c] = "sent"
    /\ request[c].strategy = "collect"
    /\ RepliesOnce(c)
    /\ Cardinality(Invoked(c)) = expected[c]
    => \A l \in Invoked(c) : \E i \in DOMAIN results[c] : results[c][i].by = l

(* No silent success: a strict call that had listeners resolves only on    *)
(* replies, all of them from handlers of its own event and none an error,  *)
(* whichever of quota, timer and teardown closed it.                       *)
NoSilentSuccess ==
  \A c \in Calls :
    Outcome(c) = "resolved" =>
      /\ \A i \in DOMAIN results[c] :
           results[c][i].kind = "reply" /\ results[c][i].by \in Invoked(c)
      /\ request[c].strict /\ expected[c] > 0 => results[c] # <<>>

(* Tearing the bus down releases every caller: once the subjects complete  *)
(* nobody waits, not even a call made afterwards.                          *)
ShutdownReleasesCallers ==
  completed => \A c \in Calls : collector[c] # "open"

(* Every emitted action settles, even if no handler ever answers.          *)
EveryCallSettles ==
  \A c \in Calls : collector[c] = "open" ~> Settled(c)

(* The emitter implements the promise of ActionPromise.                    *)
PromiseOf(c) ==
  CASE collector[c] = "none" -> "unsent"
    [] collector[c] = "open" -> "pending"
    [] OTHER -> IF Outcome(c) \in {"resolved", "undefined"} THEN "fulfilled" ELSE "rejected"

AP == INSTANCE ActionPromise WITH
        promise <- [c \in Calls |-> PromiseOf(c)],
        heard <- results

ImplementsActionPromise == AP!PromiseSpec
=============================================================================
