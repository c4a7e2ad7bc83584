------------------------ MODULE ThymianEmitterProofs ------------------------
(***************************************************************************)
(* Proofs about ThymianEmitter, for any calls, listeners and action names. *)
(***************************************************************************)
EXTENDS ThymianEmitter, FiniteSetTheorems, TLAPS

-----------------------------------------------------------------------------
(* What an answer changes, whichever action publishes it.                  *)
LEMMA PublishType ==
  ASSUME TypeOK, NEW c \in Calls, NEW l \in Listeners, NEW kind \in {"reply", "error"},
         Answer(c, l, kind)
  PROVE  /\ results' \in [Calls -> Seq(Answers)]
         /\ collector' \in [Calls -> Collectors]
         /\ given' \in [Calls -> Seq(Answers)]
<1> DEFINE m == [name |-> ListensTo[l], correlationId |-> c, by |-> l, kind |-> kind]
<1>1. [by |-> m.by, kind |-> m.kind] \in Answers
  BY DEF Answers
<1>2. results' \in [Calls -> Seq(Answers)]
  BY <1>1 DEF Answer, Publish, TypeOK
<1>3. collector' \in [Calls -> Collectors]
  BY DEF Answer, Publish, TypeOK, Collectors
<1>4. given' \in [Calls -> Seq(Answers)]
  BY <1>1 DEF Answer, Publish, TypeOK
<1> QED BY <1>2, <1>3, <1>4

LEMMA InitType == Init => TypeOK
<1> SUFFICES ASSUME Init PROVE TypeOK
  OBVIOUS
<1>1. results \in [Calls -> Seq(Answers)] /\ given \in [Calls -> Seq(Answers)]
  <2>1. <<>> \in Seq(Answers)
    OBVIOUS
  <2> QED BY <2>1 DEF Init
<1>2. handler \in [Calls -> [Listeners -> {"idle", "running", "done"}]]
  <2>1. [l \in Listeners |-> "idle"] \in [Listeners -> {"idle", "running", "done"}]
    OBVIOUS
  <2> QED BY <2>1 DEF Init
<1> QED BY <1>1, <1>2 DEF Init, TypeOK, Collectors

LEMMA StepType == TypeOK /\ [Next]_vars => TypeOK'
<1> SUFFICES ASSUME TypeOK, [Next]_vars PROVE TypeOK'
  OBVIOUS
<1> USE NamesAssumption
<1>1. ASSUME NEW l \in Listeners, Register(l) PROVE TypeOK'
  BY <1>1 DEF Register, TypeOK, callVars
<1>2. ASSUME NEW c \in Calls, CallUnhandled(c) PROVE TypeOK'
  BY <1>2 DEF CallUnhandled, TypeOK, callVars, Collectors
<1>3. ASSUME NEW c \in Calls, CallAction(c) PROVE TypeOK'
  <2>1. listeners[request[c].name] \in Nat
    BY DEF TypeOK
  <2>2. \A q : OpenedCollector(q) \in Collectors
    BY DEF OpenedCollector, Collectors
  <2> QED BY <1>3, <2>1, <2>2 DEF CallAction, TypeOK
<1>4. ASSUME NEW c \in Calls, SendEvent(c) PROVE TypeOK'
  BY <1>4 DEF SendEvent, TypeOK
<1>5. ASSUME NEW c \in Calls, Expire(c) PROVE TypeOK'
  BY <1>5 DEF Expire, TypeOK, callVars, Collectors
<1>6. ASSUME NEW c \in Calls, NEW l \in Listeners, Reply(c, l) PROVE TypeOK'
  BY <1>6, PublishType DEF Reply, Answer, TypeOK, callVars
<1>7. ASSUME NEW c \in Calls, NEW l \in Listeners, ReplyError(c, l) PROVE TypeOK'
  BY <1>7, PublishType DEF ReplyError, Answer, TypeOK, callVars
<1>8. ASSUME NEW c \in Calls, NEW l \in Listeners, HandlerThrows(c, l) PROVE TypeOK'
  BY <1>8, PublishType DEF HandlerThrows, Answer, TypeOK, callVars
<1>9. ASSUME NEW c \in Calls, NEW l \in Listeners, HandlerReturns(c, l) PROVE TypeOK'
  BY <1>9 DEF HandlerReturns, TypeOK, callVars
<1>10. ASSUME CompleteSubjects PROVE TypeOK'
  BY <1>10 DEF CompleteSubjects, TypeOK, callVars, Collectors
<1>11. CASE UNCHANGED vars
  BY <1>11 DEF TypeOK, vars, callVars
<1> QED BY <1>1, <1>2, <1>3, <1>4, <1>5, <1>6, <1>7, <1>8, <1>9, <1>10, <1>11 DEF Next

-----------------------------------------------------------------------------
(* The stages of one call: nothing happens to it before it is made, nobody *)
(* handles or answers it before its event is sent, only handlers of its    *)
(* own action are invoked, and only invoked handlers answer.               *)
StagesOf(c) ==
  /\ collector[c] \in {"none", "unhandled"} => event[c] = "none"
  /\ event[c] # "sent" => given[c] = <<>> /\ results[c] = <<>> /\ Invoked(c) = {}
  /\ \A l \in Invoked(c) : ListensTo[l] = request[c].name
  /\ \A i \in DOMAIN given[c] : given[c][i].by \in Invoked(c)

Stages == \A c \in Calls : StagesOf(c)

(* A count never exceeds the subscriptions there are: what a call expects  *)
(* was subscribed when it counted, and still is when its event is sent.    *)
RegisteredFor(n) == {l \in registered : ListensTo[l] = n}

Counted ==
  /\ \A n \in Names : listeners[n] = Cardinality(RegisteredFor(n))
  /\ \A c \in Calls : event[c] = "pending" => expected[c] <= listeners[request[c].name]

(* A collector closed by its quota holds exactly its quota.                *)
QuotaTaken ==
  \A c \in Calls :
    collector[c] = "taken" => Len(results[c]) = TakeNum(request[c].strategy, expected[c])

(* The inductive invariant behind every theorem of this module.            *)
IInv ==
  /\ TypeOK
  /\ Stages
  /\ Counted
  /\ QuotaTaken
  /\ ShutdownReleasesCallers
  /\ HearsItsOwnAnswers
  /\ QuotaIsReachable
-----------------------------------------------------------------------------
(* The three ways of answering have one effect on the bus.                 *)
Answered(c, l, kind) ==
  /\ Answer(c, l, kind)
  /\ handler[c][l] # "idle"
  /\ \A d \in Calls : Invoked(d)' = Invoked(d)

LEMMA AnswerSteps ==
  ASSUME TypeOK, NEW c \in Calls, NEW l \in Listeners,
         Reply(c, l) \/ ReplyError(c, l) \/ HandlerThrows(c, l)
  PROVE  \E kind \in {"reply", "error"} : Answered(c, l, kind)
<1>1. CASE Reply(c, l)
  BY <1>1 DEF Reply, Answered, Invoked
<1>2. CASE ReplyError(c, l)
  BY <1>2 DEF ReplyError, Answered, Invoked
<1>3. CASE HandlerThrows(c, l)
  <2>1. \A d \in Calls, k \in Listeners : handler'[d][k] # "idle" <=> handler[d][k] # "idle"
    BY <1>3 DEF HandlerThrows, TypeOK
  <2> QED BY <1>3, <2>1 DEF HandlerThrows, Answered, Invoked
<1> QED BY <1>1, <1>2, <1>3

(* An answer reaches the call it was given for, if that still waits, and   *)
(* no other: it carries the name its handler was registered for.           *)
LEMMA AnswerEffect ==
  ASSUME TypeOK, Stages, ShutdownReleasesCallers,
         NEW c \in Calls, NEW l \in Listeners, NEW kind \in {"reply", "error"},
         Answered(c, l, kind), NEW d \in Calls
  PROVE  LET a == [by |-> l, kind |-> kind]
             heard == d = c /\ collector[c] = "open"
         IN  /\ a \in Answers
             /\ results'[d] = IF heard THEN Append(results[d], a) ELSE results[d]
             /\ collector'[d] =
                  IF heard /\ Len(results[d]) + 1 = TakeNum(request[d].strategy, expected[d])
                  THEN "taken" ELSE collector[d]
             /\ given'[d] = IF d = c THEN Append(given[d], a) ELSE given[d]
<1> DEFINE m == [name |-> ListensTo[l], correlationId |-> c, by |-> l, kind |-> kind]
           a == [by |-> l, kind |-> kind]
           heard == d = c /\ collector[c] = "open"
<1>1. a \in Answers
  BY DEF Answers
<1>2. Publish(m)
  BY DEF Answered, Answer
<1>3. Receives(d, m) <=> heard
  <2>1. l \in Invoked(c)
    BY DEF Answered, Invoked
  <2>2. ListensTo[l] = request[c].name
    BY <2>1 DEF Stages, StagesOf
  <2>3. collector[c] = "open" => ~completed
    BY DEF ShutdownReleasesCallers
  <2> QED BY <2>2, <2>3 DEF Receives, IsResponseOf
<1>4. results'[d] = IF Receives(d, m) THEN Append(results[d], a) ELSE results[d]
  BY <1>2 DEF Publish
<1>5. collector'[d] =
        IF Receives(d, m) /\ Len(results[d]) + 1 = TakeNum(request[d].strategy, expected[d])
        THEN "taken" ELSE collector[d]
  BY <1>2 DEF Publish
<1>6. given'[d] = IF d = c THEN Append(given[d], a) ELSE given[d]
  BY <1>2 DEF Publish, TypeOK
<1> QED BY <1>1, <1>3, <1>4, <1>5, <1>6
-----------------------------------------------------------------------------
LEMMA InitIInv == Init => IInv
<1> SUFFICES ASSUME Init PROVE IInv
  OBVIOUS
<1>1. TypeOK
  BY InitType
<1>2. \A c \in Calls : Invoked(c) = {}
  BY DEF Init, Invoked
<1>3. Stages
  BY <1>2 DEF Init, Stages, StagesOf
<1>4. Counted
  <2>1. \A n \in Names : RegisteredFor(n) = {}
    BY DEF Init, RegisteredFor
  <2> QED BY <2>1, FS_EmptySet DEF Init, Counted
<1>5. QuotaTaken /\ ShutdownReleasesCallers /\ HearsItsOwnAnswers /\ QuotaIsReachable
  BY DEF Init, QuotaTaken, ShutdownReleasesCallers, HearsItsOwnAnswers, QuotaIsReachable
<1> QED BY <1>1, <1>3, <1>4, <1>5 DEF IInv

(* Nobody answers before the event, and only the handlers it reached do.   *)
LEMMA StepStages == IInv /\ [Next]_vars => Stages'
<1> SUFFICES ASSUME IInv, [Next]_vars, NEW d \in Calls PROVE StagesOf(d)'
  BY DEF Stages
<1> USE DEF IInv
<1>0. TypeOK' /\ StagesOf(d)
  BY StepType DEF Stages
<1>1. ASSUME NEW l \in Listeners, Register(l) PROVE StagesOf(d)'
  BY <1>0, <1>1 DEF Register, StagesOf, Invoked, callVars
<1>2. ASSUME NEW c \in Calls, CallUnhandled(c) PROVE StagesOf(d)'
  BY <1>0, <1>2 DEF CallUnhandled, StagesOf, Invoked, callVars, TypeOK
<1>3. ASSUME NEW c \in Calls, CallAction(c) PROVE StagesOf(d)'
  <2>1. \A q : OpenedCollector(q) \notin {"none", "unhandled"}
    BY DEF OpenedCollector
  <2>2. CASE d = c
    BY <1>0, <1>3, <2>1, <2>2 DEF CallAction, StagesOf, Invoked, TypeOK
  <2>3. CASE d # c
    BY <1>0, <1>3, <2>3 DEF CallAction, StagesOf, Invoked, TypeOK
  <2> QED BY <2>2, <2>3
<1>4. ASSUME NEW c \in Calls, SendEvent(c) PROVE StagesOf(d)'
  <2>1. CASE d = c
    <3>1. event[c] = "pending" /\ event'[c] = "sent" /\ collector' = collector
      BY <1>4 DEF SendEvent, TypeOK
    <3>2. given'[c] = <<>> /\ collector'[c] \notin {"none", "unhandled"}
      BY <1>0, <1>4, <2>1, <3>1 DEF SendEvent, StagesOf
    <3>3. \A l \in Invoked(c)' : ListensTo[l] = request'[c].name
      BY <1>4 DEF SendEvent, Invoked, TypeOK
    <3> QED BY <2>1, <3>1, <3>2, <3>3 DEF StagesOf
  <2>2. CASE d # c
    BY <1>0, <1>4, <2>2 DEF SendEvent, StagesOf, Invoked, TypeOK
  <2> QED BY <2>1, <2>2
<1>5. ASSUME NEW c \in Calls, Expire(c) PROVE StagesOf(d)'
  BY <1>0, <1>5 DEF Expire, StagesOf, Invoked, callVars, TypeOK
<1>6. ASSUME NEW c \in Calls, NEW l \in Listeners, NEW kind \in {"reply", "error"},
             Answered(c, l, kind)
      PROVE  StagesOf(d)'
  <2>1. UNCHANGED <<request, event>> /\ Invoked(d)' = Invoked(d) /\ l \in Invoked(c)
    BY <1>6 DEF Answered, Answer, callVars, Invoked
  <2>2. event[d] # "sent" => d # c
    BY <1>0, <2>1 DEF StagesOf
  <2>3. given[d] \in Seq(Answers)
    BY DEF TypeOK
  <2>4. collector'[d] \in {"none", "unhandled"} <=> collector[d] \in {"none", "unhandled"}
    BY <1>6, AnswerEffect
  <2>5. \A i \in DOMAIN given'[d] : given'[d][i].by \in Invoked(d)
    <3>1. CASE d = c
      <4> DEFINE a == [by |-> l, kind |-> kind]
      <4>1. given'[d] = Append(given[d], a) /\ a \in Answers
        BY <1>6, <3>1, AnswerEffect
      <4>2. DOMAIN given'[d] = 1 .. Len(given[d]) + 1
        BY <2>3, <4>1
      <4>3. \A i \in 1 .. Len(given[d]) : given'[d][i].by \in Invoked(d)
        BY <1>0, <2>3, <4>1 DEF StagesOf
      <4>4. given'[d][Len(given[d]) + 1].by \in Invoked(d)
        BY <2>1, <2>3, <3>1, <4>1
      <4> QED BY <2>3, <4>2, <4>3, <4>4
    <3>2. CASE d # c
      <4>1. given'[d] = given[d]
        BY <1>6, <3>2, AnswerEffect
      <4> QED BY <1>0, <4>1 DEF StagesOf
    <3> QED BY <3>1, <3>2
  <2>6. d # c => given'[d] = given[d] /\ results'[d] = results[d]
    BY <1>6, AnswerEffect
  <2> QED BY <1>0, <2>1, <2>2, <2>4, <2>5, <2>6 DEF StagesOf
<1>7. ASSUME NEW c \in Calls, NEW l \in Listeners, HandlerReturns(c, l) PROVE StagesOf(d)'
  <2>1. \A k \in Listeners : handler'[d][k] # "idle" <=> handler[d][k] # "idle"
    BY <1>7 DEF HandlerReturns, TypeOK
  <2>2. Invoked(d)' = Invoked(d)
    BY <2>1 DEF Invoked
  <2> QED BY <1>0, <1>7, <2>2 DEF HandlerReturns, StagesOf, callVars
<1>8. ASSUME CompleteSubjects PROVE StagesOf(d)'
  BY <1>0, <1>8 DEF CompleteSubjects, StagesOf, Invoked, callVars
<1>9. CASE UNCHANGED vars
  BY <1>0, <1>9 DEF vars, callVars, StagesOf, Invoked
<1> QED BY <1>1, <1>2, <1>3, <1>4, <1>5, <1>6, <1>7, <1>8, <1>9, AnswerSteps DEF Next
(* Nobody waits on completed subjects.                                     *)
LEMMA StepReleases == IInv /\ [Next]_vars => ShutdownReleasesCallers'
<1> SUFFICES ASSUME IInv, [Next]_vars, completed', NEW d \in Calls PROVE collector'[d] # "open"
  BY DEF ShutdownReleasesCallers
<1> USE DEF IInv
<1>0. completed => collector[d] # "open"
  BY DEF ShutdownReleasesCallers
<1>1. ASSUME NEW l \in Listeners, Register(l) PROVE collector'[d] # "open"
  BY <1>0, <1>1 DEF Register
<1>2. ASSUME NEW c \in Calls, CallUnhandled(c) PROVE collector'[d] # "open"
  BY <1>0, <1>2 DEF CallUnhandled, TypeOK
<1>3. ASSUME NEW c \in Calls, CallAction(c) PROVE collector'[d] # "open"
  <2>1. completed
    BY <1>3 DEF CallAction
  <2>2. \A q : OpenedCollector(q) # "open"
    BY <2>1 DEF OpenedCollector
  <2> QED BY <1>0, <1>3, <2>1, <2>2 DEF CallAction, TypeOK
<1>4. ASSUME NEW c \in Calls, SendEvent(c) PROVE collector'[d] # "open"
  BY <1>0, <1>4 DEF SendEvent
<1>5. ASSUME NEW c \in Calls, Expire(c) PROVE collector'[d] # "open"
  BY <1>0, <1>5 DEF Expire, TypeOK
<1>6. ASSUME NEW c \in Calls, NEW l \in Listeners, NEW kind \in {"reply", "error"},
             Answered(c, l, kind)
      PROVE  collector'[d] # "open"
  <2>1. completed
    BY <1>6 DEF Answered, Answer
  <2> QED BY <1>0, <1>6, <2>1, AnswerEffect
<1>7. ASSUME NEW c \in Calls, NEW l \in Listeners, HandlerReturns(c, l)
      PROVE  collector'[d] # "open"
  BY <1>0, <1>7 DEF HandlerReturns
<1>8. ASSUME CompleteSubjects PROVE collector'[d] # "open"
  BY <1>8 DEF CompleteSubjects
<1>9. CASE UNCHANGED vars
  BY <1>0, <1>9 DEF vars
<1> QED BY <1>1, <1>2, <1>3, <1>4, <1>5, <1>6, <1>7, <1>8, <1>9, AnswerSteps DEF Next

(* What one call hears is a prefix of what it is given, and all of it      *)
(* while it waits.                                                         *)
HeardOf(c) ==
  /\ Len(results[c]) <= Len(given[c])
  /\ \A i \in DOMAIN results[c] : results[c][i] = given[c][i]
  /\ collector[c] = "open" => Len(results[c]) = Len(given[c])

LEMMA StepHears == IInv /\ [Next]_vars => HearsItsOwnAnswers'
<1> SUFFICES ASSUME IInv, [Next]_vars, NEW d \in Calls PROVE HeardOf(d)'
  BY DEF HearsItsOwnAnswers, HeardOf
<1> USE DEF IInv
<1>0. HeardOf(d) /\ StagesOf(d)
  BY DEF HearsItsOwnAnswers, HeardOf, Stages
<1>1. ASSUME UNCHANGED <<results, given>>, collector'[d] = "open" => collector[d] = "open"
      PROVE  HeardOf(d)'
  BY <1>0, <1>1 DEF HeardOf
<1>2. ASSUME NEW c \in Calls, CallAction(c) PROVE HeardOf(d)'
  <2>1. CASE d = c
    <3>1. results'[d] = <<>> /\ given'[d] = <<>>
      BY <1>0, <1>2, <2>1 DEF CallAction, StagesOf
    <3> QED BY <3>1 DEF HeardOf
  <2>2. CASE d # c
    BY <1>1, <1>2, <2>2 DEF CallAction, TypeOK
  <2> QED BY <2>1, <2>2
<1>3. ASSUME NEW c \in Calls, NEW l \in Listeners, NEW kind \in {"reply", "error"},
             Answered(c, l, kind)
      PROVE  HeardOf(d)'
  <2> DEFINE a == [by |-> l, kind |-> kind]
  <2>0. results[d] \in Seq(Answers) /\ given[d] \in Seq(Answers) /\ a \in Answers
    BY <1>3, AnswerEffect DEF TypeOK
  <2>1. CASE d = c /\ collector[c] = "open"
    <3>1. results'[d] = Append(results[d], a) /\ given'[d] = Append(given[d], a)
      BY <1>3, <2>1, AnswerEffect
    <3>2. Len(results[d]) = Len(given[d])
      BY <1>0, <2>1 DEF HeardOf
    <3>3. Len(results'[d]) = Len(given'[d])
      BY <2>0, <3>1, <3>2
    <3>4. \A i \in DOMAIN results'[d] : results'[d][i] = given'[d][i]
      BY <1>0, <2>0, <3>1, <3>2 DEF HeardOf
    <3>5. Len(given'[d]) \in Nat
      BY <2>0, <3>1
    <3> QED BY <3>3, <3>4, <3>5 DEF HeardOf
  <2>2. CASE d = c /\ collector[c] # "open"
    <3>1. results'[d] = results[d] /\ given'[d] = Append(given[d], a) /\ collector'[d] # "open"
      BY <1>3, <2>2, AnswerEffect
    <3>2. \A i \in DOMAIN results'[d] : results'[d][i] = given'[d][i]
      BY <1>0, <2>0, <3>1 DEF HeardOf
    <3>3. Len(results'[d]) <= Len(given'[d])
      BY <1>0, <2>0, <3>1 DEF HeardOf
    <3> QED BY <3>1, <3>2, <3>3 DEF HeardOf
  <2>3. CASE d # c
    <3>1. results'[d] = results[d] /\ given'[d] = given[d] /\ collector'[d] = collector[d]
      BY <1>3, <2>3, AnswerEffect
    <3> QED BY <1>0, <3>1 DEF HeardOf
  <2> QED BY <2>1, <2>2, <2>3
<1>4. ASSUME NEW l \in Listeners, Register(l) PROVE HeardOf(d)'
  BY <1>1, <1>4 DEF Register
<1>5. ASSUME NEW c \in Calls, CallUnhandled(c) PROVE HeardOf(d)'
  BY <1>1, <1>5 DEF CallUnhandled, TypeOK
<1>6. ASSUME NEW c \in Calls, SendEvent(c) PROVE HeardOf(d)'
  BY <1>1, <1>6 DEF SendEvent
<1>7. ASSUME NEW c \in Calls, Expire(c) PROVE HeardOf(d)'
  BY <1>1, <1>7 DEF Expire, TypeOK
<1>8. ASSUME NEW c \in Calls, NEW l \in Listeners, HandlerReturns(c, l) PROVE HeardOf(d)'
  BY <1>1, <1>8 DEF HandlerReturns
<1>9. ASSUME CompleteSubjects PROVE HeardOf(d)'
  BY <1>1, <1>9 DEF CompleteSubjects
<1>10. CASE UNCHANGED vars
  BY <1>1, <1>10 DEF vars
<1> QED BY <1>2, <1>3, <1>4, <1>5, <1>6, <1>7, <1>8, <1>9, <1>10, AnswerSteps DEF Next
LEMMA RegisteredIsFinite ==
  ASSUME TypeOK, NEW n PROVE IsFiniteSet(RegisteredFor(n))
<1>1. RegisteredFor(n) \in SUBSET Listeners
  BY DEF TypeOK, RegisteredFor
<1> QED BY <1>1, BoundsAssumption, FS_Subset

(* The count of a name is the number of its subscriptions.                 *)
LEMMA StepCounted == IInv /\ [Next]_vars => Counted'
<1> SUFFICES ASSUME IInv, [Next]_vars PROVE Counted'
  OBVIOUS
<1> USE DEF IInv
<1>1. ASSUME UNCHANGED <<request, registered, listeners, expected>>,
             \A c \in Calls : event'[c] = "pending" => event[c] = "pending"
      PROVE  Counted'
  BY <1>1 DEF Counted, RegisteredFor
<1>2. ASSUME NEW l \in Listeners, Register(l) PROVE Counted'
  <2>1. ListensTo[l] \in Names
    BY NamesAssumption
  <2>2. ASSUME NEW n \in Names
        PROVE  listeners'[n] = Cardinality(RegisteredFor(n)') /\ listeners[n] <= listeners'[n]
    <3>1. CASE n = ListensTo[l]
      <4>1. RegisteredFor(n)' = RegisteredFor(n) \cup {l}
        BY <1>2, <3>1 DEF Register, RegisteredFor
      <4>2. l \notin RegisteredFor(n)
        BY <1>2 DEF Register, RegisteredFor
      <4>3. Cardinality(RegisteredFor(n)') = Cardinality(RegisteredFor(n)) + 1
        BY <4>1, <4>2, RegisteredIsFinite, FS_AddElement
      <4>4. listeners'[n] = listeners[n] + 1 /\ listeners[n] \in Nat
        BY <1>2, <3>1 DEF Register, TypeOK
      <4> QED BY <4>3, <4>4 DEF Counted
    <3>2. CASE n # ListensTo[l]
      <4>1. RegisteredFor(n)' = RegisteredFor(n)
        BY <1>2, <3>2 DEF Register, RegisteredFor
      <4>2. listeners'[n] = listeners[n] /\ listeners[n] \in Nat
        BY <1>2, <3>2 DEF Register, TypeOK
      <4> QED BY <4>1, <4>2 DEF Counted
    <3> QED BY <3>1, <3>2
  <2>3. ASSUME NEW c \in Calls, event'[c] = "pending"
        PROVE  expected'[c] <= listeners'[request'[c].name]
    <3>1. request[c].name \in Names
      BY NamesAssumption DEF TypeOK
    <3>2. UNCHANGED <<request, event, expected>>
      BY <1>2 DEF Register, callVars
    <3>3. expected[c] <= listeners[request[c].name]
      BY <2>3, <3>2 DEF Counted
    <3>4. /\ expected[c] \in Nat
          /\ listeners[request[c].name] \in Nat
          /\ listeners'[request[c].name] \in Nat
      BY <3>1, StepType DEF TypeOK
    <3>5. listeners[request[c].name] <= listeners'[request[c].name]
      BY <2>2, <3>1
    <3> QED BY <3>2, <3>3, <3>4, <3>5
  <2> QED BY <2>2, <2>3 DEF Counted
<1>3. ASSUME NEW c \in Calls, CallUnhandled(c) PROVE Counted'
  BY <1>1, <1>3 DEF CallUnhandled, callVars
<1>4. ASSUME NEW c \in Calls, CallAction(c) PROVE Counted'
  <2>1. UNCHANGED <<request, registered, listeners>>
    BY <1>4 DEF CallAction
  <2>2. ASSUME NEW d \in Calls, event'[d] = "pending"
        PROVE  expected'[d] <= listeners[request[d].name]
    <3>1. CASE d = c
      <4>1. listeners[request[c].name] \in Nat
        BY NamesAssumption DEF TypeOK
      <4> QED BY <1>4, <3>1, <4>1 DEF CallAction, TypeOK
    <3>2. CASE d # c
      BY <1>4, <2>2, <3>2 DEF CallAction, Counted, TypeOK
    <3> QED BY <3>1, <3>2
  <2> QED BY <2>1, <2>2 DEF Counted, RegisteredFor
<1>5. ASSUME NEW c \in Calls, SendEvent(c) PROVE Counted'
  BY <1>1, <1>5 DEF SendEvent, TypeOK
<1>6. ASSUME NEW c \in Calls, Expire(c) PROVE Counted'
  BY <1>1, <1>6 DEF Expire, callVars
<1>7. ASSUME NEW c \in Calls, NEW l \in Listeners, NEW kind \in {"reply", "error"},
             Answered(c, l, kind)
      PROVE  Counted'
  BY <1>1, <1>7 DEF Answered, Answer, callVars
<1>8. ASSUME NEW c \in Calls, NEW l \in Listeners, HandlerReturns(c, l) PROVE Counted'
  BY <1>1, <1>8 DEF HandlerReturns, callVars
<1>9. ASSUME CompleteSubjects PROVE Counted'
  BY <1>1, <1>9 DEF CompleteSubjects, callVars
<1>10. CASE UNCHANGED vars
  BY <1>1, <1>10 DEF vars, callVars
<1> QED
  BY <1>2, <1>3, <1>4, <1>5, <1>6, <1>7, <1>8, <1>9, <1>10, AnswerSteps DEF Next

(* The handlers an event reaches include those its call counted.           *)
LEMMA StepQuotaIsReachable == IInv /\ [Next]_vars => QuotaIsReachable'
<1> SUFFICES ASSUME IInv, [Next]_vars, NEW d \in Calls,
                    collector'[d] = "open", event'[d] = "sent",
                    request'[d].strategy # "first"
             PROVE  expected'[d] <= Cardinality(Invoked(d)')
  BY DEF QuotaIsReachable
<1> USE DEF IInv
<1>1. ASSUME UNCHANGED <<request, event, expected>>, Invoked(d)' = Invoked(d),
             collector[d] = "open"
      PROVE  expected'[d] <= Cardinality(Invoked(d)')
  BY <1>1 DEF QuotaIsReachable
<1>2. ASSUME NEW l \in Listeners, Register(l)
      PROVE  expected'[d] <= Cardinality(Invoked(d)')
  BY <1>1, <1>2 DEF Register, callVars, Invoked
<1>3. ASSUME NEW c \in Calls, CallUnhandled(c)
      PROVE  expected'[d] <= Cardinality(Invoked(d)')
  BY <1>1, <1>3 DEF CallUnhandled, callVars, Invoked, TypeOK
<1>4. ASSUME NEW c \in Calls, CallAction(c)
      PROVE  expected'[d] <= Cardinality(Invoked(d)')
  <2>1. d # c
    BY <1>4 DEF CallAction, TypeOK
  <2> QED BY <1>4, <2>1 DEF CallAction, Invoked, QuotaIsReachable, TypeOK
<1>5. ASSUME NEW c \in Calls, SendEvent(c)
      PROVE  expected'[d] <= Cardinality(Invoked(d)')
  <2>1. CASE d = c
    <3>1. ~completed
      BY <1>5 DEF SendEvent, ShutdownReleasesCallers
    <3>2. Invoked(c)' = RegisteredFor(request[c].name)
      BY <1>5, <3>1 DEF SendEvent, Invoked, RegisteredFor, TypeOK
    <3>3. request[c].name \in Names
      BY NamesAssumption DEF TypeOK
    <3>4. expected'[c] <= listeners[request[c].name]
      BY <1>5 DEF SendEvent, Counted
    <3> QED BY <2>1, <3>2, <3>3, <3>4 DEF Counted
  <2>2. CASE d # c
    BY <1>5, <2>2 DEF SendEvent, Invoked, QuotaIsReachable, TypeOK
  <2> QED BY <2>1, <2>2
<1>6. ASSUME NEW c \in Calls, Expire(c)
      PROVE  expected'[d] <= Cardinality(Invoked(d)')
  BY <1>1, <1>6 DEF Expire, callVars, Invoked, TypeOK
<1>7. ASSUME NEW c \in Calls, NEW l \in Listeners, NEW kind \in {"reply", "error"},
             Answered(c, l, kind)
      PROVE  expected'[d] <= Cardinality(Invoked(d)')
  <2>1. collector[d] = "open"
    BY <1>7, AnswerEffect
  <2> QED BY <1>1, <1>7, <2>1 DEF Answered, Answer, callVars
<1>8. ASSUME NEW c \in Calls, NEW l \in Listeners, HandlerReturns(c, l)
      PROVE  expected'[d] <= Cardinality(Invoked(d)')
  <2>1. \A k \in Listeners : handler'[d][k] # "idle" <=> handler[d][k] # "idle"
    BY <1>8 DEF HandlerReturns, TypeOK
  <2> QED BY <1>1, <1>8, <2>1 DEF HandlerReturns, callVars, Invoked
<1>9. ASSUME CompleteSubjects PROVE expected'[d] <= Cardinality(Invoked(d)')
  BY <1>9 DEF CompleteSubjects
<1>10. CASE UNCHANGED vars
  BY <1>1, <1>10 DEF vars, callVars, Invoked
<1> QED
  BY <1>2, <1>3, <1>4, <1>5, <1>6, <1>7, <1>8, <1>9, <1>10, AnswerSteps DEF Next
LEMMA StepQuotaTaken == IInv /\ [Next]_vars => QuotaTaken'
<1> DEFINE Holds(c) ==
      collector[c] = "taken" => Len(results[c]) = TakeNum(request[c].strategy, expected[c])
<1> SUFFICES ASSUME IInv, [Next]_vars, NEW d \in Calls PROVE Holds(d)'
  BY DEF QuotaTaken
<1> USE DEF IInv
<1>0. Holds(d) /\ StagesOf(d)
  BY DEF QuotaTaken, Stages
<1>1. ASSUME UNCHANGED <<request, expected, results>>,
             collector'[d] = "taken" => collector[d] = "taken"
      PROVE  Holds(d)'
  BY <1>0, <1>1 DEF TakeNum
<1>2. ASSUME NEW c \in Calls, CallAction(c) PROVE Holds(d)'
  <2>1. CASE d = c
    <3> DEFINE q == TakeNum(request[c].strategy, listeners[request[c].name])
    <3>1. results'[d] = <<>>
      BY <1>0, <1>2, <2>1 DEF CallAction, StagesOf
    <3>2. collector'[d] = OpenedCollector(q) /\ request' = request
      BY <1>2, <2>1 DEF CallAction, TypeOK
    <3>3. TakeNum(request'[d].strategy, expected'[d]) = q
      BY <1>2, <2>1 DEF CallAction, TypeOK
    <3>4. OpenedCollector(q) = "taken" => q = 0
      BY DEF OpenedCollector
    <3> QED BY <3>1, <3>2, <3>3, <3>4
  <2>2. CASE d # c
    BY <1>0, <1>2, <2>2 DEF CallAction, TypeOK, TakeNum
  <2> QED BY <2>1, <2>2
<1>3. ASSUME NEW c \in Calls, NEW l \in Listeners, NEW kind \in {"reply", "error"},
             Answered(c, l, kind)
      PROVE  Holds(d)'
  <2> DEFINE a == [by |-> l, kind |-> kind]
             q == TakeNum(request[d].strategy, expected[d])
  <2>0. q' = q
    BY <1>3 DEF Answered, Answer, callVars, TakeNum
  <2>1. CASE d = c /\ collector[c] = "open"
    <3>1. /\ results'[d] = Append(results[d], a)
          /\ a \in Answers
          /\ collector'[d] = "taken" => Len(results[d]) + 1 = q
      BY <1>3, <2>1, AnswerEffect
    <3>2. results[d] \in Seq(Answers)
      BY DEF TypeOK
    <3> QED BY <2>0, <3>1, <3>2
  <2>2. CASE ~(d = c /\ collector[c] = "open")
    <3>1. results'[d] = results[d] /\ collector'[d] = collector[d]
      BY <1>3, <2>2, AnswerEffect
    <3> QED BY <1>0, <2>0, <3>1
  <2> QED BY <2>1, <2>2
<1>4. ASSUME NEW l \in Listeners, Register(l) PROVE Holds(d)'
  BY <1>1, <1>4 DEF Register, callVars
<1>5. ASSUME NEW c \in Calls, CallUnhandled(c) PROVE Holds(d)'
  BY <1>1, <1>5 DEF CallUnhandled, callVars, TypeOK
<1>6. ASSUME NEW c \in Calls, SendEvent(c) PROVE Holds(d)'
  BY <1>1, <1>6 DEF SendEvent
<1>7. ASSUME NEW c \in Calls, Expire(c) PROVE Holds(d)'
  BY <1>1, <1>7 DEF Expire, callVars, TypeOK
<1>8. ASSUME NEW c \in Calls, NEW l \in Listeners, HandlerReturns(c, l) PROVE Holds(d)'
  BY <1>1, <1>8 DEF HandlerReturns, callVars
<1>9. ASSUME CompleteSubjects PROVE Holds(d)'
  BY <1>1, <1>9 DEF CompleteSubjects, callVars
<1>10. CASE UNCHANGED vars
  BY <1>1, <1>10 DEF vars, callVars
<1> QED BY <1>2, <1>3, <1>4, <1>5, <1>6, <1>7, <1>8, <1>9, <1>10, AnswerSteps DEF Next

LEMMA Invariance == Spec => []IInv
<1>1. IInv /\ [Next]_vars => IInv'
  BY StepType, StepStages, StepCounted, StepQuotaTaken, StepReleases, StepHears,
     StepQuotaIsReachable DEF IInv
<1> QED BY InitIInv, <1>1, PTL DEF Spec

-----------------------------------------------------------------------------
(* The state of the bus keeps its types, for any number of calls.          *)
THEOREM TypeCorrect == Spec => []TypeOK
<1>1. IInv => TypeOK
  BY DEF IInv
<1> QED BY <1>1, Invariance, PTL

(* Correlation: a caller hears its own answers, all and in order, and      *)
(* nothing else, however many calls of one action run at once.             *)
THEOREM Correlation == Spec => []HearsItsOwnAnswers
<1>1. IInv => HearsItsOwnAnswers
  BY DEF IInv
<1> QED BY <1>1, Invariance, PTL

(* Tearing the bus down releases every caller, later ones included.        *)
THEOREM Release == Spec => []ShutdownReleasesCallers
<1>1. IInv => ShutdownReleasesCallers
  BY DEF IInv
<1> QED BY <1>1, Invariance, PTL

(* The quota a call counted can be filled by the handlers it reached,      *)
(* whenever registrations race with calls.                                 *)
THEOREM Reachability == Spec => []QuotaIsReachable
<1>1. IInv => QuotaIsReachable
  BY DEF IInv
<1> QED BY <1>1, Invariance, PTL

(* A strict call that had listeners resolves on replies of its own         *)
(* handlers, whatever closed its collector.                                *)
THEOREM NoSilence == Spec => []NoSilentSuccess
<1>1. IInv => NoSilentSuccess
  <2> SUFFICES ASSUME IInv, NEW c \in Calls, Outcome(c) = "resolved"
               PROVE  /\ \A i \in DOMAIN results[c] :
                           results[c][i].kind = "reply" /\ results[c][i].by \in Invoked(c)
                      /\ request[c].strict /\ expected[c] > 0 => results[c] # <<>>
    BY DEF NoSilentSuccess
  <2>1. ~HasErrorIn(results[c])
    BY DEF Outcome
  <2>2. request[c].strict /\ expected[c] > 0 => results[c] # <<>>
    BY DEF Outcome
  <2>3. ASSUME NEW i \in DOMAIN results[c]
        PROVE  results[c][i].kind = "reply" /\ results[c][i].by \in Invoked(c)
    <3>1. results[c] \in Seq(Answers) /\ given[c] \in Seq(Answers)
      BY DEF IInv, TypeOK
    <3>2. results[c][i] \in Answers /\ results[c][i].kind # "error"
      BY <2>1, <2>3, <3>1 DEF HasErrorIn
    <3>3. i \in DOMAIN given[c] /\ results[c][i] = given[c][i]
      BY <2>3, <3>1 DEF IInv, HearsItsOwnAnswers
    <3>4. given[c][i].by \in Invoked(c)
      BY <3>3 DEF IInv, Stages, StagesOf
    <3> QED BY <3>2, <3>3, <3>4 DEF Answers
  <2> QED BY <2>2, <2>3
<1> QED BY <1>1, Invariance, PTL
(* A collecting call that its handlers answer at most once and that nobody *)
(* joined late ends by its quota only after hearing each of them: as many  *)
(* distinct handlers answered as there are.                                *)
THEOREM Completeness == Spec => []EveryListenerHeard
<1>1. IInv => EveryListenerHeard
  <2> SUFFICES ASSUME IInv, NEW c \in Calls, collector[c] = "taken",
                      request[c].strategy # "first", AnswersOnce(c),
                      Cardinality(Invoked(c)) = expected[c], NEW l \in Invoked(c)
               PROVE  \E i \in DOMAIN results[c] : results[c][i].by = l
    BY DEF EveryListenerHeard
  <2> DEFINE f == [i \in 1 .. Len(results[c]) |-> results[c][i].by]
  <2>1. results[c] \in Seq(Answers) /\ given[c] \in Seq(Answers)
    BY DEF IInv, TypeOK
  <2>2. \A i \in 1 .. Len(results[c]) : i \in DOMAIN given[c] /\ results[c][i] = given[c][i]
    BY <2>1 DEF IInv, HearsItsOwnAnswers
  <2>3. f \in Injection(1 .. Len(results[c]), Invoked(c))
    <3>1. f \in [1 .. Len(results[c]) -> Invoked(c)]
      BY <2>2 DEF IInv, Stages, StagesOf
    <3>2. \A i, j \in 1 .. Len(results[c]) : f[i] = f[j] => i = j
      BY <2>2 DEF AnswersOnce
    <3> QED BY <3>1, <3>2 DEF Injection, IsInjective
  <2>4. IsFiniteSet(Invoked(c))
    <3>1. Invoked(c) \in SUBSET Listeners
      BY DEF Invoked
    <3> QED BY <3>1, BoundsAssumption, FS_Subset
  <2>5. Len(results[c]) = Cardinality(Invoked(c))
    BY DEF IInv, QuotaTaken, TakeNum
  <2>6. Cardinality(1 .. Len(results[c])) = Cardinality(Invoked(c))
    BY <2>1, <2>5, FS_Interval
  <2>7. f \in Surjection(1 .. Len(results[c]), Invoked(c))
    BY <2>3, <2>4, <2>6, FS_Injection
  <2>8. PICK i \in 1 .. Len(results[c]) : f[i] = l
    BY <2>7 DEF Surjection
  <2> QED BY <2>1, <2>8
<1> QED BY <1>1, Invariance, PTL

(* What EveryCallSettles rests on: a caller that waits has the microtask   *)
(* of its event before it, or the timer of its collector is armed, in a    *)
(* bus that still delivers.                                                *)
WaitersAreArmed ==
  \A c \in Calls : collector[c] = "open" => ~completed /\ event[c] \in {"pending", "sent"}

THEOREM Armed == Spec => []WaitersAreArmed
<1> DEFINE Made == \A c \in Calls : collector[c] = "open" => event[c] # "none"
<1>1. Init => Made
  BY DEF Init
<1>2. ASSUME IInv, Made, [Next]_vars PROVE Made'
  <2> USE <1>2 DEF IInv, TypeOK
  <2>1. ASSUME UNCHANGED <<event, collector>> PROVE Made'
    BY <2>1
  <2>2. ASSUME NEW c \in Calls, NEW l \in Listeners,
               Reply(c, l) \/ ReplyError(c, l) \/ HandlerThrows(c, l)
        PROVE  Made'
    BY <2>2 DEF Reply, ReplyError, HandlerThrows, Answer, Publish, callVars
  <2>3. ASSUME NEW c \in Calls, CallUnhandled(c) \/ CallAction(c) \/ SendEvent(c) \/ Expire(c)
        PROVE  Made'
    BY <2>3 DEF CallUnhandled, CallAction, SendEvent, Expire, callVars
  <2>4. CASE CompleteSubjects
    BY <2>4 DEF CompleteSubjects, callVars
  <2> QED
    BY <2>1, <2>2, <2>3, <2>4 DEF Next, Register, HandlerReturns, callVars, vars
<1>3. IInv /\ Made => WaitersAreArmed
  BY DEF IInv, TypeOK, ShutdownReleasesCallers, WaitersAreArmed
<1> QED BY <1>1, <1>2, <1>3, Invariance, PTL DEF Spec
=============================================================================
