---------------------- MODULE ThymianEmitterRefinement ----------------------
(***************************************************************************)
(* The emitter implements ActionPromise: what emitAction promises the code *)
(* that awaits it, proved for any calls, listeners and action names.       *)
(***************************************************************************)
EXTENDS ThymianEmitterProofs

(* Once a collector is closed, the caller's promise is settled by what it  *)
(* heard: by no error, or by an error, or by having heard nothing.         *)
SettledOn(c) ==
  \/ PromiseOf(c) = "fulfilled" /\ ~HasErrorIn(results[c])
  \/ PromiseOf(c) = "rejected" /\ (results[c] = <<>> \/ HasErrorIn(results[c]))

SettledOnWhatWasHeard ==
  \A c \in Calls : collector[c] \in {"none", "open"} \/ SettledOn(c)

LEMMA Settlement == IInv => SettledOnWhatWasHeard
<1> SUFFICES ASSUME IInv, NEW c \in Calls, collector[c] \notin {"none", "open"}
             PROVE  SettledOn(c)
  BY DEF SettledOnWhatWasHeard
<1>1. CASE collector[c] = "unhandled"
  <2>1. Outcome(c) = "undefined"
    BY <1>1 DEF Outcome, Settled
  <2>2. results[c] = <<>>
    BY <1>1 DEF IInv, Stages, StagesOf
  <2> QED BY <1>1, <2>1, <2>2 DEF PromiseOf, SettledOn, HasErrorIn
<1>2. CASE collector[c] # "unhandled"
  <2>1. \/ Outcome(c) = "timeoutError" /\ results[c] = <<>>
        \/ Outcome(c) = "rejected" /\ HasErrorIn(results[c])
        \/ Outcome(c) = "resolved" /\ ~HasErrorIn(results[c])
    BY <1>2 DEF Outcome, Settled
  <2> QED BY <1>2, <2>1 DEF PromiseOf, SettledOn
<1> QED BY <1>1, <1>2

(* What a step may do to one call, in the emitter's own terms.             *)
Advances(c) ==
  \/ UNCHANGED <<PromiseOf(c), results[c]>>
  \/ /\ PromiseOf(c) = "unsent"
     /\ results'[c] = results[c]
     /\ collector'[c] # "none"
  \/ /\ PromiseOf(c) = "pending"
     /\ \/ results'[c] = results[c]
        \/ \E a \in Answers : results'[c] = Append(results[c], a)
     /\ collector'[c] # "none"

(* A closed collector is never touched again, and neither is its outcome.  *)
LEMMA ClosedIsFinal ==
  ASSUME NEW c \in Calls, UNCHANGED <<request, expected[c], collector[c], results[c]>>
  PROVE  UNCHANGED <<PromiseOf(c), results[c]>>
BY DEF PromiseOf, Outcome, Settled, HasErrorIn
LEMMA PromiseStates ==
  ASSUME NEW c \in Calls
  PROVE  /\ collector[c] = "none" <=> PromiseOf(c) = "unsent"
         /\ collector[c] = "open" <=> PromiseOf(c) = "pending"
BY DEF PromiseOf

LEMMA EveryStepAdvances ==
  ASSUME IInv, [Next]_vars, NEW d \in Calls
  PROVE  Advances(d)
<1> USE DEF IInv
<1>1. ASSUME UNCHANGED <<request, expected, results>>,
             \/ collector'[d] = collector[d]
             \/ collector[d] \in {"none", "open"} /\ collector'[d] # "none"
      PROVE  Advances(d)
  BY <1>1, ClosedIsFinal, PromiseStates DEF Advances
<1>2. ASSUME NEW c \in Calls, CallAction(c) PROVE Advances(d)
  <2>1. CASE d = c
    <3>1. collector[c] = "none" /\ results' = results
      BY <1>2 DEF CallAction
    <3>2. \A q : OpenedCollector(q) # "none"
      BY DEF OpenedCollector
    <3>3. collector'[c] # "none"
      BY <1>2, <3>2 DEF CallAction, TypeOK
    <3> QED BY <2>1, <3>1, <3>3, PromiseStates DEF Advances
  <2>2. CASE d # c
    <3>1. UNCHANGED <<request, expected[d], collector[d], results[d]>>
      BY <1>2, <2>2 DEF CallAction, TypeOK
    <3> QED BY <3>1, ClosedIsFinal DEF Advances
  <2> QED BY <2>1, <2>2
<1>3. ASSUME NEW c \in Calls, NEW l \in Listeners, NEW kind \in {"reply", "error"},
             Answered(c, l, kind)
      PROVE  Advances(d)
  <2>1. CASE d = c /\ collector[c] = "open"
    <3>1. \E a \in Answers : results'[d] = Append(results[d], a)
      BY <1>3, <2>1, AnswerEffect
    <3>2. collector'[d] # "none"
      BY <1>3, <2>1, AnswerEffect
    <3> QED BY <2>1, <3>1, <3>2, PromiseStates DEF Advances
  <2>2. CASE ~(d = c /\ collector[c] = "open")
    <3>1. UNCHANGED <<request, expected>>
      BY <1>3 DEF Answered, Answer, callVars
    <3>2. UNCHANGED <<collector[d], results[d]>>
      BY <1>3, <2>2, AnswerEffect
    <3> QED BY <3>1, <3>2, ClosedIsFinal DEF Advances
  <2> QED BY <2>1, <2>2
<1>4. ASSUME NEW l \in Listeners, Register(l) PROVE Advances(d)
  BY <1>1, <1>4 DEF Register, callVars
<1>5. ASSUME NEW c \in Calls, CallUnhandled(c) PROVE Advances(d)
  BY <1>1, <1>5 DEF CallUnhandled, callVars, TypeOK
<1>6. ASSUME NEW c \in Calls, SendEvent(c) PROVE Advances(d)
  BY <1>1, <1>6 DEF SendEvent
<1>7. ASSUME NEW c \in Calls, Expire(c) PROVE Advances(d)
  BY <1>1, <1>7 DEF Expire, callVars, TypeOK
<1>8. ASSUME NEW c \in Calls, NEW l \in Listeners, HandlerReturns(c, l) PROVE Advances(d)
  BY <1>1, <1>8 DEF HandlerReturns, callVars
<1>9. ASSUME CompleteSubjects PROVE Advances(d)
  BY <1>1, <1>9 DEF CompleteSubjects, callVars, TypeOK
<1>10. CASE UNCHANGED vars
  BY <1>1, <1>10 DEF vars, callVars
<1> QED BY <1>2, <1>3, <1>4, <1>5, <1>6, <1>7, <1>8, <1>9, <1>10, AnswerSteps DEF Next

(* Initially no promise has been made and nothing heard.                   *)
LEMMA InitMaps == Init => AP!PromiseInit
BY DEF Init, AP!PromiseInit, PromiseOf

(* Every step of the bus is a step of the promises, or leaves them alone.  *)
LEMMA StepMaps ==
  ASSUME IInv, SettledOnWhatWasHeard', [Next]_vars
  PROVE  [AP!PromiseNext]_AP!promiseVars
<1> SUFFICES ASSUME NEW d \in Calls
             PROVE  AP!Keep(d) \/ AP!Issue(d) \/ AP!Progress(d)
  BY DEF AP!PromiseNext
<1>0. collector'[d] \in {"none", "open"} \/ SettledOn(d)'
  BY DEF SettledOnWhatWasHeard
<1>1. CASE UNCHANGED <<PromiseOf(d), results[d]>>
  BY <1>1 DEF AP!Keep
<1>2. ASSUME collector'[d] # "none"
      PROVE  PromiseOf(d)' = "pending" \/ AP!Settle(d)
  <2>1. CASE collector'[d] = "open"
    BY <2>1 DEF PromiseOf
  <2>2. CASE collector'[d] # "open"
    <3>1. SettledOn(d)'
      BY <1>0, <1>2, <2>2
    <3>2. HasErrorIn(results[d])' <=> AP!HasErrorIn(results'[d])
      BY DEF HasErrorIn, AP!HasErrorIn
    <3> QED BY <3>1, <3>2 DEF SettledOn, AP!Settle
  <2> QED BY <2>1, <2>2
<1>3. CASE /\ PromiseOf(d) = "unsent"
           /\ results'[d] = results[d]
           /\ collector'[d] # "none"
  BY <1>2, <1>3 DEF AP!Issue
<1>4. CASE /\ PromiseOf(d) = "pending"
           /\ \/ results'[d] = results[d]
              \/ \E a \in Answers : results'[d] = Append(results[d], a)
           /\ collector'[d] # "none"
  <2>1. PromiseOf(d)' = "pending" \/ AP!Settle(d)
    BY <1>2, <1>4
  <2>2. CASE \E a \in Answers : results'[d] = Append(results[d], a)
    <3>1. AP!Hear(d)
      BY <2>2 DEF AP!Hear
    <3> QED BY <1>4, <2>1, <3>1 DEF AP!Progress
  <2>3. CASE results'[d] = results[d]
    <3>1. PromiseOf(d)' = "pending" => AP!Keep(d)
      BY <1>4, <2>3 DEF AP!Keep
    <3>2. AP!Settle(d) => AP!Progress(d)
      BY <1>4, <2>3 DEF AP!Progress
    <3> QED BY <2>1, <3>1, <3>2
  <2> QED BY <1>4, <2>2, <2>3
<1> QED BY <1>1, <1>3, <1>4, EveryStepAdvances DEF Advances

(* The promise of emitAction holds for any number of concurrent calls.     *)
THEOREM Implementation == Spec => ImplementsActionPromise
<1>1. Init => AP!PromiseInit
  BY InitMaps
<1>2. IInv => SettledOnWhatWasHeard
  BY Settlement
<1>3. IInv /\ IInv' /\ SettledOnWhatWasHeard' /\ [Next]_vars
        => [AP!PromiseNext]_AP!promiseVars
  BY StepMaps
<1> QED BY <1>1, <1>2, <1>3, Invariance, PTL DEF Spec, ImplementsActionPromise, AP!PromiseSpec
=============================================================================
