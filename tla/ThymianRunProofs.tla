-------------------------- MODULE ThymianRunProofs --------------------------
(***************************************************************************)
(* Proofs about ThymianRun, for any number of plugins and diagnostics.     *)
(***************************************************************************)
EXTENDS ThymianRun, TLAPS

(* The rejecting close starts once, with the first cause.                  *)
FirstCause ==
  /\ closed <=> closing["error"] # "idle"
  /\ closed <=> causes # <<>>
  /\ closed => reason = Head(causes)

(* How far a close got says what it left behind.                           *)
CloseProgress ==
  /\ \A w \in Closers :
       /\ closing[w] = "closed" => completed
       /\ closing[w] = "failed" => faulty[w]
  /\ closing["error"] = "over" => completed \/ faulty["error"]
  /\ closing["main"] # "over"

(* The close of the main path starts after its function returned, and goes *)
(* beyond core.close only if no handler failed.                            *)
MainProgress ==
  /\ main # "registering" /\ main # "failed" => registered = NumPlugins
  /\ main = "running" => ~faulty["main"]
  /\ main \in {"registering", "readying", "running"} => closing["main"] = "idle"
  /\ closing["main"] \in {"draining", "closed"} => ~faulty["main"]
  /\ main = "returned" => closing["main"] = "closed"

Settlement ==
  /\ promise = "resolved" => main = "returned"
  /\ promise = "rejected" => closing["error"] = "over"

(* The inductive invariant: what the promise says follows from how far the *)
(* two closes got, and that from the stages they went through.             *)
IInv == TypeOK /\ FirstCause /\ CloseProgress /\ MainProgress /\ Settlement
-----------------------------------------------------------------------------
LEMMA InitIInv == Init => IInv
<1> SUFFICES ASSUME Init PROVE IInv
  OBVIOUS
<1>1. TypeOK
  <2>1. causes \in Seq(Causes)
    BY DEF Init
  <2>2. /\ closing \in [Closers -> {"idle", "calling", "draining", "closed", "failed", "over"}]
        /\ faulty \in [Closers -> BOOLEAN]
    BY DEF Init
  <2>3. registered \in 0 .. NumPlugins /\ diagnostics \in 0 .. MaxDiagnostics
    BY BoundsAssumption DEF Init
  <2> QED BY <2>1, <2>2, <2>3 DEF Init, TypeOK
<1>2. FirstCause /\ CloseProgress /\ MainProgress /\ Settlement
  BY DEF Init, FirstCause, CloseProgress, MainProgress, Settlement, Closers
<1> QED BY <1>1, <1>2 DEF IInv

(* What tryCloseThymian does, in the terms of the invariant.               *)
LEMMA TryCloseEffect ==
  ASSUME IInv, NEW cause \in Causes, TryClose(cause)
  PROVE  /\ closing' \in [Closers -> {"idle", "calling", "draining", "closed", "failed", "over"}]
         /\ closed' \in BOOLEAN
         /\ reason' \in Causes \cup {NoCause}
         /\ causes' \in Seq(Causes)
         /\ FirstCause'
         /\ closing'["main"] = closing["main"]
         /\ \/ closing'["error"] = closing["error"]
            \/ closing["error"] = "idle" /\ closing'["error"] = "calling"
<1> USE DEF IInv, TypeOK, Closers
<1>0. causes \in Seq(Causes) /\ causes' = Append(causes, cause)
  BY DEF TryClose
<1>1. /\ causes' \in Seq(Causes)
      /\ causes' # <<>>
      /\ Head(causes') = IF causes = <<>> THEN cause ELSE Head(causes)
  BY <1>0
<1>2. CASE closed
  <2>1. UNCHANGED <<closed, reason, closing>>
    BY <1>2 DEF TryClose
  <2>2. FirstCause'
    BY <1>1, <1>2, <2>1 DEF FirstCause
  <2> QED BY <1>1, <2>1, <2>2
<1>3. CASE ~closed
  BY <1>1, <1>3 DEF TryClose, FirstCause
<1> QED BY <1>2, <1>3

(* A diagnostic either is nothing to the run or is a cause to close it.    *)
LEMMA DiagnoseEffect ==
  ASSUME IInv, NEW severity, Diagnose(severity)
  PROVE  /\ diagnostics' \in 0 .. MaxDiagnostics
         /\ \/ UNCHANGED <<closed, reason, closing, causes>>
            \/ \E cause \in Causes : TryClose(cause)
<1>1. diagnostics \in 0 .. MaxDiagnostics /\ MaxDiagnostics \in Nat
  BY BoundsAssumption DEF IInv, TypeOK
<1>2. diagnostics' \in 0 .. MaxDiagnostics /\ diagnostics + 1 \in 1 .. MaxDiagnostics
  BY <1>1 DEF Diagnose
<1>3. Diagnostic(diagnostics + 1) \in Causes
  BY <1>2 DEF Causes
<1> QED BY <1>2, <1>3 DEF Diagnose
LEMMA StepIInv == IInv /\ [Next]_vars => IInv'
<1> SUFFICES ASSUME IInv, [Next]_vars PROVE IInv'
  OBVIOUS
<1> DEFINE Rest == CloseProgress /\ MainProgress /\ Settlement
<1>0. TypeOK /\ FirstCause /\ Rest /\ BoundsAssumption
  BY BoundsAssumption DEF IInv
<1>1. ASSUME NEW severity \in Severities, ErrorEvent(severity) PROVE IInv'
  <2>1. Diagnose(severity)
    BY <1>1 DEF ErrorEvent
  <2> USE <1>0, <1>1, <2>1, DiagnoseEffect
      DEF ErrorEvent, IInv, TypeOK, CloseProgress, MainProgress, Settlement, Closers
  <2>2. CASE UNCHANGED <<closed, reason, closing, causes>>
    BY <2>2 DEF FirstCause
  <2>3. ASSUME NEW cause \in Causes, TryClose(cause) PROVE IInv'
    BY <2>3, TryCloseEffect
  <2> QED BY <2>2, <2>3
<1>2. ASSUME NEW severity \in Severities, ReadyHandlerFails(severity) PROVE IInv'
  <2>1. Diagnose(severity)
    BY <1>2 DEF ReadyHandlerFails
  <2> USE <1>0, <1>2, <2>1, DiagnoseEffect
      DEF ReadyHandlerFails, IInv, TypeOK, CloseProgress, MainProgress, Settlement, Closers
  <2>2. CASE UNCHANGED <<closed, reason, closing, causes>>
    BY <2>2 DEF FirstCause
  <2>3. ASSUME NEW cause \in Causes, TryClose(cause) PROVE IInv'
    BY <2>3, TryCloseEffect
  <2> QED BY <2>2, <2>3
<1>3. ASSUME NEW w \in Closers, NEW severity \in Severities, CloseHandlerFails(w, severity)
      PROVE  IInv'
  <2>1. Diagnose(severity)
    BY <1>3 DEF CloseHandlerFails
  <2> USE <1>0, <1>3, <2>1, DiagnoseEffect
      DEF CloseHandlerFails, IInv, TypeOK, CloseProgress, MainProgress, Settlement, Closers
  <2>2. CASE UNCHANGED <<closed, reason, closing, causes>>
    BY <2>2 DEF FirstCause
  <2>3. ASSUME NEW cause \in Causes, TryClose(cause) PROVE IInv'
    BY <2>3, TryCloseEffect
  <2> QED BY <2>2, <2>3
<1>4. ASSUME MainFails, main \in {"registering", "readying", "running"} \/ closing["main"] = "failed"
      PROVE  IInv'
  <2>1. TryClose(MainThrew) /\ MainThrew \in Causes
    BY <1>4 DEF MainFails, Causes
  <2> QED
    BY <1>0, <1>4, <2>1, TryCloseEffect
    DEF MainFails, IInv, TypeOK, CloseProgress, MainProgress, Settlement, Closers
<1>5. ASSUME RegisterPlugin PROVE IInv'
  BY <1>0, <1>5 DEF RegisterPlugin, IInv, TypeOK, FirstCause, CloseProgress, MainProgress,
                    Settlement
<1>6. ASSUME EmitReady PROVE IInv'
  BY <1>0, <1>6 DEF EmitReady, IInv, TypeOK, FirstCause, CloseProgress, MainProgress,
                    Settlement
<1>7. ASSUME ReadyFulfilled PROVE IInv'
  BY <1>0, <1>7 DEF ReadyFulfilled, IInv, TypeOK, FirstCause, CloseProgress, MainProgress,
                    Settlement
<1>8. ASSUME FnReturns PROVE IInv'
  BY <1>0, <1>8 DEF FnReturns, IInv, TypeOK, FirstCause, CloseProgress, MainProgress,
                    Settlement, Closers
<1>9. ASSUME NEW w \in Closers, CloseSettles(w) PROVE IInv'
  BY <1>0, <1>9 DEF CloseSettles, IInv, TypeOK, FirstCause, CloseProgress, MainProgress,
                    Settlement, Closers
<1>10. ASSUME NEW w \in Closers, Drain(w) PROVE IInv'
  BY <1>0, <1>10 DEF Drain, IInv, TypeOK, FirstCause, CloseProgress, MainProgress,
                     Settlement, Closers
<1>11. ASSUME MainReturns PROVE IInv'
  BY <1>0, <1>11 DEF MainReturns, SettleAs, IInv, TypeOK, FirstCause, CloseProgress,
                     MainProgress, Settlement
<1>12. ASSUME Reject PROVE IInv'
  BY <1>0, <1>12 DEF Reject, SettleAs, IInv, TypeOK, FirstCause, CloseProgress,
                     MainProgress, Settlement, Closers
<1>13. CASE UNCHANGED vars
  BY <1>0, <1>13 DEF vars, IInv, TypeOK, FirstCause, CloseProgress, MainProgress, Settlement
<1>14. RegistrationFails \/ ReadyRejected \/ FnThrows \/ MainCloseFails => IInv'
  BY <1>4 DEF RegistrationFails, ReadyRejected, FnThrows, MainCloseFails
<1> QED
  BY <1>1, <1>2, <1>3, <1>5, <1>6, <1>7, <1>8, <1>9, <1>10, <1>11, <1>12, <1>13, <1>14
  DEF Next

LEMMA Invariance == Spec => []IInv
<1> QED BY InitIInv, StepIInv, PTL DEF Spec

-----------------------------------------------------------------------------
(* The run keeps its types, for any number of plugins and diagnostics.     *)
THEOREM TypeCorrect == Spec => []TypeOK
<1>1. IInv => TypeOK
  BY DEF IInv
<1> QED BY <1>1, Invariance, PTL

(* A rejected run tells the caller what went wrong first.                  *)
THEOREM FirstCauseWins == Spec => []RejectsWithFirstCause
<1>1. IInv => RejectsWithFirstCause
  BY DEF IInv, Settlement, FirstCause, RejectsWithFirstCause
<1> QED BY <1>1, Invariance, PTL

(* A settled run has torn the bus down, unless its rejecting close failed. *)
THEOREM TornDown == Spec => []SettledMeansTornDown
<1>1. IInv => SettledMeansTornDown
  BY DEF IInv, TypeOK, Settlement, MainProgress, CloseProgress, SettledMeansTornDown, Closers
<1> QED BY <1>1, Invariance, PTL

(* A resolved run went all the way, with no failed handler on the way.     *)
THEOREM CleanSuccess == Spec => []SuccessIsClean
<1>1. IInv => SuccessIsClean
  BY DEF IInv, Settlement, MainProgress, SuccessIsClean
<1> QED BY <1>1, Invariance, PTL

-----------------------------------------------------------------------------
(* What liveness rests on.  A close on its way has a step to take whatever *)
(* handlers do: its call settles, its drain ends, or who waits for it goes *)
(* on.                                                                     *)
OnItsWay(w) == closing[w] \in {"calling", "draining", "closed", "failed"}

SettlingIsUnderWay ==
  (closed \/ main = "closing") /\ promise = "pending" =>
    (main = "closing" /\ OnItsWay("main")) \/ OnItsWay("error")

(* A main path that ended left somebody to settle the promise, or settled  *)
(* it.                                                                     *)
Handover ==
  /\ main = "closing" => OnItsWay("main")
  /\ main = "failed" => closed
  /\ main = "returned" \/ closing["error"] = "over" => promise # "pending"

LEMMA HandoverStep ==
  ASSUME IInv, Handover, [Next]_vars
  PROVE  Handover'
<1> USE DEF Handover, OnItsWay, Closers
<1>0. /\ promise \in {"pending", "resolved", "rejected"}
      /\ closing \in [Closers -> {"idle", "calling", "draining", "closed", "failed", "over"}]
  BY DEF IInv, TypeOK
<1>1. ASSUME NEW cause \in Causes, TryClose(cause)
      PROVE  /\ closing'["main"] = closing["main"] /\ closed'
             /\ closing'["error"] = "over" <=> closing["error"] = "over"
  BY <1>0, <1>1 DEF TryClose, IInv, FirstCause
<1>2. ASSUME NEW severity, Diagnose(severity), UNCHANGED <<main, promise>> PROVE Handover'
  <2>1. CASE UNCHANGED <<closed, reason, closing, causes>>
    BY <1>2, <2>1
  <2>2. ASSUME NEW cause \in Causes, TryClose(cause) PROVE Handover'
    BY <1>1, <1>2, <2>2
  <2> QED BY <1>2, <2>1, <2>2, DiagnoseEffect
<1>3. ASSUME MainFails PROVE Handover'
  <2>1. TryClose(MainThrew) /\ MainThrew \in Causes
    BY <1>3 DEF MainFails, Causes
  <2> QED BY <1>1, <1>3, <2>1 DEF MainFails
<1>4. CASE \/ RegisterPlugin \/ EmitReady \/ ReadyFulfilled \/ FnReturns
  BY <1>0, <1>4 DEF RegisterPlugin, EmitReady, ReadyFulfilled, FnReturns
<1>5. ASSUME NEW w \in Closers, CloseSettles(w) \/ Drain(w) PROVE Handover'
  BY <1>0, <1>5 DEF CloseSettles, Drain
<1>6. CASE MainReturns \/ Reject
  BY <1>0, <1>6 DEF MainReturns, Reject, SettleAs
<1>7. CASE RegistrationFails \/ ReadyRejected \/ FnThrows \/ MainCloseFails
  BY <1>3, <1>7 DEF RegistrationFails, ReadyRejected, FnThrows, MainCloseFails
<1>8. CASE \E severity \in Severities :
             \/ ErrorEvent(severity) \/ ReadyHandlerFails(severity)
             \/ \E w \in Closers : CloseHandlerFails(w, severity)
  BY <1>2, <1>8 DEF ErrorEvent, ReadyHandlerFails, CloseHandlerFails
<1>9. CASE UNCHANGED vars
  BY <1>9 DEF vars
<1> QED BY <1>4, <1>5, <1>6, <1>7, <1>8, <1>9 DEF Next

(* From the moment something went wrong or the caller's function returned, *)
(* and until the promise settles, one of the two closes can take a step    *)
(* that no handler, plugin or caller has to allow.                         *)
THEOREM SettlingUnderWay == Spec => []SettlingIsUnderWay
<1>1. Init => Handover
  BY DEF Init, Handover, Closers
<1>2. Spec => []Handover
  BY <1>1, HandoverStep, Invariance, PTL DEF Spec
<1>3. IInv /\ Handover => SettlingIsUnderWay
  BY DEF IInv, TypeOK, FirstCause, Handover, SettlingIsUnderWay, OnItsWay, Closers
<1> QED BY <1>2, <1>3, Invariance, PTL

(* No cause is dropped: from the first one on, and until the promise       *)
(* settles, the close that will reject with it is on its way.  So where a  *)
(* run resolves in spite of a diagnostic (RejectsOnErrorDiagnostic), the   *)
(* close of its main path, begun before or after it, overtook that close.  *)
CauseIsPursued == closed /\ promise = "pending" => OnItsWay("error")

Overtakes ==
  [][promise = "pending" /\ promise' = "resolved" =>
       /\ closing["main"] = "closed"
       /\ closed => OnItsWay("error")]_vars

THEOREM CausePursued == Spec => []CauseIsPursued
<1>1. Init => Handover
  BY DEF Init, Handover, Closers
<1>2. Spec => []Handover
  BY <1>1, HandoverStep, Invariance, PTL DEF Spec
<1>3. IInv /\ Handover => CauseIsPursued
  BY DEF IInv, TypeOK, FirstCause, Handover, CauseIsPursued, OnItsWay, Closers
<1> QED BY <1>2, <1>3, Invariance, PTL

THEOREM SuccessOvertakes == Spec => Overtakes
<1>1. ASSUME IInv, CauseIsPursued, Next, promise = "pending", promise' = "resolved"
      PROVE  closing["main"] = "closed" /\ (closed => OnItsWay("error"))
  <2>1. MainReturns
    <3>1. ASSUME NEW severity, Diagnose(severity), UNCHANGED promise PROVE FALSE
      BY <1>1, <3>1
    <3> QED
      BY <1>1, <3>1
      DEF Next, RegisterPlugin, RegistrationFails, EmitReady, ReadyFulfilled, ReadyRejected,
          FnReturns, FnThrows, MainFails, MainCloseFails, Reject, SettleAs, ErrorEvent,
          ReadyHandlerFails, CloseSettles, Drain, CloseHandlerFails
  <2> QED BY <1>1, <2>1 DEF MainReturns, CauseIsPursued
<1>2. IInv /\ CauseIsPursued /\ [Next]_vars =>
        [promise = "pending" /\ promise' = "resolved" =>
           /\ closing["main"] = "closed"
           /\ closed => OnItsWay("error")]_vars
  BY <1>1
<1> QED BY <1>2, CausePursued, Invariance, PTL DEF Spec, Overtakes

-----------------------------------------------------------------------------
(* How far a run has come: the plugins registered, and the stages its main *)
(* path and its two closes have gone through.                              *)
MainStage == [registering |-> 0, readying |-> 1, running |-> 2, closing |-> 3,
              returned |-> 4, failed |-> 4]

CloseStage == [idle |-> 0, calling |-> 1, draining |-> 2, closed |-> 3, failed |-> 3,
               over |-> 4]

Progress ==
  registered + MainStage[main] + CloseStage[closing["main"]] + CloseStage[closing["error"]]

(* No step takes a run back, and every step but a diagnostic takes it on:  *)
(* nothing is retried, reopened or closed again.                           *)
GoesForward ==
  [][/\ Progress' >= Progress
     /\ diagnostics' = diagnostics => Progress' > Progress]_vars

(* So it has a bounded number of steps to take, however many diagnostics   *)
(* come in between.                                                        *)
ProgressIsBounded == Progress \in 0 .. NumPlugins + 12

LEMMA StagesType ==
  ASSUME IInv
  PROVE  /\ registered \in 0 .. NumPlugins
         /\ MainStage[main] \in 0 .. 4
         /\ \A w \in Closers : CloseStage[closing[w]] \in 0 .. 4
BY DEF IInv, TypeOK, MainStage, CloseStage

LEMMA ForwardStep ==
  ASSUME IInv, IInv', Next
  PROVE  /\ Progress' >= Progress
         /\ diagnostics' = diagnostics => Progress' > Progress
<1> DEFINE m == MainStage[main]
           e == CloseStage[closing["error"]]
           k == CloseStage[closing["main"]]
<1>a. /\ registered \in 0 .. NumPlugins /\ m \in 0 .. 4 /\ e \in 0 .. 4 /\ k \in 0 .. 4
      /\ diagnostics \in 0 .. MaxDiagnostics
      /\ closing \in [Closers -> {"idle", "calling", "draining", "closed", "failed", "over"}]
  BY StagesType DEF IInv, TypeOK, Closers
<1>b. /\ registered' \in 0 .. NumPlugins
      /\ main' \in {"registering", "readying", "running", "closing", "returned", "failed"}
      /\ closing' \in [Closers -> {"idle", "calling", "draining", "closed", "failed", "over"}]
  BY DEF IInv, TypeOK
<1>c. m' \in 0 .. 4 /\ e' \in 0 .. 4 /\ k' \in 0 .. 4
  BY <1>b DEF MainStage, CloseStage, Closers
<1>0. /\ registered \in Nat /\ m \in Nat /\ e \in Nat /\ k \in Nat
      /\ registered' \in Nat /\ m' \in Nat /\ e' \in Nat /\ k' \in Nat
      /\ diagnostics \in Nat
      /\ closing \in [Closers -> {"idle", "calling", "draining", "closed", "failed", "over"}]
  <2> HIDE DEF m, e, k
  <2> QED BY <1>a, <1>b, <1>c, BoundsAssumption
<1>1. ASSUME NEW cause \in Causes, TryClose(cause)
      PROVE  k' = k /\ e' >= e
  BY <1>0, <1>1, TryCloseEffect DEF CloseStage
<1>2. ASSUME NEW severity, Diagnose(severity), UNCHANGED <<main, registered>>
      PROVE  Progress' >= Progress /\ diagnostics' # diagnostics
  <2>1. diagnostics' # diagnostics
    BY <1>0, <1>2 DEF Diagnose
  <2>2. k' = k /\ e' >= e
    BY <1>0, <1>1, <1>2, DiagnoseEffect
  <2> QED BY <1>0, <1>2, <2>1, <2>2 DEF Progress
<1>3. ASSUME MainFails, main \in {"registering", "readying", "running", "closing"}
      PROVE  Progress' > Progress
  <2>1. TryClose(MainThrew) /\ MainThrew \in Causes
    BY <1>3 DEF MainFails, Causes
  <2>2. m' > m /\ registered' = registered
    BY <1>3 DEF MainFails, MainStage
  <2>3. k' = k /\ e' >= e
    BY <1>1, <2>1
  <2> HIDE DEF m, k, e
  <2> QED BY <1>0, <2>2, <2>3 DEF Progress, m, k, e
<1>4. CASE RegisterPlugin
  BY <1>0, <1>4 DEF RegisterPlugin, Progress
<1>5. CASE EmitReady \/ ReadyFulfilled
  BY <1>0, <1>5 DEF EmitReady, ReadyFulfilled, Progress, MainStage
<1>6. CASE FnReturns
  BY <1>0, <1>6 DEF FnReturns, Progress, MainStage, CloseStage, IInv, MainProgress, Closers
<1>7. ASSUME NEW w \in Closers, CloseSettles(w) \/ Drain(w) PROVE Progress' > Progress
  BY <1>0, <1>7 DEF CloseSettles, Drain, Progress, CloseStage, Closers
<1>8. CASE MainReturns
  BY <1>0, <1>8 DEF MainReturns, Progress, MainStage
<1>9. CASE Reject
  BY <1>0, <1>9 DEF Reject, Progress, CloseStage, Closers
<1>13. Progress' > Progress => Progress' >= Progress
  <2>1. Progress \in Nat /\ Progress' \in Nat
    BY <1>0 DEF Progress
  <2> HIDE DEF m, e, k
  <2> QED BY <2>1
<1>10. CASE RegistrationFails \/ ReadyRejected \/ FnThrows \/ MainCloseFails
  <2>1. MainFails /\ main \in {"registering", "readying", "running", "closing"}
    BY <1>10 DEF RegistrationFails, ReadyRejected, FnThrows, MainCloseFails
  <2>2. Progress' > Progress
    BY <1>3, <2>1
  <2> QED BY <1>13, <2>2
<1>11. CASE \E severity \in Severities :
              \/ ErrorEvent(severity) \/ ReadyHandlerFails(severity)
              \/ \E w \in Closers : CloseHandlerFails(w, severity)
  BY <1>2, <1>11 DEF ErrorEvent, ReadyHandlerFails, CloseHandlerFails
<1> QED BY <1>4, <1>5, <1>6, <1>7, <1>8, <1>9, <1>10, <1>11, <1>13 DEF Next

(* The measure of a run's termination: it never decreases, and only        *)
(* diagnostics leave it as it is.                                          *)
THEOREM Forward == Spec => GoesForward
<1>1. IInv /\ IInv' /\ [Next]_vars =>
        [/\ Progress' >= Progress
         /\ diagnostics' = diagnostics => Progress' > Progress]_vars
  BY ForwardStep
<1> QED BY <1>1, Invariance, PTL DEF Spec, GoesForward

(* It is bounded by the number of plugins.                                 *)
THEOREM BoundedProgress == Spec => []ProgressIsBounded
<1>1. IInv => ProgressIsBounded
  BY BoundsAssumption, StagesType DEF ProgressIsBounded, Progress, Closers
<1> QED BY <1>1, Invariance, PTL
=============================================================================
