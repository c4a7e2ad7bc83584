----------------------------- MODULE ThymianRun -----------------------------
(***************************************************************************)
(* The lifecycle of one Thymian.run: register every plugin, emit           *)
(* core.ready, run the caller's function, close.  Beside that main path    *)
(* the run subscribes to the errors of the bus, and the first diagnostic   *)
(* of severity "error", or the first failure of the main path, starts a    *)
(* close of its own that ends by rejecting the run.  The two closes are    *)
(* not coordinated: each emits core.close, waits for the bus to idle and   *)
(* completes the subjects they share, and whichever ends first settles     *)
(* the promise.                                                            *)
(*                                                                         *)
(* core.ready and core.close are calls of ThymianEmitter.emitAction, and   *)
(* are used here by what ActionPromise says of them: such a call ends, and *)
(* is rejected only over an error it heard, or (core.ready, which is       *)
(* strict) over hearing nothing.                                           *)
(***************************************************************************)
EXTENDS Naturals, Sequences

CONSTANTS
  NumPlugins,      \* plugins to register, the core plugin included
  MaxDiagnostics   \* bound: error events published on the bus

ASSUME BoundsAssumption == NumPlugins \in Nat /\ MaxDiagnostics \in Nat

(* The two closes: that of the main path and that of tryCloseThymian.      *)
Closers == {"main", "error"}

VARIABLES
  main,         \* what the main path awaits
  registered,   \* plugins registered so far
  closing,      \* closing[w]: where close() of w is
  faulty,       \* faulty[w]: did w's core.close (for "main" before: core.ready) hear an error?
  closed,       \* the flag that lets tryCloseThymian act once
  subscribed,   \* is the run still subscribed to the errors of the bus?
  completed,    \* have the subjects of the bus completed?
  promise,      \* the promise Thymian.run returned
  reason,       \* what tryCloseThymian will reject with
  diagnostics,  \* error events published so far
  causes        \* the causes offered to tryCloseThymian, in order

vars == <<main, registered, closing, faulty, closed, subscribed, completed, promise,
          reason, diagnostics, causes>>

(* Why a run fails: its main path threw, or a numbered diagnostic.         *)
NoCause == [from |-> "nobody", number |-> 0]
MainThrew == [from |-> "main", number |-> 0]
Diagnostic(n) == [from |-> "bus", number |-> n]

Causes == {MainThrew} \cup {Diagnostic(n) : n \in 1 .. MaxDiagnostics}

(* ready() returns at once on a Thymian that is ready already.             *)
Init ==
  /\ \/ main = "registering" /\ registered = 0
     \/ main = "running" /\ registered = NumPlugins
  /\ closing = [w \in Closers |-> "idle"]
  /\ faulty = [w \in Closers |-> FALSE]
  /\ closed = FALSE
  /\ subscribed = TRUE
  /\ completed = FALSE
  /\ promise = "pending"
  /\ reason = NoCause
  /\ diagnostics = 0
  /\ causes = <<>>

-----------------------------------------------------------------------------
(* A wrong tryCloseThymian: every cause starts it anew.                    *)
TryCloseAgain(cause) ==
  /\ causes' = Append(causes, cause)
  /\ closed' = TRUE
  /\ reason' = cause
  /\ closing' = [closing EXCEPT !["error"] = "calling"]

(* tryCloseThymian: the first cause starts the close, later ones are       *)
(* ignored.                                                                *)
TryClose(cause) ==
  /\ causes' = Append(causes, cause)
  /\ IF closed
     THEN UNCHANGED <<closed, reason, closing>>
     ELSE /\ closed' = TRUE
          /\ reason' = cause
          /\ closing' = [closing EXCEPT !["error"] = "calling"]

(* onError: a diagnostic of severity "error" closes the run.               *)
Diagnose(severity) ==
  /\ ~completed
  /\ diagnostics < MaxDiagnostics
  /\ diagnostics' = diagnostics + 1
  /\ IF subscribed /\ severity = "error"
     THEN TryClose(Diagnostic(diagnostics + 1))
     ELSE UNCHANGED <<closed, reason, closing, causes>>

(* The main path throws: it tries to close, and its last act is to         *)
(* unsubscribe from the errors of the bus.                                 *)
MainFails ==
  /\ main' = "failed"
  /\ subscribed' = FALSE
  /\ TryClose(MainThrew)
  /\ UNCHANGED <<registered, faulty, completed, promise, diagnostics>>

-----------------------------------------------------------------------------
(* A plugin or handler reports an error nobody is waiting for.             *)
ErrorEvent(severity) ==
  /\ Diagnose(severity)
  /\ UNCHANGED <<main, registered, faulty, subscribed, completed, promise>>

(* A wrong loop over the plugins: one step too many.                       *)
RegisterOneTooMany ==
  /\ main = "registering"
  /\ registered <= NumPlugins
  /\ registered' = registered + 1
  /\ UNCHANGED <<main, closing, faulty, closed, subscribed, completed, promise, reason,
                 diagnostics, causes>>

(* registerPlugin: the plugin is registered, throws or times out.          *)
RegisterPlugin ==
  /\ main = "registering"
  /\ registered < NumPlugins
  /\ registered' = registered + 1
  /\ UNCHANGED <<main, closing, faulty, closed, subscribed, completed, promise, reason,
                 diagnostics, causes>>

RegistrationFails ==
  /\ main = "registering"
  /\ registered < NumPlugins
  /\ MainFails

(* core.ready is emitted, and a handler may answer it with an error.       *)
EmitReady ==
  /\ main = "registering"
  /\ registered = NumPlugins
  /\ main' = "readying"
  /\ UNCHANGED <<registered, closing, faulty, closed, subscribed, completed, promise,
                 reason, diagnostics, causes>>

ReadyHandlerFails(severity) ==
  /\ main = "readying"
  /\ Diagnose(severity)
  /\ faulty' = [faulty EXCEPT !["main"] = TRUE]
  /\ UNCHANGED <<main, registered, subscribed, completed, promise>>

ReadyFulfilled ==
  /\ main = "readying"
  /\ ~faulty["main"]
  /\ main' = "running"
  /\ UNCHANGED <<registered, closing, faulty, closed, subscribed, completed, promise,
                 reason, diagnostics, causes>>

(* An error was heard, or nothing was.                                     *)
ReadyRejected == main = "readying" /\ MainFails

(* The caller's function returns or throws.                                *)
FnReturns ==
  /\ main = "running"
  /\ main' = "closing"
  /\ closing' = [closing EXCEPT !["main"] = "calling"]
  /\ UNCHANGED <<registered, faulty, closed, subscribed, completed, promise, reason,
                 diagnostics, causes>>

FnThrows == main = "running" /\ MainFails

-----------------------------------------------------------------------------
(* close, for either closer.  A handler of core.close answers with an      *)
(* error, thrown or given.                                                 *)
CloseHandlerFails(w, severity) ==
  /\ closing[w] = "calling"
  /\ Diagnose(severity)
  /\ faulty' = [faulty EXCEPT ![w] = TRUE]
  /\ UNCHANGED <<main, registered, subscribed, completed, promise>>

(* A wrong close that goes on after core.close failed.                     *)
CloseSettlesAnyway(w) ==
  /\ closing[w] = "calling"
  /\ closing' = [closing EXCEPT ![w] = "draining"]
  /\ UNCHANGED <<main, registered, faulty, closed, subscribed, completed, promise,
                 reason, diagnostics, causes>>

(* The call of core.close settles: fulfilled, and the bus is drained, or   *)
(* rejected, and close() throws before it drains or completes anything.    *)
CloseSettles(w) ==
  /\ closing[w] = "calling"
  /\ closing' = [closing EXCEPT ![w] = IF faulty[w] THEN "failed" ELSE "draining"]
  /\ UNCHANGED <<main, registered, faulty, closed, subscribed, completed, promise,
                 reason, diagnostics, causes>>

(* A wrong end of close that leaves the subjects open.                     *)
DrainLeavesOpen(w) ==
  /\ closing[w] = "draining"
  /\ closing' = [closing EXCEPT ![w] = "closed"]
  /\ UNCHANGED <<main, registered, faulty, closed, subscribed, completed, promise,
                 reason, diagnostics, causes>>

(* shutdown saw the bus idle, or waited long enough; completeSubjects.     *)
Drain(w) ==
  /\ closing[w] = "draining"
  /\ closing' = [closing EXCEPT ![w] = "closed"]
  /\ completed' = TRUE
  /\ UNCHANGED <<main, registered, faulty, closed, subscribed, promise, reason,
                 diagnostics, causes>>

(* The first to settle the promise wins.                                   *)
SettleAs(outcome) == promise' = IF promise = "pending" THEN outcome ELSE promise

(* The main path returned: the run resolves and unsubscribes.              *)
MainReturns ==
  /\ main = "closing"
  /\ closing["main"] = "closed"
  /\ main' = "returned"
  /\ SettleAs("resolved")
  /\ subscribed' = FALSE
  /\ UNCHANGED <<registered, closing, faulty, closed, completed, reason, diagnostics,
                 causes>>

(* The close of the main path threw.                                       *)
MainCloseFails ==
  /\ main = "closing"
  /\ closing["main"] = "failed"
  /\ MainFails

(* A wrong tryCloseThymian without a catch for its own close.              *)
RejectIfClosed ==
  /\ closing["error"] = "closed"
  /\ closing' = [closing EXCEPT !["error"] = "over"]
  /\ SettleAs("rejected")
  /\ UNCHANGED <<main, registered, faulty, closed, subscribed, completed, reason,
                 diagnostics, causes>>

(* tryCloseThymian's close ended, well or not: the run rejects.            *)
Reject ==
  /\ closing["error"] \in {"closed", "failed"}
  /\ closing' = [closing EXCEPT !["error"] = "over"]
  /\ SettleAs("rejected")
  /\ UNCHANGED <<main, registered, faulty, closed, subscribed, completed, reason,
                 diagnostics, causes>>

Severities == {"warn", "error"}

Next ==
  \/ RegisterPlugin \/ RegistrationFails \/ EmitReady \/ ReadyFulfilled \/ ReadyRejected
  \/ FnReturns \/ FnThrows \/ MainReturns \/ MainCloseFails \/ Reject
  \/ \E severity \in Severities : ErrorEvent(severity) \/ ReadyHandlerFails(severity)
  \/ \E w \in Closers : CloseSettles(w) \/ Drain(w)
  \/ \E w \in Closers, severity \in Severities : CloseHandlerFails(w, severity)

(* Registration has a timeout, calls of the bus settle (EveryCallSettles), *)
(* draining has a hard limit and continuations run; nothing obliges the    *)
(* caller's function to return.                                            *)
Fairness ==
  /\ WF_vars(RegisterPlugin) /\ WF_vars(EmitReady)
  /\ WF_vars(ReadyFulfilled \/ ReadyRejected)
  /\ WF_vars(MainReturns) /\ WF_vars(MainCloseFails) /\ WF_vars(Reject)
  /\ \A w \in Closers : WF_vars(CloseSettles(w)) /\ WF_vars(Drain(w))

Spec == Init /\ [][Next]_vars
FairSpec == Spec /\ Fairness
-----------------------------------------------------------------------------
(* Type correctness.                                                       *)
TypeOK ==
  /\ main \in {"registering", "readying", "running", "closing", "returned", "failed"}
  /\ registered \in 0 .. NumPlugins
  /\ closing \in [Closers -> {"idle", "calling", "draining", "closed", "failed", "over"}]
  /\ faulty \in [Closers -> BOOLEAN]
  /\ closed \in BOOLEAN /\ subscribed \in BOOLEAN /\ completed \in BOOLEAN
  /\ promise \in {"pending", "resolved", "rejected"}
  /\ reason \in Causes \cup {NoCause}
  /\ diagnostics \in 0 .. MaxDiagnostics
  /\ causes \in Seq(Causes)

(* A failed run reports what went wrong first, not a later consequence of  *)
(* it: the errors that closing provokes never replace the first cause.     *)
RejectsWithFirstCause ==
  promise = "rejected" => causes # <<>> /\ reason = Head(causes)

(* No run settles and leaves the bus alive behind it, except over a        *)
(* core.close handler that answered the rejecting close with an error.     *)
SettledMeansTornDown ==
  promise # "pending" => completed \/ (promise = "rejected" /\ faulty["error"])

(* A run that resolves went all the way: every plugin was registered, no   *)
(* handler of its core.ready or core.close answered with an error, though  *)
(* another close may have been running beside it.                          *)
SuccessIsClean ==
  promise = "resolved" =>
    main = "returned" /\ registered = NumPlugins /\ ~faulty["main"]

(* Once something went wrong or the caller's function returned, the run    *)
(* settles, even if that function hangs and even if closing fails.         *)
RunSettles == closed \/ main = "closing" ~> promise # "pending"

(* What the documentation says of run: the first diagnostic of severity    *)
(* "error" that reaches it closes the run and rejects.                     *)
RejectsOnErrorDiagnostic ==
  (\E i \in DOMAIN causes : causes[i].from = "bus") => promise # "resolved"
=============================================================================
