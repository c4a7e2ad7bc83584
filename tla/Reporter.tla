------------------------------ MODULE Reporter ------------------------------
(***************************************************************************)
(* The reporter plugin: every report emitted is queued at every formatter,  *)
(* whose chain writes one at a time; a close flushes the chains and waits.  *)
(***************************************************************************)
EXTENDS Naturals

CONSTANTS
  Formatters,  \* the configured ones: csv, json, markdown
  MaxCloses,   \* bound on the closes of a session: SIGINT, core.exit, "q"
  MaxReports   \* bound on the reports of a session

ASSUME ReporterAssumption == MaxReports \in Nat /\ MaxCloses \in Nat

\* Closes are numbered as they come.
Closes == 1 .. MaxCloses

VARIABLES
  emitted,  \* reports emitted; each is queued at every formatter at once
  settled,  \* settled[f]: writes of f that ended, in their order
  flush,    \* flush[f]: "none", "waiting" or "landed"
  tail,     \* tail[f]: the length of f's chain its flush waits for
  close,    \* close[i]: "none", "waiting" or "answered"
  owed      \* reports emitted when the first close came (for the property)

reporterVars == <<emitted, settled, flush, tail, close, owed>>

ReporterInit ==
  /\ emitted = 0 /\ settled = [f \in Formatters |-> 0]
  /\ flush = [f \in Formatters |-> "none"] /\ tail = [f \in Formatters |-> 0]
  /\ close = [i \in Closes |-> "none"] /\ owed = 0

\* core.report: nobody awaits the handler; its synchronous part appends a write to
\* every chain.
ReportEmitted ==
  /\ emitted < MaxReports
  /\ emitted' = emitted + 1
  /\ UNCHANGED <<settled, flush, tail, close, owed>>

\* write: however it ends (written, failed and logged, or thrown by the path),
\* the chain goes on.
WriteSettles(f) ==
  /\ settled[f] < emitted
  /\ settled' = [settled EXCEPT ![f] = @ + 1]
  /\ UNCHANGED <<emitted, flush, tail, close, owed>>

\* A wrong flush: only the tail seen on entry counts.
TailOnly(f) ==
  /\ flush[f] = "waiting" /\ settled[f] >= tail[f]
  /\ flush' = [flush EXCEPT ![f] = "landed"]
  /\ UNCHANGED <<emitted, settled, tail, close, owed>>

\* flush: the wait ended; unless the chain grew meanwhile it is drained.
FlushResumes(f) ==
  /\ flush[f] = "waiting" /\ settled[f] >= tail[f]
  /\ IF tail[f] = emitted
     THEN flush' = [flush EXCEPT ![f] = "landed"] /\ UNCHANGED tail
     ELSE tail' = [tail EXCEPT ![f] = emitted] /\ UNCHANGED flush
  /\ UNCHANGED <<emitted, settled, close, owed>>

\* core.close, flushReporters: the first one starts the flush of every formatter,
\* a later one waits for that flush.
AskClose(i) ==
  /\ close[i] = "none" /\ \A j \in 1 .. i - 1 : close[j] # "none"
  /\ close' = [close EXCEPT ![i] = "waiting"]
  /\ IF i = 1
     THEN /\ flush' = [f \in Formatters |-> "waiting"]
          /\ tail' = [f \in Formatters |-> emitted]
          /\ owed' = emitted
     ELSE UNCHANGED <<flush, tail, owed>>
  /\ UNCHANGED <<emitted, settled>>

\* flushAll settles when the flush of every formatter has
Landed == \A f \in Formatters : flush[f] = "landed"

\* A wrong one: a flag instead of the promise, a later close returns at once.
FlagOnly(i) ==
  /\ close[i] = "waiting" /\ (i = 1 => Landed)
  /\ close' = [close EXCEPT ![i] = "answered"]
  /\ UNCHANGED <<emitted, settled, flush, tail, owed>>

\* A wrong one: a later close returns without replying.
AnswerFirst(i) ==
  /\ i = 1 /\ close[i] = "waiting" /\ Landed
  /\ close' = [close EXCEPT ![i] = "answered"]
  /\ UNCHANGED <<emitted, settled, flush, tail, owed>>

\* The flush of a formatter that the plugin ships does not reject (a write that fails
\* is logged), so the failures flushAll collects and throws again are left out.
Answer(i) ==
  /\ close[i] = "waiting" /\ Landed
  /\ close' = [close EXCEPT ![i] = "answered"]
  /\ UNCHANGED <<emitted, settled, flush, tail, owed>>

ReporterNext ==
  \/ \E f \in Formatters : WriteSettles(f) \/ FlushResumes(f)
  \/ \E i \in Closes : AskClose(i) \/ Answer(i)

\* Writes end and waits resume: the promises of the runtime settle.
ReporterFairness ==
  /\ \A f \in Formatters : WF_reporterVars(WriteSettles(f)) /\ WF_reporterVars(FlushResumes(f))
  /\ \A i \in Closes : WF_reporterVars(Answer(i))

-----------------------------------------------------------------------------
ReporterTypeOK ==
  /\ emitted \in 0 .. MaxReports /\ owed \in 0 .. emitted
  /\ settled \in [Formatters -> 0 .. emitted] /\ tail \in [Formatters -> 0 .. emitted]
  /\ flush \in [Formatters -> {"none", "waiting", "landed"}]
  /\ close \in [Closes -> {"none", "waiting", "answered"}]

\* CloseAfterReports: when a close is answered, the first or any later one, every
\* report emitted before the first of them was asked has been dealt with by every
\* formatter: the process may exit.
CloseAfterReports ==
  \A i \in Closes : close[i] = "answered" =>
    \A f \in Formatters : settled[f] >= owed

\* FlushDrains: the flush of a formatter never ends while a report is queued there,
\* one emitted by a workflow that finished during the flush included.
FlushDrains ==
  [][\A f \in Formatters : flush'[f] = "landed" /\ flush[f] # "landed"
       => settled[f] = emitted]_reporterVars

\* ClosesAnswered: every close is answered in the end.
ClosesAnswered == \A i \in Closes : close[i] # "none" ~> close[i] = "answered"
=============================================================================
