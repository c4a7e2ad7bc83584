------------------------------ MODULE Session ------------------------------
(***************************************************************************)
(* A session of thymian serve: workflows run one after another, each emits *)
(* its report to the reporter, and closes come at any time.                *)
(***************************************************************************)
EXTENDS RuleWorkflow, Reporter

vars == <<workflowVars, reporterVars>>

Init == WorkflowInit /\ ReporterInit

Workflow ==
  \/ \E library \in Libraries, userConfig \in Configs, threshold \in Severities :
       \/ \E m \in Modes : Start(m, library, userConfig, threshold)
       \/ StartFails(library, userConfig, threshold)
  \/ \E l \in loaded : RunRule(l.rule)
  \/ Validates \/ ValidatesGroups \/ TestsPipeline \/ InspectsPipeline
  \/ RuleReturns \/ RuleThrows \/ Replies \/ ReplyFails

\* finalizeWorkflow emits core.report
Report == Finalize /\ ReportEmitted

Next ==
  \/ Workflow /\ UNCHANGED reporterVars
  \/ ReporterNext /\ UNCHANGED workflowVars
  \/ Report

Spec == Init /\ [][Next]_vars /\ ReporterFairness

TypeOK == WorkflowTypeOK /\ ReporterTypeOK
=============================================================================
