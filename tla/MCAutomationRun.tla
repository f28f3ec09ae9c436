-------------------------- MODULE MCAutomationRun --------------------------
(* An instance of AutomationRun: every event with few actions, of any kind.   *)
EXTENDS AutomationRun
============================================================================
