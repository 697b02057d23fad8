--------------------------- MODULE MCScenarioRun ----------------------------
(* One scenario over a list of requests, with the instances of MCPrefill.  *)
EXTENDS ScenarioRun, MCPrefill

=============================================================================
