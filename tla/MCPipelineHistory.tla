-------------------------- MODULE MCPipelineHistory -------------------------
(* The run loop with its history under the default policy.                 *)
EXTENDS MCDefaultPolicy, PipelineHistory
=============================================================================
