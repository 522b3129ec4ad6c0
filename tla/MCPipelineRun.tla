---------------------------- MODULE MCPipelineRun ---------------------------
(* The run loop under the default policy.                                  *)
EXTENDS MCDefaultPolicy, PipelineClaims
=============================================================================
