-------------------------- MODULE MCPipelineFactory --------------------------
(* PipelineFactory for TLC: the shapes of the characteristics. *)
EXTENDS PipelineFactory

Shapes == <<1, 3, 2, 2>>
OneTwo == <<1, 2>>
==============================================================================
