--------------------------- MODULE MCPipelineCaches ---------------------------
(* PipelineCaches for TLC: the configurations give the number of windows with the
   same pipeline_cache_name, and of the factories of each. *)
EXTENDS PipelineCaches
===============================================================================
