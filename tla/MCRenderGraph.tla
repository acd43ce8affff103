---------------------------- MODULE MCRenderGraph ----------------------------
EXTENDS RenderGraph
================================================================================
