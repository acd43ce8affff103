---------------------------- MODULE MCRenderLoop ----------------------------
\* RenderLoop for TLC.  Every set is finite as it stands: no counter is bound.
EXTENDS RenderLoop
=============================================================================
