--------------------------- MODULE MCFrameSync ---------------------------
(* FrameSync for TLC. *)
EXTENDS FrameSync
==========================================================================
