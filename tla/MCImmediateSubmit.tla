------------------------ MODULE MCImmediateSubmit ------------------------
(* ImmediateSubmit for TLC. *)
EXTENDS ImmediateSubmit
==========================================================================
