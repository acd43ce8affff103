----------------------- MODULE MCSemaphoreWatcher -----------------------
(* SemaphoreWatcher for TLC. *)
EXTENDS SemaphoreWatcher
==========================================================================
