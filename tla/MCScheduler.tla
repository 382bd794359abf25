---------------------------- MODULE MCScheduler ----------------------------
(* A kernel with the idle thread and three thread ids for user threads.    *)
EXTENDS Scheduler
=============================================================================
