---------------------------- MODULE MCScheduler ----------------------------
(***************************************************************************)
(* Scheduler on small instances, with the history variable of SchedulerStop. *)
(***************************************************************************)
EXTENDS SchedulerStop
============================================================================
