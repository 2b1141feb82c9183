------------------------------ MODULE MCScheduler ------------------------------
(* Instances of Scheduler: two processes of the service and the command line. *)
EXTENDS Scheduler

CONSTANTS s1, s2
===============================================================================
