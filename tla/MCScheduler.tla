------------------------------ MODULE MCScheduler ------------------------------
(* A small instance of Scheduler for TLC, with more events than ids, so that *)
(* the id counter wraps around while older events are still pending.         *)
EXTENDS Scheduler
CONSTANTS t1, t2, t3
MCTask == {t1, t2, t3}
===============================================================================
