---------------------------- MODULE MCScheduler ----------------------------
(* SyncScheduler with a handful of intervals, zero among the arguments.     *)
EXTENDS SyncScheduler

SomeIntervals == {0, 2, 4}
=============================================================================
