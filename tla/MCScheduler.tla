----------------------------- MODULE MCScheduler -----------------------------
(* Four entries, so that two tasks besides the shell and idle are alive at *)
(* once, and two creations more than entries, so that entries are reused.  *)
EXTENDS Scheduler

MCTaskMax == 4
MCQuantum == 2
MCMaxPid  == 6
=============================================================================
