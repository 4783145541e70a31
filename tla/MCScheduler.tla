---------------------------- MODULE MCScheduler ----------------------------
(* Instances of Scheduler for TLC.                                         *)
EXTENDS Scheduler

CONSTANTS t1, t2, loop1, loop2, caller1, caller2

TwoIds == {t1, t2}
TwoJobs == {[id |-> t1, prio |-> 1], [id |-> t2, prio |-> 0]}
TwoLoops == {loop1, loop2}
TwoCallers == {caller1, caller2}

=============================================================================
