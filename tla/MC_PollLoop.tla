----------------------------- MODULE MC_PollLoop -----------------------------
(* Instances of PollLoop: a loop with timers, a descriptor and an awaker, and  *)
(* one whose handlers stop timers that are due.                                *)
EXTENDS PollLoop, TLC

IntervalSet == {-1, 0, 2}
==============================================================================
