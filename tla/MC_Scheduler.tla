---------------------------- MODULE MC_Scheduler ----------------------------
(* The scheduler with three tasks: one can run, one be held, one be queued.  *)
EXTENDS Scheduler, TLC

Symmetry == Permutations(Tasks) \union Permutations(Fibers)
==============================================================================
