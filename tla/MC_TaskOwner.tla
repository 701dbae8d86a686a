---------------------------- MODULE MC_TaskOwner ----------------------------
(* Two owners, two tasks and the root context: tasks that stop each other's   *)
(* owners or their own, and the root that stops an owner of both.             *)
EXTENDS TaskOwner

CONSTANT t1

Stopping == [calls |-> {"stop", "stopNoWait", "destroy"}, reowns |-> {}]
Flushing == [calls |-> {"flush", "flushNoWait", "wait", "destroy"}, reowns |-> {t1}]
Passing  == [calls |-> {"stopNoWait", "wait"}, reowns |-> {t1}]
ThreePrograms == {Stopping, Flushing, Passing}
=============================================================================
