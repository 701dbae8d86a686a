------------------------------ MODULE Scheduler ------------------------------
(***************************************************************************)
(* The fiber scheduler of core/cmt: one thread, a root context and a pool  *)
(* of fibers.  A task is bound to a fiber when it is first dequeued; the   *)
(* fiber goes back to the empty list when the task's body has returned.    *)
(* Every switch is made by the running context itself.                     *)
(*                                                                         *)
(* Fibers are listed by the scheduler, tasks keep the state.  _hold is a   *)
(* set here: the scheduler never looks at the order of held fibers.        *)
(*                                                                         *)
(* An operator named Bad<Definition> is that definition with a slip a      *)
(* maintainer could make; nothing uses it but the mutation checks.         *)
(***************************************************************************)
EXTENDS Sequences, SequencesExt

CONSTANTS
  Tasks,     (* the task bodies that can be spawned                          *)
  Fibers,    (* the fibers that can be allocated                             *)
  NoTask,    (* null task::Body*                                             *)
  NoFiber    (* null ctx::Fiber*: the root context runs                      *)

ASSUME NullAssumption == NoTask \notin Tasks /\ NoFiber \notin Fibers

VARIABLES
  state,          (* Body::_state, with unborn and dead around its life      *)
  stopRequested,  (* Body::_stopRequested                                    *)
  called,         (* the body was entered: callAndDestroy passed call = true *)
  fiberOf,        (* Body::_fiber                                            *)
  taskOf,         (* Fiber::_task                                            *)
  fresh,          (* fibers that Fiber::alloc has not returned yet           *)
  current,        (* Scheduler::_currentFiber                                *)
  root,           (* what the root context is doing below the fibers         *)
  spawned,        (* _spawnedTasks                                           *)
  ready4Stop,     (* _ready4Stop                                             *)
  ready,          (* _ready                                                  *)
  low,            (* _readyLowPriority                                       *)
  hold,           (* _hold                                                   *)
  empty           (* _empty                                                  *)

lists  == <<spawned, ready4Stop, ready, low, hold, empty>>
bind   == <<fiberOf, taskOf, fresh>>
vars   == <<state, stopRequested, called, fiberOf, taskOf, fresh, current, root,
            spawned, ready4Stop, ready, low, hold, empty>>

Queued    == {"ready4Stop", "ready", "readyLowPriority"}
TaskState == {"unborn", "null", "work", "hold", "dead"} \union Queued
RootState == {"idle", "execute", "switchTo"}

-----------------------------------------------------------------------------
CurrentTask == IF current = NoFiber THEN NoTask ELSE taskOf[current]

(* User code runs on a fiber whose body was entered, or on the root context *)
(* outside of executeReadyFibers and switchTo.                              *)
UserCode == IF current = NoFiber THEN root = "idle" ELSE called[CurrentTask]

NothingReady == /\ ready4Stop = <<>>
                /\ ready = <<>>
                /\ spawned = <<>>
                /\ low = <<>>

-----------------------------------------------------------------------------
(* dequeueReadyFiber.  `by' says who gives the processor away: a task that  *)
(* yields is appended to _readyLowPriority after the dequeue, one that ends *)
(* has its fiber appended to _empty before it.                              *)

Parked(by)      == CASE by = "yield" -> "readyLowPriority"
                     [] by = "hold"  -> "hold"
                     [] by = "end"   -> "dead"

(* slip: pushFront instead of pushBack.                                     *)
BadLowAfter(by, l) == IF by = "yield" THEN <<current>> \o l ELSE l

LowAfter(by, l) == IF by = "yield" THEN Append(l, current) ELSE l
EmptyNow(by)    == IF by = "end" THEN Append(empty, current) ELSE empty
HoldNow(by)     == IF by = "hold" THEN hold \union {current} ELSE hold

(* The state changes of a switch from the current context to task t.        *)
SwitchState(by, t) ==
  state' = [s \in Tasks |-> IF s = t THEN "work"
                            ELSE IF s = CurrentTask THEN Parked(by)
                            ELSE state[s]]

(* The task that ended no longer has a fiber; its fiber has no task.        *)
Unbound(by) == IF by = "end" THEN [taskOf EXCEPT ![current] = NoTask] ELSE taskOf

RunReady4Stop(by) ==
  /\ ready4Stop # <<>>
  /\ ready4Stop' = Tail(ready4Stop)
  /\ current' = Head(ready4Stop)
  /\ SwitchState(by, taskOf[Head(ready4Stop)])
  /\ low' = LowAfter(by, low) /\ empty' = EmptyNow(by) /\ hold' = HoldNow(by)
  /\ taskOf' = Unbound(by)
  /\ UNCHANGED <<ready, spawned, called, fiberOf, fresh>>

(* slip: stopping tasks have lost their priority.                           *)
BadRunReady(by) ==
  /\ ready # <<>>
  /\ ready' = Tail(ready)
  /\ current' = Head(ready)
  /\ SwitchState(by, taskOf[Head(ready)])
  /\ low' = LowAfter(by, low) /\ empty' = EmptyNow(by) /\ hold' = HoldNow(by)
  /\ taskOf' = Unbound(by)
  /\ UNCHANGED <<ready4Stop, spawned, called, fiberOf, fresh>>

RunReady(by) ==
  /\ ready4Stop = <<>> /\ ready # <<>>
  /\ ready' = Tail(ready)
  /\ current' = Head(ready)
  /\ SwitchState(by, taskOf[Head(ready)])
  /\ low' = LowAfter(by, low) /\ empty' = EmptyNow(by) /\ hold' = HoldNow(by)
  /\ taskOf' = Unbound(by)
  /\ UNCHANGED <<ready4Stop, spawned, called, fiberOf, fresh>>

(* Fiber::contextProc passes !stopRequested() to callAndDestroy.            *)
BadEnters(t) == TRUE
Enters(t)    == ~stopRequested[t]

(* A new task takes the first empty fiber (which may be the one that has    *)
(* just ended its own task) and only then a newly allocated one.            *)
RunSpawned(by) ==
  LET em == EmptyNow(by)
      t  == Head(spawned)
  IN  /\ ready4Stop = <<>> /\ ready = <<>> /\ spawned # <<>>
      /\ spawned' = Tail(spawned)
      /\ \E f \in Fibers :
           /\ \/ em # <<>> /\ f = Head(em) /\ empty' = Tail(em) /\ fresh' = fresh
              \/ em = <<>> /\ f \in fresh /\ empty' = em /\ fresh' = fresh \ {f}
           /\ taskOf' = [Unbound(by) EXCEPT ![f] = t]
           /\ fiberOf' = [fiberOf EXCEPT ![t] = f]
           /\ current' = f
      /\ called' = [called EXCEPT ![t] = Enters(t)]
      /\ SwitchState(by, t)
      /\ low' = LowAfter(by, low) /\ hold' = HoldNow(by)
      /\ UNCHANGED <<ready4Stop, ready>>

RunLowPriority(by) ==
  /\ ready4Stop = <<>> /\ ready = <<>> /\ spawned = <<>> /\ low # <<>>
  /\ low' = LowAfter(by, Tail(low))
  /\ current' = Head(low)
  /\ SwitchState(by, taskOf[Head(low)])
  /\ empty' = EmptyNow(by) /\ hold' = HoldNow(by)
  /\ taskOf' = Unbound(by)
  /\ UNCHANGED <<ready4Stop, ready, spawned, called, fiberOf, fresh>>

RunNext(by) == RunReady4Stop(by) \/ RunReady(by) \/ RunSpawned(by) \/ RunLowPriority(by)

(* f2r: nothing is ready, the root context resumes.                         *)
RunRoot(by) ==
  /\ NothingReady
  /\ current' = NoFiber
  /\ SwitchState(by, NoTask)
  /\ empty' = EmptyNow(by) /\ hold' = HoldNow(by)
  /\ taskOf' = Unbound(by)
  /\ UNCHANGED <<ready4Stop, ready, spawned, low, called, fiberOf, fresh>>

-----------------------------------------------------------------------------
(* cmt::spawn: a task created by the running code is queued, not run.  It   *)
(* is born stopped if its owner is stopping.                                *)
SpawnTask(t, stopped) ==
  /\ UserCode
  /\ state[t] = "unborn"
  /\ state' = [state EXCEPT ![t] = "null"]
  /\ stopRequested' = [stopRequested EXCEPT ![t] = stopped]
  /\ spawned' = Append(spawned, t)
  /\ UNCHANGED <<called, bind, current, root,
                 ready4Stop, ready, low, hold, empty>>

(* cmt::yield throws for a task that has to stop; otherwise the task waits  *)
(* in _readyLowPriority.  With nothing ready it returns at once.            *)
Yield ==
  /\ current # NoFiber /\ UserCode
  /\ ~stopRequested[CurrentTask]
  /\ RunNext("yield")
  /\ UNCHANGED <<stopRequested, root>>

(* Scheduler::hold, called by a waiter that could not be satisfied; the     *)
(* waiter has thrown Stop before for a task that has to stop.               *)
Hold ==
  /\ current # NoFiber /\ UserCode
  /\ ~stopRequested[CurrentTask]
  /\ RunNext("hold") \/ RunRoot("hold")
  /\ UNCHANGED <<stopRequested, root>>

(* Scheduler::ready on a held fiber whose task is t.  For a fiber that is   *)
(* already queued the call changes nothing.                                 *)
BadMakeReady(t, stopping) ==   (* slip: the fiber stays in _hold            *)
  /\ hold' = hold
  /\ state' = [state EXCEPT ![t] = IF stopping THEN "ready4Stop" ELSE "ready"]
  /\ ready4Stop' = IF stopping THEN Append(ready4Stop, fiberOf[t]) ELSE ready4Stop
  /\ ready' = IF stopping THEN ready ELSE Append(ready, fiberOf[t])

MakeReady(t, stopping) ==
  /\ hold' = hold \ {fiberOf[t]}
  /\ IF stopping
     THEN /\ state' = [state EXCEPT ![t] = "ready4Stop"]
          /\ ready4Stop' = Append(ready4Stop, fiberOf[t])
          /\ ready' = ready
     ELSE /\ state' = [state EXCEPT ![t] = "ready"]
          /\ ready' = Append(ready, fiberOf[t])
          /\ ready4Stop' = ready4Stop

(* Running code satisfies the waiter of a held task.                        *)
Ready(t) ==
  /\ UserCode
  /\ state[t] = "hold"
  /\ MakeReady(t, stopRequested[t])
  /\ UNCHANGED <<stopRequested, called, bind, current, root, spawned, low, empty>>

(* Body::stop: the request is remembered, and a held task is woken by it.   *)
BadStopTask(t) ==   (* slip: the held task is not woken                      *)
  /\ UserCode
  /\ state[t] \notin {"unborn", "dead"}
  /\ stopRequested' = [stopRequested EXCEPT ![t] = TRUE]
  /\ UNCHANGED <<state, called, bind, current, root, lists>>

StopTask(t) ==
  /\ UserCode
  /\ state[t] \notin {"unborn", "dead"}
  /\ stopRequested' = [stopRequested EXCEPT ![t] = TRUE]
  /\ IF state[t] = "hold"
     THEN MakeReady(t, TRUE)
     ELSE UNCHANGED <<hold, state, ready4Stop, ready>>
  /\ UNCHANGED <<called, bind, current, root, spawned, low, empty>>

(* Body::ownTo an owner that is not stopping, or to none, withdraws the     *)
(* request; the task stays in the list it was put in.  (An owner that is    *)
(* stopping has the effect of StopTask.)                                    *)
Unstop(t) ==
  /\ UserCode
  /\ state[t] \notin {"unborn", "dead"}
  /\ stopRequested' = [stopRequested EXCEPT ![t] = FALSE]
  /\ UNCHANGED <<state, called, bind, current, root, lists>>

(* IntrusiveDlist::remove of an element that is in the list.                *)
Removed(l, f) == RemoveAt(l, CHOOSE i \in DOMAIN l : l[i] = f)

(* Scheduler::switchTo, reached through Owner::wait: run a queued task now. *)
(* The running task, if any, is queued behind.                              *)
SwitchTo(t) ==
  LET stopping == current # NoFiber /\ stopRequested[CurrentTask]
      Without(l, st) == IF state[t] = st THEN Removed(l, fiberOf[t]) ELSE l
  IN  /\ UserCode
      /\ state[t] \in Queued
      /\ ready' = Without(ready, "ready")
      /\ ready4Stop' = IF stopping THEN Append(Without(ready4Stop, "ready4Stop"), current)
                       ELSE Without(ready4Stop, "ready4Stop")
      /\ low' = IF current # NoFiber /\ ~stopping
                THEN Append(Without(low, "readyLowPriority"), current)
                ELSE Without(low, "readyLowPriority")
      /\ state' = [s \in Tasks |->
                     IF s = t THEN "work"
                     ELSE IF s = CurrentTask
                          THEN IF stopping THEN "ready4Stop" ELSE "readyLowPriority"
                     ELSE state[s]]
      /\ current' = fiberOf[t]
      /\ root' = IF current = NoFiber THEN "switchTo" ELSE root
      /\ UNCHANGED <<stopRequested, called, bind, spawned, hold, empty>>

(* Fiber::contextProc after callAndDestroy, and Scheduler::taskCompleted:   *)
(* the body returned, threw Stop, or was never entered.                     *)
TaskCompleted ==
  /\ current # NoFiber
  /\ RunNext("end") \/ RunRoot("end")
  /\ UNCHANGED <<stopRequested, root>>

(* executeReadyFibers: the poll loop, in the root context, runs what is     *)
(* ready until nothing is.                                                  *)
ExecuteReadyFibers ==
  /\ current = NoFiber /\ root = "idle"
  /\ root' = "execute"
  /\ UNCHANGED <<state, stopRequested, called, bind, current, lists>>

ExecuteNext ==
  /\ current = NoFiber /\ root = "execute"
  /\ RunNext("root")
  /\ UNCHANGED <<stopRequested, root>>

(* The while loop of executeReadyFibers ends, or the r2f of a switchTo made *)
(* by the root context returns.                                             *)
RootReturns ==
  /\ current = NoFiber
  /\ root = "switchTo" \/ (root = "execute" /\ NothingReady)
  /\ root' = "idle"
  /\ UNCHANGED <<state, stopRequested, called, bind, current, lists>>

-----------------------------------------------------------------------------
Init ==
  /\ state         = [t \in Tasks |-> "unborn"]
  /\ stopRequested = [t \in Tasks |-> FALSE]
  /\ called        = [t \in Tasks |-> FALSE]
  /\ fiberOf       = [t \in Tasks |-> NoFiber]
  /\ taskOf        = [f \in Fibers |-> NoTask]
  /\ fresh         = Fibers
  /\ current       = NoFiber
  /\ root          = "idle"
  /\ spawned = <<>> /\ ready4Stop = <<>> /\ ready = <<>> /\ low = <<>>
  /\ hold = {} /\ empty = <<>>

Next ==
  \/ \E t \in Tasks, stopped \in BOOLEAN : SpawnTask(t, stopped)
  \/ \E t \in Tasks : Ready(t) \/ StopTask(t) \/ Unstop(t) \/ SwitchTo(t)
  \/ Yield \/ Hold \/ TaskCompleted
  \/ ExecuteReadyFibers \/ ExecuteNext \/ RootReturns

(* The poll loop keeps calling executeReadyFibers, and cooperative tasks    *)
(* give the processor away sooner or later.                                 *)
Fairness ==
  /\ WF_vars(ExecuteReadyFibers) /\ WF_vars(ExecuteNext) /\ WF_vars(RootReturns)
  /\ WF_vars(Yield \/ Hold \/ TaskCompleted)

Spec     == Init /\ [][Next]_vars
FairSpec == Spec /\ Fairness

-----------------------------------------------------------------------------
(* Tasks, fibers and lists hold what the members they model can hold: every *)
(* list of the scheduler is a list of fibers, never of null.                *)
TypeOK ==
  /\ state \in [Tasks -> TaskState]
  /\ stopRequested \in [Tasks -> BOOLEAN]
  /\ called \in [Tasks -> BOOLEAN]
  /\ fiberOf \in [Tasks -> Fibers \union {NoFiber}]
  /\ taskOf \in [Fibers -> Tasks \union {NoTask}]
  /\ fresh \in SUBSET Fibers
  /\ current \in Fibers \union {NoFiber}
  /\ root \in RootState
  /\ spawned \in Seq(Tasks)
  /\ ready4Stop \in Seq(Fibers) /\ ready \in Seq(Fibers) /\ low \in Seq(Fibers)
  /\ hold \in SUBSET Fibers
  /\ empty \in Seq(Fibers)

Bound(t) == state[t] \in {"work", "hold"} \union Queued

(* Fiber f belongs to a task in state st.                                   *)
Serves(f, st) == taskOf[f] # NoTask /\ state[taskOf[f]] = st

NoRepeats == \A l \in {ready4Stop, ready, low, empty, spawned} : IsInjective(l)

FibersLinked ==
  /\ \A t \in Tasks : Bound(t) => fiberOf[t] \in Fibers /\ taskOf[fiberOf[t]] = t
  /\ \A f \in Fibers : taskOf[f] # NoTask
                        => Bound(taskOf[f]) /\ fiberOf[taskOf[f]] = f

FibersListed ==
  \A f \in Fibers : /\ f = current            <=> Serves(f, "work")
                    /\ f \in hold              <=> Serves(f, "hold")
                    /\ f \in Range(ready4Stop) <=> Serves(f, "ready4Stop")
                    /\ f \in Range(ready)      <=> Serves(f, "ready")
                    /\ f \in Range(low)        <=> Serves(f, "readyLowPriority")
                    /\ f \in fresh \union Range(empty) <=> taskOf[f] = NoTask
                    /\ ~ (f \in fresh /\ f \in Range(empty))

SpawnedListed == \A t \in Tasks : state[t] = "null" <=> t \in Range(spawned)

(* Every fiber with a live task is in exactly the list that the task's      *)
(* state names, once, and fiber and task point at each other: the asserts   *)
(* of ready, switchTo, dequeueReadyFiber, f2f and f2r.                      *)
ListsAgree == NoRepeats /\ FibersLinked /\ FibersListed /\ SpawnedListed

(* A task that was asked to stop never sleeps: whatever the order of hold,  *)
(* ready and stop, the request finds the task running or queued (the assert *)
(* of Scheduler::hold and the wake-up of Body::stop).                       *)
StoppedNeverHeld == \A t \in Tasks : stopRequested[t] => state[t] # "hold"

(* A task that was stopped before it ran never executes its body, and one   *)
(* that has left its body never comes back.                                 *)
NeverEntered ==
  [][\A t \in Tasks :
       /\ state[t] = "null" /\ stopRequested[t] => ~called'[t]
       /\ state[t] = "dead" => state'[t] = "dead"]_vars

(* A stopping task that was woken from its wait gets the processor, however *)
(* many other tasks are queued.                                             *)
StopDelivered ==
  \A t \in Tasks : state[t] = "ready4Stop" ~> state[t] = "work"

(* Whoever is queued runs once the running code wakes nobody else and       *)
(* switches to nobody: tasks that only yield to one another starve neither  *)
(* a spawned task nor each other, although both lists come last.            *)
QueuedRuns ==
  <>[][~ \E t \in Tasks : Ready(t) \/ StopTask(t) \/ SwitchTo(t)]_vars
    => \A t \in Tasks : state[t] \in Queued \union {"null"} ~> state[t] = "work"
==============================================================================
