---------------------------- MODULE Task_proofs ----------------------------
(***************************************************************************)
(* Proofs about the scheduler, for any sets of tasks and fibers, and then  *)
(* about task owners, for any sets of owners and programs besides.         *)
(*                                                                         *)
(* The scheduler's inductive invariant is TypeOK /\ ListsAgree: a held or  *)
(* queued task must be known to have a fiber before ready, stop or         *)
(* switchTo can be shown to list a fiber, and that needs the agreement of  *)
(* lists and task states.                                                  *)
(***************************************************************************)
EXTENDS TaskOwner, ListLemmas, FiniteSetTheorems

Consistent == TypeOK /\ ListsAgree

(* Who gives the processor away: the running fiber, or the root context.     *)
GivesWay(by) == /\ by \in {"yield", "hold", "end", "root"}
                /\ by = "root" <=> current = NoFiber

-----------------------------------------------------------------------------
(* A task that has started and not ended has a fiber, listed by its state.   *)
LEMMA TaskFacts ==
  ASSUME Consistent, NEW t \in Tasks, Bound(t)
  PROVE  /\ fiberOf[t] \in Fibers /\ taskOf[fiberOf[t]] = t
         /\ \A st : Serves(fiberOf[t], st) <=> state[t] = st
<1>1. fiberOf[t] \in Fibers /\ taskOf[fiberOf[t]] = t
  BY DEF Consistent, ListsAgree, FibersLinked
<1> QED BY <1>1, NullAssumption DEF Serves

(* The running fiber belongs to a task in work and is in no list.            *)
LEMMA CurrentFacts ==
  ASSUME Consistent, current # NoFiber
  PROVE  /\ current \in Fibers
         /\ CurrentTask \in Tasks /\ taskOf[current] = CurrentTask
         /\ state[CurrentTask] = "work" /\ fiberOf[CurrentTask] = current
         /\ \A t \in Tasks : state[t] = "work" => t = CurrentTask
         /\ current \notin Range(ready4Stop) /\ current \notin Range(ready)
         /\ current \notin Range(low) /\ current \notin Range(empty)
         /\ current \notin hold /\ current \notin fresh
<1>1. current \in Fibers /\ taskOf[current] \in Tasks \union {NoTask}
  BY DEF Consistent, TypeOK
<1>2. Serves(current, "work")
  BY <1>1 DEF Consistent, ListsAgree, FibersListed
<1>3. /\ CurrentTask \in Tasks /\ taskOf[current] = CurrentTask
      /\ state[CurrentTask] = "work"
  BY <1>1, <1>2 DEF Serves, CurrentTask
<1>4. fiberOf[CurrentTask] = current
  BY <1>1, <1>2, <1>3 DEF Consistent, ListsAgree, FibersLinked, Serves
<1>5. ASSUME NEW t \in Tasks, state[t] = "work" PROVE t = CurrentTask
  <2>1. fiberOf[t] \in Fibers /\ taskOf[fiberOf[t]] = t /\ Serves(fiberOf[t], "work")
    BY <1>5, TaskFacts DEF Bound
  <2>2. fiberOf[t] = current BY <2>1 DEF Consistent, ListsAgree, FibersListed
  <2> QED BY <1>3, <2>1, <2>2
<1>6. /\ current \notin Range(ready4Stop) /\ current \notin Range(ready)
      /\ current \notin Range(low) /\ current \notin Range(empty)
      /\ current \notin hold /\ current \notin fresh
  BY <1>1, <1>2 DEF Consistent, ListsAgree, FibersListed, Serves
<1> QED BY <1>1, <1>3, <1>4, <1>5, <1>6

(* While the root context runs, no task is in work.                          *)
LEMMA RootFacts ==
  ASSUME Consistent, current = NoFiber
  PROVE  CurrentTask \notin Tasks /\ \A t \in Tasks : state[t] # "work"
<1>1. ASSUME NEW t \in Tasks, state[t] = "work" PROVE FALSE
  <2>1. fiberOf[t] \in Fibers /\ Serves(fiberOf[t], "work")
    BY <1>1, TaskFacts DEF Bound
  <2>2. fiberOf[t] = current BY <2>1 DEF Consistent, ListsAgree, FibersListed
  <2> QED BY <2>1, <2>2, NullAssumption
<1> QED BY <1>1, NullAssumption DEF CurrentTask

(* What the context that leaves adds to the lists.                           *)
LEMMA LeaveFacts ==
  ASSUME Consistent, NEW by, GivesWay(by),
         NEW l \in Seq(Fibers), IsInjective(l), Range(l) \subseteq Range(low)
  PROVE  /\ LowAfter(by, l) \in Seq(Fibers) /\ IsInjective(LowAfter(by, l))
         /\ Range(LowAfter(by, l)) = Range(l) \union (IF by = "yield" THEN {current} ELSE {})
         /\ EmptyNow(by) \in Seq(Fibers) /\ IsInjective(EmptyNow(by))
         /\ Range(EmptyNow(by)) = Range(empty) \union (IF by = "end" THEN {current} ELSE {})
         /\ HoldNow(by) = hold \union (IF by = "hold" THEN {current} ELSE {})
         /\ HoldNow(by) \in SUBSET Fibers
         /\ Unbound(by) \in [Fibers -> Tasks \union {NoTask}]
         /\ \A f \in Fibers : Unbound(by)[f] = IF by = "end" /\ f = current
                                               THEN NoTask ELSE taskOf[f]
<1>1. empty \in Seq(Fibers) /\ IsInjective(empty) /\ hold \in SUBSET Fibers
      /\ taskOf \in [Fibers -> Tasks \union {NoTask}]
  BY DEF Consistent, TypeOK, ListsAgree, NoRepeats
<1>2. by # "root" => current \in Fibers /\ current \notin Range(low)
                     /\ current \notin Range(empty)
  BY CurrentFacts DEF GivesWay
<1>3. /\ LowAfter(by, l) \in Seq(Fibers) /\ IsInjective(LowAfter(by, l))
      /\ Range(LowAfter(by, l)) = Range(l) \union (IF by = "yield" THEN {current} ELSE {})
  BY <1>2, AppendFacts DEF LowAfter
<1>4. /\ EmptyNow(by) \in Seq(Fibers) /\ IsInjective(EmptyNow(by))
      /\ Range(EmptyNow(by)) = Range(empty) \union (IF by = "end" THEN {current} ELSE {})
  BY <1>1, <1>2, AppendFacts DEF EmptyNow
<1>5. /\ HoldNow(by) = hold \union (IF by = "hold" THEN {current} ELSE {})
      /\ HoldNow(by) \in SUBSET Fibers
  BY <1>1, <1>2 DEF HoldNow
<1>6. /\ Unbound(by) \in [Fibers -> Tasks \union {NoTask}]
      /\ \A f \in Fibers : Unbound(by)[f] = IF by = "end" /\ f = current
                                            THEN NoTask ELSE taskOf[f]
  BY <1>1, <1>2 DEF Unbound
<1> QED BY <1>3, <1>4, <1>5, <1>6

(* A switch to task t types the states and touches t and the running task.   *)
LEMMA SwitchFacts ==
  ASSUME Consistent, NEW by, GivesWay(by), NEW t, SwitchState(by, t)
  PROVE  /\ state' \in [Tasks -> TaskState]
         /\ \A s \in Tasks : state'[s] = IF s = t THEN "work"
                                         ELSE IF s = CurrentTask
                                         THEN IF by = "yield" THEN "readyLowPriority"
                                              ELSE IF by = "hold" THEN "hold" ELSE "dead"
                                         ELSE state[s]
<1>1. state \in [Tasks -> TaskState] BY DEF Consistent, TypeOK
<1>2. by = "root" => CurrentTask \notin Tasks BY RootFacts DEF GivesWay
<1> QED BY <1>1, <1>2 DEF SwitchState, Parked, GivesWay, TaskState, Queued

-----------------------------------------------------------------------------
(* Each way of choosing the next context keeps lists and states consistent.  *)

(* The running task, if any, goes to state p.                                *)
Leaving(p) == \/ current # NoFiber /\ p \in {"ready4Stop", "readyLowPriority", "hold", "dead"}
              \/ current = NoFiber /\ p = "none"

(* The switch to fiber g of a queued task, in terms of who is listed where.  *)
LEMMA SwitchConsistent ==
  ASSUME Consistent, NEW g \in Fibers, NEW n \in Tasks, taskOf[g] = n, state[n] \in Queued,
         NEW p, Leaving(p), TypeOK', NoRepeats',
         current' = g, UNCHANGED <<fiberOf, fresh>>, Range(spawned') = Range(spawned),
         \A s \in Tasks : state'[s] = IF s = n THEN "work"
                                      ELSE IF s = CurrentTask THEN p ELSE state[s],
         \A f \in Fibers :
            /\ taskOf'[f] = IF f = current /\ p = "dead" THEN NoTask ELSE taskOf[f]
            /\ f \in hold' <=> f \in hold \/ (f = current /\ p = "hold")
            /\ f \in Range(ready4Stop')
                 <=> (f \in Range(ready4Stop) /\ f # g) \/ (f = current /\ p = "ready4Stop")
            /\ f \in Range(ready') <=> f \in Range(ready) /\ f # g
            /\ f \in Range(low')
                 <=> (f \in Range(low) /\ f # g) \/ (f = current /\ p = "readyLowPriority")
            /\ f \in Range(empty') <=> f \in Range(empty) \/ (f = current /\ p = "dead")
  PROVE  Consistent'
<1>1. FibersLinked /\ FibersListed /\ SpawnedListed /\ n # NoTask
  BY NullAssumption DEF Consistent, ListsAgree
<1>2. current # NoFiber =>
        /\ current \in Fibers /\ CurrentTask \in Tasks /\ taskOf[current] = CurrentTask
        /\ state[CurrentTask] = "work" /\ fiberOf[CurrentTask] = current
  BY CurrentFacts
<1>3. current = NoFiber => CurrentTask \notin Tasks /\ current \notin Fibers
  BY RootFacts, NullAssumption
<1>4. fiberOf[n] = g /\ g # current /\ n # CurrentTask
  <2>1. fiberOf[n] = g BY <1>1 DEF FibersLinked
  <2>2. n # CurrentTask BY <1>2, <1>3 DEF Queued
  <2> QED BY <1>2, <1>3, <2>1, <2>2
<1>5. \A f \in Fibers : taskOf[f] \in Tasks \union {NoTask}
  BY DEF Consistent, TypeOK
<1>6. FibersLinked'
  <2>1. ASSUME NEW t \in Tasks, Bound(t)'
        PROVE  fiberOf[t] \in Fibers /\ taskOf'[fiberOf[t]] = t
    <3>1. CASE t = n BY <1>4, <3>1
    <3>2. CASE t = CurrentTask /\ t # n
      BY <1>2, <1>3, <2>1, <3>2 DEF Bound, Leaving, Queued
    <3>3. CASE t # CurrentTask /\ t # n
      <4>1. Bound(t) BY <2>1, <3>3 DEF Bound
      <4>2. fiberOf[t] \in Fibers /\ taskOf[fiberOf[t]] = t BY <1>1, <4>1 DEF FibersLinked
      <4>3. fiberOf[t] # current BY <1>2, <1>3, <3>3, <4>2
      <4> QED BY <4>2, <4>3
    <3> QED BY <3>1, <3>2, <3>3
  <2>2. ASSUME NEW f \in Fibers, taskOf'[f] # NoTask
        PROVE  Bound(taskOf[f])' /\ fiberOf[taskOf'[f]] = f /\ taskOf'[f] = taskOf[f]
    <3>1. /\ taskOf'[f] = taskOf[f] /\ taskOf[f] \in Tasks /\ Bound(taskOf[f])
          /\ fiberOf[taskOf[f]] = f /\ ~ (f = current /\ p = "dead")
      BY <1>1, <1>5, <2>2 DEF FibersLinked
    <3>2. state'[taskOf[f]] \in {"work", "hold"} \union Queued
      <4>1. CASE taskOf[f] = n BY <3>1, <4>1
      <4>2. CASE taskOf[f] = CurrentTask /\ taskOf[f] # n
        BY <1>2, <1>3, <3>1, <4>2 DEF Leaving, Queued
      <4>3. CASE taskOf[f] # CurrentTask /\ taskOf[f] # n
        BY <3>1, <4>3 DEF Bound
      <4> QED BY <4>1, <4>2, <4>3
    <3> QED BY <3>1, <3>2 DEF Bound
  <2> QED BY <2>1, <2>2 DEF FibersLinked, Bound
<1>7. FibersListed'
  <2> SUFFICES ASSUME NEW f \in Fibers
               PROVE  /\ f = current'            <=> Serves(f, "work")'
                      /\ f \in hold'             <=> Serves(f, "hold")'
                      /\ f \in Range(ready4Stop') <=> Serves(f, "ready4Stop")'
                      /\ f \in Range(ready')     <=> Serves(f, "ready")'
                      /\ f \in Range(low')       <=> Serves(f, "readyLowPriority")'
                      /\ f \in fresh \union Range(empty') <=> taskOf'[f] = NoTask
                      /\ ~ (f \in fresh /\ f \in Range(empty'))
    BY DEF FibersListed
  <2>1. CASE f = g
    BY <1>1, <1>4, <2>1 DEF FibersListed, Serves, Queued
  <2>2. CASE f = current
    BY <1>1, <1>4, <1>2, <1>3, <2>2 DEF FibersListed, Serves, Leaving
  <2>3. CASE f # g /\ f # current
    <3>1. taskOf'[f] = taskOf[f] BY <2>3
    <3>2. taskOf[f] # NoTask => state'[taskOf[f]] = state[taskOf[f]]
      BY <1>1, <1>4, <1>2, <1>3, <1>5, <2>3 DEF FibersLinked
    <3> QED BY <1>1, <2>3, <3>1, <3>2 DEF FibersListed, Serves
  <2> QED BY <2>1, <2>2, <2>3
<1>8. SpawnedListed'
  BY <1>1, <1>2, <1>3 DEF SpawnedListed, Queued, Leaving
<1> QED BY <1>6, <1>7, <1>8 DEF Consistent, ListsAgree

(* dequeueReadyFiber takes a fiber of _ready4Stop.                           *)
LEMMA RunReady4StopConsistent ==
  ASSUME Consistent, NEW by, GivesWay(by), RunReady4Stop(by), UNCHANGED <<stopRequested, root>>
  PROVE  Consistent'
<1> DEFINE g == Head(ready4Stop)
           p == IF by = "root" THEN "none" ELSE Parked(by)
<1>1. TypeOK /\ NoRepeats /\ FibersListed
  BY DEF Consistent, ListsAgree
<1>2. /\ g \in Fibers /\ g \in Range(ready4Stop) /\ Tail(ready4Stop) \in Seq(Fibers)
      /\ Range(Tail(ready4Stop)) = Range(ready4Stop) \ {g} /\ IsInjective(Tail(ready4Stop))
  BY <1>1, TailFacts DEF TypeOK, NoRepeats, RunReady4Stop
<1>3. taskOf[g] \in Tasks /\ state[taskOf[g]] \in Queued
  BY <1>1, <1>2 DEF TypeOK, FibersListed, Serves, Queued
<1>4. g \notin Range(ready) /\ g \notin Range(low) /\ g \notin Range(empty)
  BY <1>1, <1>2 DEF FibersListed, Serves
<1>5. /\ current' = g /\ taskOf' = Unbound(by) /\ low' = LowAfter(by, low)
      /\ empty' = EmptyNow(by) /\ hold' = HoldNow(by) /\ SwitchState(by, taskOf[g])
      /\ ready4Stop' = Tail(ready4Stop)
      /\ UNCHANGED <<ready, spawned, called, fiberOf, fresh>>
  BY DEF RunReady4Stop
<1> HIDE DEF g
<1>6. Leaving(p) /\ p = IF by = "yield" THEN "readyLowPriority" ELSE IF by = "hold"
                       THEN "hold" ELSE IF by = "end" THEN "dead" ELSE "none"
  BY DEF GivesWay, Leaving, Parked
<1>7. /\ low' \in Seq(Fibers) /\ IsInjective(low')
      /\ Range(low') = Range(low) \union (IF by = "yield" THEN {current} ELSE {})
      /\ empty' \in Seq(Fibers) /\ IsInjective(empty')
      /\ Range(empty') = Range(empty) \union (IF by = "end" THEN {current} ELSE {})
      /\ hold' = hold \union (IF by = "hold" THEN {current} ELSE {})
      /\ hold' \in SUBSET Fibers
      /\ taskOf' \in [Fibers -> Tasks \union {NoTask}]
      /\ \A f \in Fibers : taskOf'[f] = IF by = "end" /\ f = current THEN NoTask ELSE taskOf[f]
  BY <1>1, <1>2, <1>5, LeaveFacts DEF TypeOK, NoRepeats
<1>8. /\ state' \in [Tasks -> TaskState]
      /\ \A s \in Tasks : state'[s] = IF s = taskOf[g] THEN "work"
                                      ELSE IF s = CurrentTask THEN p ELSE state[s]
  <2>1. by = "root" => CurrentTask \notin Tasks BY RootFacts DEF GivesWay
  <2> QED BY <1>5, <1>6, <2>1, SwitchFacts DEF GivesWay
<1> HIDE DEF p
<1>9. TypeOK' /\ NoRepeats'
  BY <1>1, <1>2, <1>5, <1>7, <1>8 DEF TypeOK, NoRepeats
<1>10. \A f \in Fibers :
         /\ taskOf'[f] = IF f = current /\ p = "dead" THEN NoTask ELSE taskOf[f]
         /\ f \in hold' <=> f \in hold \/ (f = current /\ p = "hold")
         /\ f \in Range(ready4Stop')
              <=> (f \in Range(ready4Stop) /\ f # g) \/ (f = current /\ p = "ready4Stop")
         /\ f \in Range(ready') <=> f \in Range(ready) /\ f # g
         /\ f \in Range(low')
              <=> (f \in Range(low) /\ f # g) \/ (f = current /\ p = "readyLowPriority")
         /\ f \in Range(empty') <=> f \in Range(empty) \/ (f = current /\ p = "dead")
  BY <1>2, <1>4, <1>5, <1>6, <1>7 DEF GivesWay
<1> QED BY <1>2, <1>3, <1>5, <1>6, <1>8, <1>9, <1>10, SwitchConsistent

(* dequeueReadyFiber takes a fiber of _ready.                                *)
LEMMA RunReadyConsistent ==
  ASSUME Consistent, NEW by, GivesWay(by), RunReady(by), UNCHANGED <<stopRequested, root>>
  PROVE  Consistent'
<1> DEFINE g == Head(ready)
           p == IF by = "root" THEN "none" ELSE Parked(by)
<1>1. TypeOK /\ NoRepeats /\ FibersListed
  BY DEF Consistent, ListsAgree
<1>2. /\ g \in Fibers /\ g \in Range(ready) /\ Tail(ready) \in Seq(Fibers)
      /\ Range(Tail(ready)) = Range(ready) \ {g} /\ IsInjective(Tail(ready))
  BY <1>1, TailFacts DEF TypeOK, NoRepeats, RunReady
<1>3. taskOf[g] \in Tasks /\ state[taskOf[g]] \in Queued
  BY <1>1, <1>2 DEF TypeOK, FibersListed, Serves, Queued
<1>4. g \notin Range(ready4Stop) /\ g \notin Range(low) /\ g \notin Range(empty)
  BY <1>1, <1>2 DEF FibersListed, Serves
<1>5. /\ current' = g /\ taskOf' = Unbound(by) /\ low' = LowAfter(by, low)
      /\ empty' = EmptyNow(by) /\ hold' = HoldNow(by) /\ SwitchState(by, taskOf[g])
      /\ ready' = Tail(ready)
      /\ UNCHANGED <<ready4Stop, spawned, called, fiberOf, fresh>>
  BY DEF RunReady
<1> HIDE DEF g
<1>6. Leaving(p) /\ p = IF by = "yield" THEN "readyLowPriority" ELSE IF by = "hold"
                       THEN "hold" ELSE IF by = "end" THEN "dead" ELSE "none"
  BY DEF GivesWay, Leaving, Parked
<1>7. /\ low' \in Seq(Fibers) /\ IsInjective(low')
      /\ Range(low') = Range(low) \union (IF by = "yield" THEN {current} ELSE {})
      /\ empty' \in Seq(Fibers) /\ IsInjective(empty')
      /\ Range(empty') = Range(empty) \union (IF by = "end" THEN {current} ELSE {})
      /\ hold' = hold \union (IF by = "hold" THEN {current} ELSE {})
      /\ hold' \in SUBSET Fibers
      /\ taskOf' \in [Fibers -> Tasks \union {NoTask}]
      /\ \A f \in Fibers : taskOf'[f] = IF by = "end" /\ f = current THEN NoTask ELSE taskOf[f]
  BY <1>1, <1>2, <1>5, LeaveFacts DEF TypeOK, NoRepeats
<1>8. /\ state' \in [Tasks -> TaskState]
      /\ \A s \in Tasks : state'[s] = IF s = taskOf[g] THEN "work"
                                      ELSE IF s = CurrentTask THEN p ELSE state[s]
  <2>1. by = "root" => CurrentTask \notin Tasks BY RootFacts DEF GivesWay
  <2> QED BY <1>5, <1>6, <2>1, SwitchFacts DEF GivesWay
<1> HIDE DEF p
<1>9. TypeOK' /\ NoRepeats'
  BY <1>1, <1>2, <1>5, <1>7, <1>8 DEF TypeOK, NoRepeats
<1>10. \A f \in Fibers :
         /\ taskOf'[f] = IF f = current /\ p = "dead" THEN NoTask ELSE taskOf[f]
         /\ f \in hold' <=> f \in hold \/ (f = current /\ p = "hold")
         /\ f \in Range(ready4Stop')
              <=> (f \in Range(ready4Stop) /\ f # g) \/ (f = current /\ p = "ready4Stop")
         /\ f \in Range(ready') <=> f \in Range(ready) /\ f # g
         /\ f \in Range(low')
              <=> (f \in Range(low) /\ f # g) \/ (f = current /\ p = "readyLowPriority")
         /\ f \in Range(empty') <=> f \in Range(empty) \/ (f = current /\ p = "dead")
  BY <1>2, <1>4, <1>5, <1>6, <1>7 DEF GivesWay
<1> QED BY <1>2, <1>3, <1>5, <1>6, <1>8, <1>9, <1>10, SwitchConsistent

(* dequeueReadyFiber takes a fiber of _readyLowPriority.                     *)
LEMMA RunLowPriorityConsistent ==
  ASSUME Consistent, NEW by, GivesWay(by), RunLowPriority(by), UNCHANGED <<stopRequested, root>>
  PROVE  Consistent'
<1> DEFINE g == Head(low)
           p == IF by = "root" THEN "none" ELSE Parked(by)
<1>1. TypeOK /\ NoRepeats /\ FibersListed
  BY DEF Consistent, ListsAgree
<1>2. /\ g \in Fibers /\ g \in Range(low) /\ Tail(low) \in Seq(Fibers)
      /\ Range(Tail(low)) = Range(low) \ {g} /\ IsInjective(Tail(low))
  BY <1>1, TailFacts DEF TypeOK, NoRepeats, RunLowPriority
<1>3. taskOf[g] \in Tasks /\ state[taskOf[g]] \in Queued
  BY <1>1, <1>2 DEF TypeOK, FibersListed, Serves, Queued
<1>4. g \notin Range(ready4Stop) /\ g \notin Range(ready) /\ g \notin Range(empty)
  BY <1>1, <1>2 DEF FibersListed, Serves
<1>5. /\ current' = g /\ taskOf' = Unbound(by) /\ low' = LowAfter(by, Tail(low))
      /\ empty' = EmptyNow(by) /\ hold' = HoldNow(by) /\ SwitchState(by, taskOf[g])
      /\ UNCHANGED <<ready4Stop, ready, spawned, called, fiberOf, fresh>>
  BY DEF RunLowPriority
<1> HIDE DEF g
<1>6. Leaving(p) /\ p = IF by = "yield" THEN "readyLowPriority" ELSE IF by = "hold"
                       THEN "hold" ELSE IF by = "end" THEN "dead" ELSE "none"
  BY DEF GivesWay, Leaving, Parked
<1>7. /\ low' \in Seq(Fibers) /\ IsInjective(low')
      /\ Range(low') = Range(Tail(low)) \union (IF by = "yield" THEN {current} ELSE {})
      /\ empty' \in Seq(Fibers) /\ IsInjective(empty')
      /\ Range(empty') = Range(empty) \union (IF by = "end" THEN {current} ELSE {})
      /\ hold' = hold \union (IF by = "hold" THEN {current} ELSE {})
      /\ hold' \in SUBSET Fibers
      /\ taskOf' \in [Fibers -> Tasks \union {NoTask}]
      /\ \A f \in Fibers : taskOf'[f] = IF by = "end" /\ f = current THEN NoTask ELSE taskOf[f]
  BY <1>1, <1>2, <1>5, LeaveFacts DEF TypeOK, NoRepeats
<1>8. /\ state' \in [Tasks -> TaskState]
      /\ \A s \in Tasks : state'[s] = IF s = taskOf[g] THEN "work"
                                      ELSE IF s = CurrentTask THEN p ELSE state[s]
  <2>1. by = "root" => CurrentTask \notin Tasks BY RootFacts DEF GivesWay
  <2> QED BY <1>5, <1>6, <2>1, SwitchFacts DEF GivesWay
<1> HIDE DEF p
<1>9. TypeOK' /\ NoRepeats'
  BY <1>1, <1>2, <1>5, <1>7, <1>8 DEF TypeOK, NoRepeats
<1>10. \A f \in Fibers :
         /\ taskOf'[f] = IF f = current /\ p = "dead" THEN NoTask ELSE taskOf[f]
         /\ f \in hold' <=> f \in hold \/ (f = current /\ p = "hold")
         /\ f \in Range(ready4Stop')
              <=> (f \in Range(ready4Stop) /\ f # g) \/ (f = current /\ p = "ready4Stop")
         /\ f \in Range(ready') <=> f \in Range(ready) /\ f # g
         /\ f \in Range(low')
              <=> (f \in Range(low) /\ f # g) \/ (f = current /\ p = "readyLowPriority")
         /\ f \in Range(empty') <=> f \in Range(empty) \/ (f = current /\ p = "dead")
  BY <1>2, <1>4, <1>5, <1>6, <1>7 DEF GivesWay
<1> QED BY <1>2, <1>3, <1>5, <1>6, <1>8, <1>9, <1>10, SwitchConsistent

(* A new task gets a fiber that serves nobody: an empty one, which may be    *)
(* the one that its predecessor has just left, or an allocated one.          *)
LEMMA RunSpawnedConsistent ==
  ASSUME Consistent, NEW by, GivesWay(by), RunSpawned(by), UNCHANGED <<stopRequested, root>>
  PROVE  Consistent'
<1> DEFINE n  == Head(spawned)
           em == EmptyNow(by)
           p  == IF by = "root" THEN "none" ELSE Parked(by)
<1>1. TypeOK /\ NoRepeats /\ FibersLinked /\ FibersListed /\ SpawnedListed
  BY DEF Consistent, ListsAgree
<1>2. /\ n \in Tasks /\ n \in Range(spawned) /\ spawned' \in Seq(Tasks)
      /\ Range(spawned') = Range(spawned) \ {n} /\ IsInjective(spawned')
  BY <1>1, TailFacts DEF TypeOK, NoRepeats, RunSpawned
<1>3. state[n] = "null" /\ n # NoTask /\ (\A f \in Fibers : taskOf[f] # n)
      /\ n # CurrentTask
  <2>1. state[n] = "null" /\ n # NoTask BY <1>1, <1>2, NullAssumption DEF SpawnedListed
  <2>2. \A f \in Fibers : taskOf[f] # n
    BY <2>1, <1>1 DEF FibersLinked, Bound, Queued
  <2> QED BY <2>1, <2>2, CurrentFacts, RootFacts, <1>2
<1>4. PICK g \in Fibers :
        /\ \/ em # <<>> /\ g = Head(em) /\ empty' = Tail(em) /\ fresh' = fresh
           \/ em = <<>> /\ g \in fresh /\ empty' = em /\ fresh' = fresh \ {g}
        /\ taskOf' = [Unbound(by) EXCEPT ![g] = n]
        /\ fiberOf' = [fiberOf EXCEPT ![n] = g]
        /\ current' = g
  BY DEF RunSpawned
<1>5. /\ low' = LowAfter(by, low) /\ hold' = HoldNow(by) /\ SwitchState(by, n)
      /\ called' = [called EXCEPT ![n] = Enters(n)]
      /\ UNCHANGED <<ready4Stop, ready>>
  BY DEF RunSpawned
<1> HIDE DEF n
<1>6. Leaving(p) /\ p = IF by = "yield" THEN "readyLowPriority" ELSE IF by = "hold"
                       THEN "hold" ELSE IF by = "end" THEN "dead" ELSE "none"
  BY DEF GivesWay, Leaving, Parked
<1>7. /\ low' \in Seq(Fibers) /\ IsInjective(low')
      /\ Range(low') = Range(low) \union (IF by = "yield" THEN {current} ELSE {})
      /\ em \in Seq(Fibers) /\ IsInjective(em)
      /\ Range(em) = Range(empty) \union (IF by = "end" THEN {current} ELSE {})
      /\ hold' = hold \union (IF by = "hold" THEN {current} ELSE {})
      /\ hold' \in SUBSET Fibers
      /\ Unbound(by) \in [Fibers -> Tasks \union {NoTask}]
      /\ \A f \in Fibers : Unbound(by)[f] = IF by = "end" /\ f = current
                                            THEN NoTask ELSE taskOf[f]
  BY <1>1, <1>5, LeaveFacts DEF TypeOK, NoRepeats
<1>8. /\ state' \in [Tasks -> TaskState]
      /\ \A s \in Tasks : state'[s] = IF s = n THEN "work"
                                      ELSE IF s = CurrentTask THEN p ELSE state[s]
  <2>1. by = "root" => CurrentTask \notin Tasks BY RootFacts DEF GivesWay
  <2> QED BY <1>5, <1>6, <2>1, SwitchFacts DEF GivesWay
<1> HIDE DEF em, p
<1>9. /\ empty' \in Seq(Fibers) /\ IsInjective(empty') /\ fresh' \in SUBSET Fibers
      /\ Range(empty') = Range(em) \ {g} /\ fresh' = fresh \ {g}
      /\ g \in fresh \union Range(em)
  <2>1. CASE em # <<>>
    <3>1. g \in Range(em) /\ fresh \in SUBSET Fibers BY <1>1, <1>4, <1>7, <2>1, TailFacts DEF TypeOK
    <3>2. g \notin fresh BY <1>1, <1>7, <3>1, CurrentFacts DEF FibersListed, GivesWay
    <3>3. Tail(em) \in Seq(Fibers) /\ IsInjective(Tail(em))
          /\ Range(Tail(em)) = Range(em) \ {Head(em)}
      BY <1>7, <2>1, TailFacts
    <3>4. g = Head(em) /\ empty' = Tail(em) /\ fresh' = fresh BY <1>4, <2>1
    <3> QED BY <3>1, <3>2, <3>3, <3>4
  <2>2. CASE em = <<>>
    <3>1. Range(em) = {} BY <2>2 DEF Range
    <3> QED BY <1>1, <1>4, <1>7, <2>2, <3>1 DEF TypeOK
  <2> QED BY <2>1, <2>2
<1>10. TypeOK' /\ NoRepeats'
  <2>1. Enters(n) \in BOOLEAN BY <1>1, <1>2 DEF Enters, TypeOK
  <2> QED BY <1>1, <1>2, <1>4, <1>5, <1>7, <1>8, <1>9, <2>1 DEF TypeOK, NoRepeats
<1>11. current # NoFiber =>
        /\ current \in Fibers /\ CurrentTask \in Tasks /\ taskOf[current] = CurrentTask
        /\ state[CurrentTask] = "work" /\ fiberOf[CurrentTask] = current
        /\ current \notin fresh /\ current \notin Range(empty)
  BY CurrentFacts
<1>12. current = NoFiber => CurrentTask \notin Tasks /\ current \notin Fibers
  BY RootFacts, NullAssumption
<1>13. \A f \in Fibers : taskOf[f] \in Tasks \union {NoTask}
  BY <1>1 DEF TypeOK
<1>14. /\ \A f \in Fibers : taskOf'[f] = IF f = g THEN n
                                         ELSE IF f = current /\ p = "dead" THEN NoTask
                                         ELSE taskOf[f]
       /\ \A s \in Tasks : fiberOf'[s] = IF s = n THEN g ELSE fiberOf[s]
  BY <1>1, <1>2, <1>4, <1>6, <1>7 DEF TypeOK, GivesWay
<1>15. taskOf[g] = NoTask \/ (g = current /\ p = "dead")
  BY <1>1, <1>6, <1>7, <1>9 DEF FibersListed
<1>16. FibersLinked'
  <2>1. ASSUME NEW t \in Tasks, Bound(t)'
        PROVE  fiberOf'[t] \in Fibers /\ taskOf'[fiberOf'[t]] = t
    <3>1. CASE t = n BY <1>14, <3>1
    <3>2. CASE t = CurrentTask /\ t # n
      BY <1>8, <1>11, <1>12, <1>14, <1>15, <2>1, <3>2, <1>3, NullAssumption
         DEF Bound, Queued
    <3>3. CASE t # CurrentTask /\ t # n
      <4>1. Bound(t) BY <1>8, <2>1, <3>3 DEF Bound
      <4>2. fiberOf[t] \in Fibers /\ taskOf[fiberOf[t]] = t
        BY <1>1, <4>1 DEF FibersLinked
      <4>3. fiberOf[t] # current BY <1>11, <1>12, <3>3, <4>2
      <4>4. fiberOf[t] # g BY <1>15, <4>2, <4>3, NullAssumption
      <4> QED BY <1>14, <3>3, <4>2, <4>3, <4>4
    <3> QED BY <3>1, <3>2, <3>3
  <2>2. ASSUME NEW f \in Fibers, taskOf'[f] # NoTask
        PROVE  /\ state'[taskOf'[f]] \in {"work", "hold"} \union Queued
               /\ fiberOf'[taskOf'[f]] = f
    <3>1. CASE f = g BY <1>2, <1>8, <1>14, <3>1
    <3>2. CASE f # g
      <4>1. taskOf'[f] = taskOf[f] /\ taskOf[f] \in Tasks /\ ~ (f = current /\ p = "dead")
        BY <1>13, <1>14, <2>2, <3>2
      <4>2. Bound(taskOf[f]) /\ fiberOf[taskOf[f]] = f /\ taskOf[f] # n
        BY <1>1, <1>3, <4>1, NullAssumption DEF FibersLinked
      <4>3. CASE taskOf[f] = CurrentTask
        BY <1>6, <1>8, <1>11, <1>12, <1>14, <4>1, <4>2, <4>3 DEF Leaving, Queued
      <4>4. CASE taskOf[f] # CurrentTask
        BY <1>8, <1>14, <4>1, <4>2, <4>4 DEF Bound
      <4> QED BY <4>3, <4>4
    <3> QED BY <3>1, <3>2
  <2> QED BY <2>1, <2>2 DEF FibersLinked, Bound
<1>17. FibersListed'
  <2> SUFFICES ASSUME NEW f \in Fibers
               PROVE  /\ f = current'            <=> Serves(f, "work")'
                      /\ f \in hold'             <=> Serves(f, "hold")'
                      /\ f \in Range(ready4Stop') <=> Serves(f, "ready4Stop")'
                      /\ f \in Range(ready')     <=> Serves(f, "ready")'
                      /\ f \in Range(low')       <=> Serves(f, "readyLowPriority")'
                      /\ f \in fresh' \union Range(empty') <=> taskOf'[f] = NoTask
                      /\ ~ (f \in fresh' /\ f \in Range(empty'))
    BY DEF FibersListed
  <2>1. CASE f = g
    <3>1. Serves(f, "work")' /\ \A st : st # "work" => ~ Serves(f, st)'
      BY <1>2, <1>3, <1>8, <1>14, <2>1 DEF Serves
    <3>2. f \notin hold' /\ f \notin Range(ready4Stop') /\ f \notin Range(ready')
          /\ f \notin Range(low')
      BY <1>1, <1>5, <1>6, <1>7, <1>15, <2>1, CurrentFacts, <1>12
         DEF FibersListed, Serves
    <3> QED BY <1>3, <1>4, <1>9, <1>14, <2>1, <3>1, <3>2
  <2>2. CASE f = current /\ f # g
    <3>1. /\ f \notin hold /\ f \notin Range(ready4Stop) /\ f \notin Range(ready)
          /\ f \notin Range(low) /\ f \notin Range(empty) /\ f \notin fresh
      BY <1>12, <2>2, CurrentFacts
    <3>2. taskOf'[f] = (IF p = "dead" THEN NoTask ELSE CurrentTask)
          /\ CurrentTask \in Tasks /\ state'[CurrentTask] = p /\ CurrentTask # NoTask
      BY <1>3, <1>8, <1>11, <1>12, <1>14, <2>2, NullAssumption
    <3>3. p \in {"readyLowPriority", "hold", "dead"}
      BY <1>6, <1>12, <2>2 DEF GivesWay
    <3>4. /\ \A st : Serves(f, st)' <=> p # "dead" /\ st = p
      BY <3>2 DEF Serves
    <3> QED BY <1>4, <1>5, <1>6, <1>7, <1>9, <2>2, <3>1, <3>2, <3>3, <3>4
  <2>3. CASE f # g /\ f # current
    <3>1. taskOf'[f] = taskOf[f] BY <1>14, <2>3
    <3>2. taskOf[f] # NoTask => state'[taskOf[f]] = state[taskOf[f]]
      BY <1>1, <1>3, <1>8, <1>11, <1>12, <1>13, <2>3 DEF FibersLinked
    <3> QED BY <1>1, <1>4, <1>5, <1>7, <1>9, <2>3, <3>1, <3>2 DEF FibersListed, Serves
  <2> QED BY <2>1, <2>2, <2>3
<1>18. SpawnedListed'
  BY <1>1, <1>2, <1>3, <1>6, <1>8, <1>11, <1>12 DEF SpawnedListed, Leaving
<1> QED BY <1>10, <1>16, <1>17, <1>18 DEF Consistent, ListsAgree

(* Nothing is ready: the running task leaves and no task is in work.         *)
LEMMA RunRootConsistent ==
  ASSUME Consistent, NEW by, by \in {"hold", "end"}, current # NoFiber, RunRoot(by),
         UNCHANGED <<stopRequested, root>>
  PROVE  Consistent'
<1> USE NullAssumption
<1>1. TypeOK /\ NoRepeats /\ FibersLinked /\ FibersListed /\ SpawnedListed /\ GivesWay(by)
  BY DEF Consistent, ListsAgree, GivesWay
<1>2. /\ empty' = EmptyNow(by) /\ hold' = HoldNow(by) /\ taskOf' = Unbound(by)
      /\ current' = NoFiber /\ SwitchState(by, NoTask)
      /\ UNCHANGED <<ready4Stop, ready, spawned, low, called, fiberOf, fresh>>
  BY DEF RunRoot
<1>3. /\ empty' \in Seq(Fibers) /\ IsInjective(empty')
      /\ Range(empty') = Range(empty) \union (IF by = "end" THEN {current} ELSE {})
      /\ hold' = hold \union (IF by = "hold" THEN {current} ELSE {})
      /\ hold' \in SUBSET Fibers
      /\ taskOf' \in [Fibers -> Tasks \union {NoTask}]
      /\ \A f \in Fibers : taskOf'[f] = IF by = "end" /\ f = current THEN NoTask ELSE taskOf[f]
  BY <1>1, <1>2, LeaveFacts DEF TypeOK, NoRepeats
<1>4. /\ state' \in [Tasks -> TaskState]
      /\ \A s \in Tasks : state'[s] = IF s = CurrentTask
                                      THEN IF by = "hold" THEN "hold" ELSE "dead"
                                      ELSE state[s]
  BY <1>1, <1>2, SwitchFacts
<1>5. TypeOK' /\ NoRepeats'
  BY <1>1, <1>2, <1>3, <1>4 DEF TypeOK, NoRepeats
<1>6. /\ current \in Fibers /\ CurrentTask \in Tasks /\ taskOf[current] = CurrentTask
      /\ state[CurrentTask] = "work" /\ fiberOf[CurrentTask] = current
      /\ \A t \in Tasks : state[t] = "work" => t = CurrentTask
  BY CurrentFacts
<1>7. \A f \in Fibers : f # current => taskOf[f] # CurrentTask /\ taskOf'[f] = taskOf[f]
  BY <1>1, <1>3, <1>6 DEF FibersLinked
<1>8. FibersLinked'
  <2>1. ASSUME NEW t \in Tasks, Bound(t)'
        PROVE  fiberOf'[t] \in Fibers /\ taskOf'[fiberOf'[t]] = t
    <3>1. CASE t = CurrentTask BY <1>2, <1>3, <1>4, <1>6, <2>1, <3>1 DEF Bound, Queued
    <3>2. CASE t # CurrentTask
      <4>1. Bound(t) BY <1>4, <2>1, <3>2 DEF Bound
      <4>2. fiberOf[t] \in Fibers /\ taskOf[fiberOf[t]] = t BY <1>1, <4>1 DEF FibersLinked
      <4> QED BY <1>2, <1>6, <1>7, <3>2, <4>2
    <3> QED BY <3>1, <3>2
  <2>2. ASSUME NEW f \in Fibers, taskOf'[f] # NoTask
        PROVE  /\ state'[taskOf'[f]] \in {"work", "hold"} \union Queued
               /\ fiberOf'[taskOf'[f]] = f
    <3>1. CASE f = current BY <1>2, <1>3, <1>4, <1>6, <2>2, <3>1
    <3>2. CASE f # current
      <4>1. taskOf[f] \in Tasks /\ Bound(taskOf[f]) /\ fiberOf[taskOf[f]] = f
        BY <1>1, <1>7, <2>2, <3>2 DEF TypeOK, FibersLinked
      <4> QED BY <1>2, <1>4, <1>7, <3>2, <4>1 DEF Bound
    <3> QED BY <3>1, <3>2
  <2> QED BY <2>1, <2>2 DEF FibersLinked, Bound
<1>9. FibersListed'
  <2> SUFFICES ASSUME NEW f \in Fibers
               PROVE  /\ f = current'            <=> Serves(f, "work")'
                      /\ f \in hold'             <=> Serves(f, "hold")'
                      /\ f \in Range(ready4Stop') <=> Serves(f, "ready4Stop")'
                      /\ f \in Range(ready')     <=> Serves(f, "ready")'
                      /\ f \in Range(low')       <=> Serves(f, "readyLowPriority")'
                      /\ f \in fresh' \union Range(empty') <=> taskOf'[f] = NoTask
                      /\ ~ (f \in fresh' /\ f \in Range(empty'))
    BY DEF FibersListed
  <2>1. CASE f = current
    BY <1>2, <1>3, <1>4, <1>6, <2>1, CurrentFacts DEF Serves
  <2>2. CASE f # current
    <3>1. taskOf[f] # NoTask => state'[taskOf[f]] = state[taskOf[f]]
      BY <1>1, <1>4, <1>7, <2>2 DEF TypeOK
    <3> QED BY <1>1, <1>2, <1>3, <1>7, <2>2, <3>1 DEF FibersListed, Serves
  <2> QED BY <2>1, <2>2
<1>10. SpawnedListed'
  BY <1>1, <1>2, <1>4, <1>6 DEF SpawnedListed
<1> QED BY <1>5, <1>8, <1>9, <1>10 DEF Consistent, ListsAgree

(* The four sources of the next fiber together.                              *)
LEMMA RunNextConsistent ==
  ASSUME Consistent, NEW by, GivesWay(by), RunNext(by), UNCHANGED <<stopRequested, root>>
  PROVE  Consistent'
BY RunReady4StopConsistent, RunReadyConsistent, RunSpawnedConsistent,
   RunLowPriorityConsistent DEF RunNext

-----------------------------------------------------------------------------
(* spawnTask lists a task that has no fiber yet.                             *)
LEMMA SpawnTaskConsistent ==
  ASSUME Consistent, NEW t \in Tasks, NEW stopped \in BOOLEAN, SpawnTask(t, stopped)
  PROVE  Consistent'
<1>1. TypeOK /\ NoRepeats /\ FibersLinked /\ FibersListed /\ SpawnedListed
  BY DEF Consistent, ListsAgree
<1>2. /\ state' = [state EXCEPT ![t] = "null"] /\ spawned' = Append(spawned, t)
      /\ state[t] = "unborn"
      /\ stopRequested' = [stopRequested EXCEPT ![t] = stopped]
      /\ UNCHANGED <<called, fiberOf, taskOf, fresh, current, root,
                     ready4Stop, ready, low, hold, empty>>
  BY DEF SpawnTask, bind
<1>3. /\ spawned' \in Seq(Tasks) /\ Range(spawned') = Range(spawned) \union {t}
      /\ IsInjective(spawned')
  <2>1. t \notin Range(spawned) BY <1>1, <1>2 DEF SpawnedListed
  <2> QED BY <1>1, <1>2, <2>1, AppendFacts DEF TypeOK, NoRepeats
<1>4. \A f \in Fibers : taskOf[f] # t
  BY <1>1, <1>2, NullAssumption DEF FibersLinked, Bound, Queued
<1>5. TypeOK' /\ NoRepeats'
  BY <1>1, <1>2, <1>3 DEF TypeOK, NoRepeats, TaskState
<1>6. FibersLinked'
  BY <1>1, <1>2, <1>4 DEF TypeOK, FibersLinked, Bound, Queued
<1>7. FibersListed'
  BY <1>1, <1>2, <1>4 DEF TypeOK, FibersListed, Serves
<1>8. SpawnedListed'
  BY <1>1, <1>2, <1>3 DEF TypeOK, SpawnedListed
<1> QED BY <1>5, <1>6, <1>7, <1>8 DEF Consistent, ListsAgree

(* Scheduler::ready moves a held fiber to the queue that its task's stop      *)
(* request selects.                                                          *)
LEMMA MakeReadyConsistent ==
  ASSUME Consistent, NEW t \in Tasks, state[t] = "hold", NEW st \in BOOLEAN,
         MakeReady(t, st), stopRequested' \in [Tasks -> BOOLEAN],
         UNCHANGED <<called, fiberOf, taskOf, fresh, current, root, spawned, low, empty>>
  PROVE  Consistent'
<1> DEFINE g == fiberOf[t]
           q == IF st THEN "ready4Stop" ELSE "ready"
<1>1. TypeOK /\ NoRepeats /\ FibersLinked /\ FibersListed /\ SpawnedListed
  BY DEF Consistent, ListsAgree
<1>2. g \in Fibers /\ taskOf[g] = t /\ t # NoTask
  BY TaskFacts, NullAssumption DEF Bound
<1>3. /\ g \notin Range(ready4Stop) /\ g \notin Range(ready) /\ g \notin Range(low)
      /\ g \notin Range(empty) /\ g \notin fresh /\ g # current
  BY <1>1, <1>2 DEF FibersListed, Serves
<1>4. /\ state' = [state EXCEPT ![t] = q] /\ hold' = hold \ {g}
      /\ ready4Stop' = IF st THEN Append(ready4Stop, g) ELSE ready4Stop
      /\ ready' = IF st THEN ready ELSE Append(ready, g)
  BY DEF MakeReady
<1> HIDE DEF g
<1>5. /\ ready4Stop' \in Seq(Fibers) /\ IsInjective(ready4Stop')
      /\ Range(ready4Stop') = Range(ready4Stop) \union (IF st THEN {g} ELSE {})
      /\ ready' \in Seq(Fibers) /\ IsInjective(ready')
      /\ Range(ready') = Range(ready) \union (IF st THEN {} ELSE {g})
  BY <1>1, <1>2, <1>3, <1>4, AppendFacts DEF TypeOK, NoRepeats
<1>6. TypeOK' /\ NoRepeats'
  BY <1>1, <1>4, <1>5 DEF TypeOK, NoRepeats, TaskState, Queued
<1>7. \A f \in Fibers : f # g => taskOf[f] # t
  BY <1>1, <1>2 DEF FibersLinked, g
<1>8. FibersLinked'
  <2>1. \A s \in Tasks : Bound(s)' <=> Bound(s)
    BY <1>1, <1>4 DEF TypeOK, Bound, Queued
  <2>2. \A f \in Fibers : taskOf[f] # NoTask => taskOf[f] \in Tasks
    BY <1>1 DEF TypeOK
  <2> QED BY <1>1, <2>1, <2>2 DEF FibersLinked
<1>9. FibersListed'
  <2> SUFFICES ASSUME NEW f \in Fibers
               PROVE  /\ f = current'            <=> Serves(f, "work")'
                      /\ f \in hold'             <=> Serves(f, "hold")'
                      /\ f \in Range(ready4Stop') <=> Serves(f, "ready4Stop")'
                      /\ f \in Range(ready')     <=> Serves(f, "ready")'
                      /\ f \in Range(low')       <=> Serves(f, "readyLowPriority")'
                      /\ f \in fresh' \union Range(empty') <=> taskOf'[f] = NoTask
                      /\ ~ (f \in fresh' /\ f \in Range(empty'))
    BY DEF FibersListed
  <2>1. CASE f = g
    <3>1. \A s : Serves(f, s)' <=> s = q
      BY <1>1, <1>2, <1>4, <2>1 DEF TypeOK, Serves
    <3> QED BY <1>2, <1>3, <1>4, <1>5, <2>1, <3>1
  <2>2. CASE f # g
    <3>1. \A s : Serves(f, s)' <=> Serves(f, s)
      BY <1>1, <1>4, <1>7, <2>2 DEF TypeOK, Serves
    <3> QED BY <1>1, <1>4, <1>5, <2>2, <3>1 DEF FibersListed
  <2> QED BY <2>1, <2>2
<1>10. SpawnedListed'
  BY <1>1, <1>4 DEF TypeOK, SpawnedListed
<1> QED BY <1>6, <1>8, <1>9, <1>10 DEF Consistent, ListsAgree

(* IntrusiveDlist::remove of a listed fiber unlists exactly that fiber.      *)
LEMMA RemovedFacts ==
  ASSUME NEW S, NEW l \in Seq(S), NEW f \in Range(l), IsInjective(l)
  PROVE  /\ Removed(l, f) \in Seq(S)
         /\ Range(Removed(l, f)) = Range(l) \ {f}
         /\ IsInjective(Removed(l, f))
<1> DEFINE k == CHOOSE i \in DOMAIN l : l[i] = f
<1>1. k \in DOMAIN l /\ l[k] = f BY DEF Range
<1> HIDE DEF k
<1> QED BY <1>1, RemoveAtFacts DEF Removed, k

(* switchTo takes a fiber from the middle of its queue and queues the        *)
(* running one behind.                                                       *)
LEMMA SwitchToConsistent ==
  ASSUME Consistent, NEW t \in Tasks, SwitchTo(t)
  PROVE  Consistent'
<1> DEFINE g == fiberOf[t]
           stopping == current # NoFiber /\ stopRequested[CurrentTask]
           p == IF current = NoFiber THEN "none"
                ELSE IF stopping THEN "ready4Stop" ELSE "readyLowPriority"
           Without(l, st) == IF state[t] = st THEN Removed(l, g) ELSE l
<1>1. TypeOK /\ NoRepeats /\ FibersListed
  BY DEF Consistent, ListsAgree
<1>2. /\ state[t] \in Queued
      /\ ready' = Without(ready, "ready")
      /\ ready4Stop' = IF stopping THEN Append(Without(ready4Stop, "ready4Stop"), current)
                       ELSE Without(ready4Stop, "ready4Stop")
      /\ low' = IF current # NoFiber /\ ~stopping
                THEN Append(Without(low, "readyLowPriority"), current)
                ELSE Without(low, "readyLowPriority")
      /\ state' = [s \in Tasks |->
                     IF s = t THEN "work"
                     ELSE IF s = CurrentTask
                          THEN IF stopping THEN "ready4Stop" ELSE "readyLowPriority"
                     ELSE state[s]]
      /\ current' = g
      /\ root' = IF current = NoFiber THEN "switchTo" ELSE root
      /\ UNCHANGED <<stopRequested, called, fiberOf, taskOf, fresh, spawned, hold, empty>>
  BY DEF SwitchTo, bind
<1>3. /\ g \in Fibers /\ taskOf[g] = t
      /\ g \in Range(ready4Stop) <=> state[t] = "ready4Stop"
      /\ g \in Range(ready) <=> state[t] = "ready"
      /\ g \in Range(low) <=> state[t] = "readyLowPriority"
  BY <1>1, <1>2, TaskFacts DEF FibersListed, Bound
<1>4. Leaving(p) BY DEF Leaving
<1>5. current # NoFiber =>
        /\ current \in Fibers /\ current \notin Range(ready4Stop)
        /\ current \notin Range(ready) /\ current \notin Range(low)
  BY CurrentFacts
<1>6. current = NoFiber => CurrentTask \notin Tasks /\ current \notin Fibers
  BY RootFacts, NullAssumption
<1> HIDE DEF g
<1>7. /\ Without(ready4Stop, "ready4Stop") \in Seq(Fibers)
      /\ IsInjective(Without(ready4Stop, "ready4Stop"))
      /\ Range(Without(ready4Stop, "ready4Stop")) = Range(ready4Stop) \ {g}
  BY <1>1, <1>3, RemovedFacts DEF TypeOK, NoRepeats
<1>8. /\ Without(ready, "ready") \in Seq(Fibers)
      /\ IsInjective(Without(ready, "ready"))
      /\ Range(Without(ready, "ready")) = Range(ready) \ {g}
  BY <1>1, <1>3, RemovedFacts DEF TypeOK, NoRepeats
<1>9. /\ Without(low, "readyLowPriority") \in Seq(Fibers)
      /\ IsInjective(Without(low, "readyLowPriority"))
      /\ Range(Without(low, "readyLowPriority")) = Range(low) \ {g}
  BY <1>1, <1>3, RemovedFacts DEF TypeOK, NoRepeats
<1> HIDE DEF Without
<1>10. /\ ready4Stop' \in Seq(Fibers) /\ IsInjective(ready4Stop')
       /\ Range(ready4Stop') = (Range(ready4Stop) \ {g})
                                 \union (IF stopping THEN {current} ELSE {})
  BY <1>2, <1>5, <1>7, AppendFacts
<1>11. /\ low' \in Seq(Fibers) /\ IsInjective(low')
       /\ Range(low') = (Range(low) \ {g})
                          \union (IF current # NoFiber /\ ~stopping THEN {current} ELSE {})
  BY <1>2, <1>5, <1>9, AppendFacts
<1>12. \A s \in Tasks : state'[s] = IF s = t THEN "work"
                                    ELSE IF s = CurrentTask THEN p ELSE state[s]
  BY <1>2, <1>6
<1>13. state' \in [Tasks -> TaskState]
  BY <1>1, <1>2 DEF TypeOK, TaskState, Queued
<1>14. TypeOK' /\ NoRepeats'
  BY <1>1, <1>2, <1>3, <1>8, <1>10, <1>11, <1>13 DEF TypeOK, NoRepeats, RootState
<1>15. \A f \in Fibers :
         /\ taskOf'[f] = IF f = current /\ p = "dead" THEN NoTask ELSE taskOf[f]
         /\ f \in hold' <=> f \in hold \/ (f = current /\ p = "hold")
         /\ f \in Range(ready4Stop')
              <=> (f \in Range(ready4Stop) /\ f # g) \/ (f = current /\ p = "ready4Stop")
         /\ f \in Range(ready') <=> f \in Range(ready) /\ f # g
         /\ f \in Range(low')
              <=> (f \in Range(low) /\ f # g) \/ (f = current /\ p = "readyLowPriority")
         /\ f \in Range(empty') <=> f \in Range(empty) \/ (f = current /\ p = "dead")
  BY <1>2, <1>6, <1>8, <1>10, <1>11
<1> HIDE DEF p, stopping
<1> QED BY <1>2, <1>3, <1>4, <1>12, <1>14, <1>15, SwitchConsistent

-----------------------------------------------------------------------------
(* Every step of the scheduler keeps lists, fibers and task states in        *)
(* agreement.                                                                *)
LEMMA StepConsistent ==
  ASSUME Consistent, [Next]_vars
  PROVE  Consistent'
<1>1. ASSUME NEW t \in Tasks, NEW stopped \in BOOLEAN, SpawnTask(t, stopped)
      PROVE  Consistent'
  BY <1>1, SpawnTaskConsistent
<1>2. ASSUME NEW t \in Tasks, Ready(t) PROVE Consistent'
  <2>1. stopRequested \in [Tasks -> BOOLEAN] BY DEF Consistent, TypeOK
  <2> QED BY <1>2, <2>1, MakeReadyConsistent DEF Ready, bind
<1>3. ASSUME NEW t \in Tasks, StopTask(t) PROVE Consistent'
  <2>1. stopRequested' \in [Tasks -> BOOLEAN] BY <1>3 DEF Consistent, TypeOK, StopTask
  <2>2. CASE state[t] = "hold"
    BY <1>3, <2>1, <2>2, MakeReadyConsistent DEF StopTask, bind
  <2>3. CASE state[t] # "hold"
    <3>1. UNCHANGED <<state, called, fiberOf, taskOf, fresh, current, root, spawned,
                      ready4Stop, ready, low, hold, empty>>
      BY <1>3, <2>3 DEF StopTask, bind
    <3> QED BY <2>1, <3>1 DEF Consistent, TypeOK, ListsAgree, NoRepeats, FibersLinked,
                              FibersListed, SpawnedListed, Serves, Bound
  <2> QED BY <2>2, <2>3
<1>4. ASSUME NEW t \in Tasks, SwitchTo(t) PROVE Consistent'
  BY <1>4, SwitchToConsistent
<1>11. ASSUME NEW t \in Tasks, Unstop(t) PROVE Consistent'
  <2>1. /\ stopRequested' \in [Tasks -> BOOLEAN]
        /\ UNCHANGED <<state, called, fiberOf, taskOf, fresh, current, root, spawned,
                       ready4Stop, ready, low, hold, empty>>
    BY <1>11 DEF Consistent, TypeOK, Unstop, bind, lists
  <2> QED BY <2>1 DEF Consistent, TypeOK, ListsAgree, NoRepeats, FibersLinked,
                      FibersListed, SpawnedListed, Serves, Bound
<1>5. CASE Yield
  BY <1>5, RunNextConsistent DEF Yield, GivesWay
<1>6. CASE Hold
  BY <1>6, RunNextConsistent, RunRootConsistent DEF Hold, GivesWay
<1>7. CASE TaskCompleted
  BY <1>7, RunNextConsistent, RunRootConsistent DEF TaskCompleted, GivesWay
<1>8. CASE ExecuteNext
  BY <1>8, RunNextConsistent DEF ExecuteNext, GivesWay
<1>9. CASE ExecuteReadyFibers \/ RootReturns
  <2>1. /\ root' \in RootState
        /\ UNCHANGED <<state, stopRequested, called, fiberOf, taskOf, fresh, current,
                       spawned, ready4Stop, ready, low, hold, empty>>
    BY <1>9 DEF ExecuteReadyFibers, RootReturns, RootState, bind, lists
  <2> QED BY <2>1 DEF Consistent, TypeOK, ListsAgree, NoRepeats, FibersLinked,
                      FibersListed, SpawnedListed, Serves, Bound
<1>10. CASE UNCHANGED vars
  BY <1>10 DEF vars, Consistent, TypeOK, ListsAgree, NoRepeats, FibersLinked,
               FibersListed, SpawnedListed, Serves, Bound
<1> QED BY <1>1, <1>2, <1>3, <1>4, <1>5, <1>6, <1>7, <1>8, <1>9, <1>10, <1>11 DEF Next

(* The empty scheduler is consistent.                                        *)
LEMMA InitConsistent == Init => Consistent
<1> SUFFICES ASSUME Init PROVE Consistent OBVIOUS
<1> USE NullAssumption
<1>1. TypeOK BY DEF Init, TypeOK, TaskState, RootState
<1>2. Range(<<>>) = {} /\ IsInjective(<<>>) BY DEF Range, IsInjective
<1>3. NoRepeats /\ SpawnedListed BY <1>2 DEF Init, NoRepeats, SpawnedListed
<1>4. FibersLinked BY DEF Init, FibersLinked, Bound, Queued
<1>5. FibersListed BY <1>2 DEF Init, FibersListed, Serves
<1> QED BY <1>1, <1>3, <1>4, <1>5 DEF Consistent, ListsAgree

(* The inductive invariant holds throughout.                                 *)
LEMMA AlwaysConsistent == Spec => []Consistent
<1>1. Consistent /\ [Next]_vars => Consistent' BY StepConsistent
<1> QED BY InitConsistent, <1>1, PTL DEF Spec

(* Type correctness for any number of tasks and fibers: in particular every  *)
(* list that ready, stop and switchTo extend receives a fiber, never null.   *)
THEOREM TypeCorrect == Spec => []TypeOK
<1>1. Consistent => TypeOK BY DEF Consistent
<1> QED BY <1>1, AlwaysConsistent, PTL

(* Every fiber is in the list that its task's state names, and only there,   *)
(* whatever the order of spawn, yield, hold, ready, stop and switchTo.       *)
THEOREM ListsAlwaysAgree == Spec => []ListsAgree
<1>1. Consistent => ListsAgree BY DEF Consistent
<1> QED BY <1>1, AlwaysConsistent, PTL

-----------------------------------------------------------------------------
(* What every choice of the next fiber has in common: some queued or spawned *)
(* task is switched to, and its body is entered only if it is a new one that *)
(* nobody has stopped.                                                       *)
LEMMA RunNextFacts ==
  ASSUME Consistent, NEW by, GivesWay(by), RunNext(by)
  PROVE  /\ current' \in Fibers
         /\ \E n \in Tasks : /\ SwitchState(by, n) /\ state[n] \in Queued \union {"null"}
                            /\ \/ called' = called
                               \/ called' = [called EXCEPT ![n] = ~stopRequested[n]]
<1>1. TypeOK /\ FibersListed /\ SpawnedListed BY DEF Consistent, ListsAgree
<1>2. ASSUME NEW l \in {ready4Stop, ready, low}, l # <<>>, current' = Head(l),
             SwitchState(by, taskOf[Head(l)]), called' = called
      PROVE  /\ current' \in Fibers
             /\ \E n \in Tasks : /\ SwitchState(by, n)
                                /\ state[n] \in Queued \union {"null"}
                                /\ called' = called
  <2>1. l \in Seq(Fibers) BY <1>1 DEF TypeOK
  <2>2. Head(l) \in Fibers /\ Head(l) \in Range(l) BY <1>2, <2>1, TailFacts
  <2>3. taskOf[Head(l)] \in Tasks /\ state[taskOf[Head(l)]] \in Queued
    BY <1>1, <2>2 DEF TypeOK, FibersListed, Serves, Queued
  <2> QED BY <1>2, <2>2, <2>3
<1>3. CASE RunReady4Stop(by) BY <1>2, <1>3 DEF RunReady4Stop
<1>4. CASE RunReady(by) BY <1>2, <1>4 DEF RunReady
<1>5. CASE RunLowPriority(by) BY <1>2, <1>5 DEF RunLowPriority
<1>6. CASE RunSpawned(by)
  <2>1. Head(spawned) \in Tasks /\ Head(spawned) \in Range(spawned)
    BY <1>1, <1>6, TailFacts DEF TypeOK, RunSpawned
  <2>2. state[Head(spawned)] = "null" BY <1>1, <2>1 DEF SpawnedListed
  <2>3. current' \in Fibers /\ SwitchState(by, Head(spawned))
        /\ called' = [called EXCEPT ![Head(spawned)] = ~stopRequested[Head(spawned)]]
    BY <1>6 DEF RunSpawned, Enters
  <2> QED BY <2>1, <2>2, <2>3
<1> QED BY <1>3, <1>4, <1>5, <1>6 DEF RunNext

(* A body has been entered only if its task has left the spawned list.       *)
NotYetEntered == \A t \in Tasks : state[t] \in {"unborn", "null"} => ~called[t]

(* How a step can change the state of one task: the facts that the safety    *)
(* properties below need, for every action.                                  *)
Moves(t) ==
  /\ state'[t] = "hold" => state[t] = "hold" \/ (state[t] = "work" /\ ~stopRequested[t])
  /\ state'[t] = "hold" => (stopRequested'[t] => stopRequested[t])
  /\ state[t] = "dead" => state'[t] = "dead"
  /\ state'[t] \in {"unborn", "null"} => state[t] \in {"unborn", "null"}
  /\ \/ called'[t] = called[t]
     \/ called'[t] = ~stopRequested[t] /\ state'[t] = "work"

(* A switch moves the task that is switched to and the running task only.    *)
LEMMA SwitchMoves ==
  ASSUME Consistent, NEW by, GivesWay(by), RunNext(by) \/ RunRoot(by),
         by = "hold" => ~stopRequested[CurrentTask], stopRequested' = stopRequested,
         NEW t \in Tasks
  PROVE  Moves(t)
<1>1. TypeOK BY DEF Consistent
<1>2. PICK n : /\ SwitchState(by, n)
               /\ n \in Tasks => state[n] \in Queued \union {"null"}
               /\ \/ called' = called
                  \/ n \in Tasks /\ called' = [called EXCEPT ![n] = ~stopRequested[n]]
  <2>1. CASE RunNext(by) BY <2>1, RunNextFacts
  <2>2. CASE RunRoot(by) BY <2>2, NullAssumption DEF RunRoot
  <2> QED BY <2>1, <2>2
<1>3. state'[t] = IF t = n THEN "work"
                  ELSE IF t = CurrentTask
                  THEN IF by = "yield" THEN "readyLowPriority"
                       ELSE IF by = "hold" THEN "hold" ELSE "dead"
                  ELSE state[t]
  BY <1>2, SwitchFacts
<1>4. t = CurrentTask => state[t] = "work"
  BY CurrentFacts, RootFacts
<1>5. called'[t] = called[t] \/ (called'[t] = ~stopRequested[t] /\ t = n)
  BY <1>1, <1>2 DEF TypeOK
<1> QED BY <1>2, <1>3, <1>4, <1>5 DEF Moves, Queued

(* Every step moves every task in one of those ways.                         *)
LEMMA StepMoves ==
  ASSUME Consistent, [Next]_vars, NEW t \in Tasks
  PROVE  Moves(t)
<1>1. TypeOK BY DEF Consistent
<1>2. ASSUME NEW u \in Tasks, NEW stopped \in BOOLEAN, SpawnTask(u, stopped)
      PROVE  Moves(t)
  BY <1>1, <1>2 DEF TypeOK, SpawnTask, Moves
<1>3. ASSUME NEW u \in Tasks, Ready(u) PROVE Moves(t)
  BY <1>1, <1>3 DEF TypeOK, Ready, MakeReady, Moves
<1>4. ASSUME NEW u \in Tasks, StopTask(u) PROVE Moves(t)
  BY <1>1, <1>4 DEF TypeOK, StopTask, MakeReady, Moves
<1>5. ASSUME NEW u \in Tasks, SwitchTo(u) PROVE Moves(t)
  <2>1. t = CurrentTask => state[t] = "work" BY CurrentFacts, RootFacts
  <2> QED BY <1>1, <1>5, <2>1 DEF TypeOK, SwitchTo, Moves, Queued
<1>11. ASSUME NEW u \in Tasks, Unstop(u) PROVE Moves(t)
  BY <1>1, <1>11 DEF TypeOK, Unstop, Moves
<1>6. CASE Yield BY <1>6, SwitchMoves DEF Yield, GivesWay
<1>7. CASE Hold BY <1>7, SwitchMoves DEF Hold, GivesWay
<1>8. CASE TaskCompleted BY <1>8, SwitchMoves DEF TaskCompleted, GivesWay
<1>9. CASE ExecuteNext BY <1>9, SwitchMoves DEF ExecuteNext, GivesWay
<1>10. CASE ExecuteReadyFibers \/ RootReturns \/ UNCHANGED vars
  BY <1>10 DEF ExecuteReadyFibers, RootReturns, vars, Moves
<1> QED BY <1>2, <1>3, <1>4, <1>5, <1>6, <1>7, <1>8, <1>9, <1>10, <1>11 DEF Next

(* A task that was asked to stop never sleeps: neither the order of hold and *)
(* stop nor a late ready can leave the request undelivered.                  *)
THEOREM StoppedIsNeverHeld == Spec => []StoppedNeverHeld
<1>1. Init => StoppedNeverHeld BY DEF Init, StoppedNeverHeld
<1>2. StoppedNeverHeld /\ Consistent /\ [Next]_vars => StoppedNeverHeld'
  BY StepMoves DEF StoppedNeverHeld, Moves
<1> QED BY <1>1, <1>2, AlwaysConsistent, PTL DEF Spec

(* A task stopped while still in _spawnedTasks never enters its body, and a  *)
(* finished task never runs again.                                           *)
THEOREM StoppedIsNeverEntered == Spec => NeverEntered
<1>1. Init => NotYetEntered BY DEF Init, NotYetEntered
<1>2. NotYetEntered /\ Consistent /\ [Next]_vars => NotYetEntered'
  BY StepMoves DEF NotYetEntered, Moves
<1>3. NotYetEntered /\ Consistent /\ [Next]_vars
        => [\A t \in Tasks :
              /\ state[t] = "null" /\ stopRequested[t] => ~called'[t]
              /\ state[t] = "dead" => state'[t] = "dead"]_vars
  BY StepMoves DEF NotYetEntered, Moves
<1> QED BY <1>1, <1>2, <1>3, AlwaysConsistent, PTL DEF Spec, NeverEntered

-----------------------------------------------------------------------------
(* The scheduler below: waking the tasks of an owner.                        *)

LEMMA RangeFinite ==
  ASSUME NEW S, NEW l \in Seq(S), NEW T \in SUBSET Range(l)
  PROVE  Cardinality(T) \in Nat
<1>1. l \in Surjection(1..Len(l), Range(l)) BY DEF Surjection, Range
<1>2. Len(l) \in Int /\ IsFiniteSet(1..Len(l)) BY FS_Interval
<1>3. IsFiniteSet(Range(l)) BY <1>1, <1>2, FS_Surjection
<1>4. IsFiniteSet(T) BY <1>3, FS_Subset
<1> QED BY <1>4, FS_CardinalityType

(* The fibers of held tasks that are woken in the order of their list.       *)
LEMMA WokenFacts ==
  ASSUME Consistent, NEW l \in Seq(Tasks), IsInjective(l),
         NEW held, held = {t \in Range(l) : state[t] = "hold"},
         NEW woken \in [1..Cardinality(held) -> held], Range(woken) = held, InOrderOf(l, woken)
  PROVE  /\ FibersOf(woken) \in Seq(Fibers) /\ IsInjective(FibersOf(woken))
         /\ Range(FibersOf(woken)) = {fiberOf[t] : t \in held}
<1> DEFINE fs == FibersOf(woken)
<1>1. Cardinality(held) \in Nat BY RangeFinite
<1>2. held \subseteq Tasks BY DEF Range
<1>3. ASSUME NEW t \in held PROVE fiberOf[t] \in Fibers /\ taskOf[fiberOf[t]] = t
  <2>1. Bound(t) BY DEF Bound
  <2> QED BY <1>2, <2>1, TaskFacts
<1>4. DOMAIN fs = 1..Cardinality(held) /\ \A i \in 1..Cardinality(held) : fs[i] = fiberOf[woken[i]]
  BY DEF FibersOf
<1>5. fs \in Seq(Fibers)
  <2>1. fs \in [1..Cardinality(held) -> Fibers] BY <1>3, <1>4 DEF FibersOf
  <2> QED BY <1>1, <2>1, SeqDef
<1> HIDE DEF fs
<1>6. ASSUME NEW i \in DOMAIN woken, NEW j \in DOMAIN woken, i < j PROVE woken[i] # woken[j]
  <2>1. PICK m \in DOMAIN l, n \in DOMAIN l : m < n /\ l[m] = woken[i] /\ l[n] = woken[j]
    BY <1>6 DEF InOrderOf
  <2>2. m \in Int /\ n \in Int /\ m # n BY <2>1
  <2> QED BY <2>1, <2>2 DEF IsInjective
<1>7. IsInjective(fs)
  <2> SUFFICES ASSUME NEW i \in DOMAIN fs, NEW j \in DOMAIN fs, fs[i] = fs[j] PROVE i = j
    BY DEF IsInjective
  <2>1. woken[i] = woken[j] BY <1>3, <1>4
  <2>2. i \in Int /\ j \in Int BY <1>1, <1>4
  <2> QED BY <1>4, <1>6, <2>1, <2>2
<1>8. Range(fs) = {fiberOf[t] : t \in held}
  <2>1. \A x \in Range(fs) : \E i \in DOMAIN woken : x = fiberOf[woken[i]] BY <1>4, ZenonT(30) DEF Range
  <2>2. \A i \in DOMAIN woken : fiberOf[woken[i]] \in Range(fs) BY <1>4 DEF Range
  <2>3. \A t \in held : \E i \in DOMAIN woken : t = woken[i] BY DEF Range
  <2> QED BY <2>1, <2>2, <2>3
<1> QED BY <1>5, <1>7, <1>8 DEF fs

LEMMA StopEachConsistent ==
  ASSUME Consistent, NEW o \in Owners, tasksOf[o] \in Seq(Tasks), IsInjective(tasksOf[o]), StopEach(o)
  PROVE  Consistent'
<1> DEFINE held == {t \in Range(tasksOf[o]) : state[t] = "hold"}
           G == {fiberOf[t] : t \in held}
<1>1. TypeOK /\ NoRepeats /\ FibersLinked /\ FibersListed /\ SpawnedListed
  BY DEF Consistent, ListsAgree
<1>2. PICK woken \in [1..Cardinality(held) -> held] :
        /\ Range(woken) = held /\ InOrderOf(tasksOf[o], woken)
        /\ ready4Stop' = ready4Stop \o FibersOf(woken)
  BY DEF StopEach
<1>3. FibersOf(woken) \in Seq(Fibers) /\ IsInjective(FibersOf(woken)) /\ Range(FibersOf(woken)) = G
  BY <1>2, WokenFacts
<1>4. held \subseteq Tasks /\ \A t \in held : state[t] = "hold" BY DEF Range
<1>5. /\ stopRequested' = [t \in Tasks |-> stopRequested[t] \/ t \in Range(tasksOf[o])]
      /\ state' = [t \in Tasks |-> IF t \in held THEN "ready4Stop" ELSE state[t]]
      /\ hold' = hold \ G
      /\ UNCHANGED <<called, fiberOf, taskOf, fresh, current, root, spawned, ready, low, empty>>
  BY DEF StopEach, bind
<1> HIDE DEF held
<1>6. ASSUME NEW t \in held
      PROVE  /\ fiberOf[t] \in Fibers /\ taskOf[fiberOf[t]] = t /\ t # NoTask
             /\ fiberOf[t] \notin Range(ready4Stop)
  <2>1. t \in Tasks /\ Bound(t) BY <1>4 DEF Bound
  <2>2. fiberOf[t] \in Fibers /\ taskOf[fiberOf[t]] = t /\ t # NoTask
    BY <2>1, TaskFacts, NullAssumption
  <2> QED BY <1>1, <1>4, <2>2 DEF FibersListed, Serves
<1>7. /\ G \subseteq Fibers /\ G \cap Range(ready4Stop) = {}
      /\ \A f \in Fibers : f \in G <=> taskOf[f] \in held
  <2>1. \A f \in Fibers : taskOf[f] \in held => fiberOf[taskOf[f]] = f
    BY <1>1, <1>6 DEF FibersLinked
  <2> QED BY <1>6, <2>1
<1> HIDE DEF G
<1>8. /\ ready4Stop' \in Seq(Fibers) /\ IsInjective(ready4Stop')
      /\ Range(ready4Stop') = Range(ready4Stop) \union G
  BY <1>1, <1>2, <1>3, <1>7, ConcatFacts DEF TypeOK, NoRepeats
<1>9. TypeOK'
  <2>1. stopRequested' \in [Tasks -> BOOLEAN] BY <1>1, <1>5 DEF TypeOK
  <2>2. state' \in [Tasks -> TaskState] BY <1>1, <1>5 DEF TypeOK, TaskState, Queued
  <2> QED BY <1>1, <1>5, <1>8, <2>1, <2>2 DEF TypeOK
<1>10. NoRepeats' BY <1>1, <1>5, <1>8 DEF NoRepeats
<1>11. FibersLinked'
  <2>1. \A s \in Tasks : Bound(s)' <=> Bound(s)
    BY <1>1, <1>4, <1>5 DEF TypeOK, Bound, Queued
  <2>2. \A f \in Fibers : taskOf[f] # NoTask => taskOf[f] \in Tasks
    BY <1>1 DEF TypeOK
  <2> QED BY <1>1, <1>5, <2>1, <2>2 DEF FibersLinked
<1>12. FibersListed'
  <2> SUFFICES ASSUME NEW f \in Fibers
               PROVE  /\ f = current'            <=> Serves(f, "work")'
                      /\ f \in hold'             <=> Serves(f, "hold")'
                      /\ f \in Range(ready4Stop') <=> Serves(f, "ready4Stop")'
                      /\ f \in Range(ready')     <=> Serves(f, "ready")'
                      /\ f \in Range(low')       <=> Serves(f, "readyLowPriority")'
                      /\ f \in fresh' \union Range(empty') <=> taskOf'[f] = NoTask
                      /\ ~ (f \in fresh' /\ f \in Range(empty'))
    BY DEF FibersListed
  <2>1. CASE f \in G
    <3>1. taskOf[f] \in held /\ taskOf[f] # NoTask BY <1>6, <1>7, <2>1
    <3>2. Serves(f, "hold") BY <1>4, <3>1 DEF Serves
    <3>3. \A s : Serves(f, s)' <=> s = "ready4Stop"
      BY <1>4, <1>5, <3>1 DEF Serves
    <3> QED BY <1>1, <1>5, <1>8, <2>1, <3>2, <3>3 DEF FibersListed, Serves
  <2>2. CASE f \notin G
    <3>1. taskOf[f] \notin held BY <1>7, <2>2
    <3>2. \A s : Serves(f, s)' <=> Serves(f, s)
      BY <1>1, <1>5, <3>1 DEF TypeOK, Serves
    <3> QED BY <1>1, <1>5, <1>8, <2>2, <3>2 DEF FibersListed
  <2> QED BY <2>1, <2>2
<1>13. SpawnedListed'
  BY <1>1, <1>4, <1>5 DEF TypeOK, SpawnedListed
<1> QED BY <1>9, <1>10, <1>11, <1>12, <1>13 DEF Consistent, ListsAgree

-----------------------------------------------------------------------------
(* The owners.                                                               *)

Contexts == Tasks \union {NoTask}
Calls    == {"none", "stop", "stopNoWait", "flush", "flushNoWait", "wait", "destroy"}
Frames   == [call : Calls, on : Owners \union {NoOwner}, prev : Nat, count : Nat]

OwnersTyped ==
  /\ ownerOf \in [Tasks -> Owners \union {NoOwner}]
  /\ tasksOf \in [Owners -> Seq(Tasks)] /\ waiting \in [Owners -> Seq(Tasks)]
  /\ active \in [Owners -> BOOLEAN] /\ ownerStop \in [Owners -> BOOLEAN]
  /\ exists \in [Owners -> BOOLEAN]
  /\ frame \in [Contexts -> Frames]
  /\ program \in Programs

(* An owner's two lists have nothing twice, and what they have is its own.   *)
ListedOnce ==
  \A o \in Owners : /\ IsInjective(tasksOf[o]) /\ IsInjective(waiting[o])
                    /\ Range(tasksOf[o]) \cap Range(waiting[o]) = {}
ListedOwned ==
  \A o \in Owners : \A t \in Tasks :
    ownerOf[t] = o <=> t \in Range(tasksOf[o]) \union Range(waiting[o])

(* Only tasks between their birth and their end belong to owners: ~Body has  *)
(* unsubscribed the others.                                                  *)
OwnedAlive == \A t \in Tasks : ownerOf[t] # NoOwner => state[t] \notin {"unborn", "dead"}

(* _waiting is used, and the owner exists, while somebody is in its wait.    *)
WaitingUsed ==
  \A o \in Owners : /\ Range(waiting[o]) # {} => active[o]
                    /\ active[o] \/ Range(tasksOf[o]) # {} => exists[o]

(* _waitingActive is set exactly while one context is in the owner's wait.   *)
FramesAgree ==
  /\ \A c \in Contexts : frame[c].on = NoOwner <=> frame[c] = NoFrame
  /\ \A c \in Contexts : frame[c].on \in Owners => active[frame[c].on]
  /\ \A c, d \in Contexts : frame[c].on = frame[d].on /\ frame[c].on \in Owners => c = d
  /\ \A o \in Owners : active[o] => \E c \in Contexts : frame[c].on = o

(* In a program that only stops, whoever waits has stopped before.           *)
WaitersHaveStopped == OnlyStops => \A o \in Owners : active[o] => ownerStop[o]

(* In such a program a task that the wait has met runs no more, unless it is *)
(* in a wait itself: it can neither yield nor hold, so it is at work or done *)
(* or not begun.                                                             *)
MetHaveStopped ==
  OnlyStops => \A o \in Owners : \A t \in Range(waiting[o]) :
                 state[t] \in Queued \union {"hold"} => frame[t] # NoFrame

Below == Consistent /\ StoppedNeverHeld
Lists == OwnersTyped /\ ListedOnce /\ ListedOwned /\ OwnedAlive /\ WaitingUsed /\ FramesAgree
Stops == WaitersHaveStopped /\ StopReachesAll /\ MetHaveStopped
OwnerInv == Below /\ Lists /\ Stops

LEMMA ListedAreTasks ==
  ASSUME OwnersTyped, NEW o \in Owners
  PROVE  Range(tasksOf[o]) \subseteq Tasks /\ Range(waiting[o]) \subseteq Tasks
BY DEF OwnersTyped, Range

LEMMA CurrentContext ==
  ASSUME Consistent PROVE CurrentTask \in Contexts
BY CurrentFacts DEF CurrentTask, Contexts

(* What a step that only the scheduler takes can do to a task.               *)
Keeps(t) ==
  /\ state'[t] \in {"unborn", "dead"} => state[t] \in {"unborn", "dead"}
  /\ stopRequested[t] => stopRequested'[t]
  /\ state'[t] \in Queued \union {"hold"} => \/ state[t] \in Queued \union {"hold"}
                                             \/ state[t] = "work" /\ ~stopRequested[t]

LEMMA BelowNext ==
  ASSUME Below, [Next]_vars PROVE Below'
<1>1. Consistent' BY StepConsistent DEF Below
<1>2. StoppedNeverHeld' BY StepMoves DEF Below, StoppedNeverHeld, Moves
<1> QED BY <1>1, <1>2 DEF Below

LEMMA SwitchKeeps ==
  ASSUME Below, NEW by, GivesWay(by), RunNext(by) \/ RunRoot(by), by # "end",
         by # "root" => ~stopRequested[CurrentTask], stopRequested' = stopRequested,
         NEW t \in Tasks
  PROVE  Keeps(t)
<1>1. Consistent BY DEF Below
<1>2. PICK n : SwitchState(by, n)
  <2>1. CASE RunNext(by) BY <1>1, <2>1, RunNextFacts
  <2>2. CASE RunRoot(by) BY <2>2 DEF RunRoot
  <2> QED BY <2>1, <2>2
<1>3. state'[t] = IF t = n THEN "work"
                  ELSE IF t = CurrentTask
                  THEN IF by = "yield" THEN "readyLowPriority"
                       ELSE IF by = "hold" THEN "hold" ELSE "dead"
                  ELSE state[t]
  BY <1>1, <1>2, SwitchFacts
<1>4. t = CurrentTask => state[t] = "work" /\ by # "root"
  BY <1>1, CurrentFacts, RootFacts DEF GivesWay
<1> QED BY <1>3, <1>4 DEF Keeps, Queued, GivesWay

LEMMA ElsewhereFacts ==
  ASSUME Below, Elsewhere
  PROVE  Below' /\ \A t \in Tasks : Keeps(t)
<1>1. [Next]_vars BY DEF Elsewhere, Next
<1>2. TypeOK BY DEF Below, Consistent
<1>3. ASSUME NEW t \in Tasks PROVE Keeps(t)
  <2>1. ASSUME NEW u \in Tasks, Ready(u) PROVE Keeps(t)
    BY <1>2, <2>1 DEF TypeOK, Ready, MakeReady, Keeps, Queued
  <2>2. ASSUME NEW u \in Tasks, StopTask(u) PROVE Keeps(t)
    BY <1>2, <2>2 DEF TypeOK, StopTask, MakeReady, Keeps, Queued
  <2>3. CASE Yield BY <2>3, SwitchKeeps DEF Yield, GivesWay
  <2>4. CASE Hold BY <2>4, SwitchKeeps DEF Hold, GivesWay
  <2>5. CASE ExecuteNext BY <2>5, SwitchKeeps DEF ExecuteNext, GivesWay
  <2>6. CASE ExecuteReadyFibers \/ RootReturns
    BY <2>6 DEF ExecuteReadyFibers, RootReturns, Keeps
  <2> QED BY <2>1, <2>2, <2>3, <2>4, <2>5, <2>6 DEF Elsewhere
<1> QED BY <1>1, <1>3, BelowNext

LEMMA ElsewhereKeeps ==
  ASSUME OwnerInv, Elsewhere, UNCHANGED program
  PROVE  OwnerInv'
<1>1. Below' /\ \A t \in Tasks : Keeps(t) BY ElsewhereFacts DEF OwnerInv
<1>2. UNCHANGED <<ownerOf, tasksOf, waiting, active, ownerStop, exists, frame>>
  BY DEF Elsewhere, ownerVars
<1>3. Lists'
  BY <1>1, <1>2 DEF OwnerInv, Lists, OwnersTyped, ListedOnce, ListedOwned, OwnedAlive, WaitingUsed,
                    FramesAgree, Keeps
<1>4. WaitersHaveStopped' /\ StopReachesAll'
  BY <1>1, <1>2 DEF OwnerInv, Stops, WaitersHaveStopped, StopReachesAll, OnlyStops, Keeps
<1>5. MetHaveStopped'
  <2> SUFFICES ASSUME OnlyStops, NEW o \in Owners, NEW t \in Range(waiting[o]),
                      state'[t] \in Queued \union {"hold"}
               PROVE  frame[t] # NoFrame
    BY <1>2 DEF MetHaveStopped, OnlyStops
  <2>1. t \in Tasks /\ ownerOf[t] = o
    BY DEF OwnerInv, Lists, OwnersTyped, ListedOwned, Range
  <2>2. stopRequested[t]
    BY <2>1, OwnerAssumption
    DEF OwnerInv, Lists, WaitingUsed, Stops, WaitersHaveStopped, StopReachesAll
  <2>3. state[t] \in Queued \union {"hold"}
    BY <1>1, <2>1, <2>2 DEF Keeps
  <2> QED BY <2>3 DEF OwnerInv, Stops, MetHaveStopped
<1> QED BY <1>1, <1>3, <1>4, <1>5 DEF OwnerInv, Stops

-----------------------------------------------------------------------------
(* unsubscribe takes the task out of the one list that has it.               *)
LEMMA UnsubscribedFacts ==
  ASSUME NEW l \in [Owners -> Seq(Tasks)], \A o \in Owners : IsInjective(l[o]), NEW t
  PROVE  /\ Unsubscribed(l, t) \in [Owners -> Seq(Tasks)]
         /\ \A o \in Owners : /\ IsInjective(Unsubscribed(l, t)[o])
                              /\ Range(Unsubscribed(l, t)[o]) = Range(l[o]) \ {t}
<1>1. ASSUME NEW o \in Owners
      PROVE  /\ Unsubscribed(l, t)[o] \in Seq(Tasks)
             /\ IsInjective(Unsubscribed(l, t)[o])
             /\ Range(Unsubscribed(l, t)[o]) = Range(l[o]) \ {t}
  <2>1. CASE t \in Range(l[o])
    <3>1. Unsubscribed(l, t)[o] = Removed(l[o], t) BY <2>1 DEF Unsubscribed
    <3> QED BY <2>1, <3>1, RemovedFacts
  <2>2. CASE t \notin Range(l[o])
    <3>1. Unsubscribed(l, t)[o] = l[o] BY <2>2 DEF Unsubscribed
    <3> QED BY <2>2, <3>1
  <2> QED BY <2>1, <2>2
<1>2. Unsubscribed(l, t) = [o \in Owners |-> Unsubscribed(l, t)[o]] BY DEF Unsubscribed
<1> QED BY <1>1, <1>2

(* A new task has no owner yet; it takes over the request of the owner that  *)
(* it gets.                                                                  *)
LEMMA SpawnKeeps ==
  ASSUME OwnerInv, NEW t \in Tasks, NEW o \in Owners \union {NoOwner}, Spawn(t, o),
         UNCHANGED program
  PROVE  OwnerInv'
<1> DEFINE stopped == o \in Owners /\ ownerStop[o]
<1>1. TypeOK /\ OwnersTyped /\ ListedOnce /\ ListedOwned
  BY DEF OwnerInv, Below, Consistent, Lists
<1>2. /\ stopped \in BOOLEAN /\ SpawnTask(t, stopped) /\ (o \in Owners => exists[o])
      /\ ownerOf' = [ownerOf EXCEPT ![t] = o]
      /\ tasksOf' = IF o \in Owners THEN [tasksOf EXCEPT ![o] = Append(@, t)] ELSE tasksOf
      /\ UNCHANGED <<waiting, active, ownerStop, exists, frame>>
  BY <1>1 DEF Spawn, OwnersTyped
<1> HIDE DEF stopped
<1>3. Below'
  <2>1. Next BY <1>2 DEF Next
  <2> QED BY <2>1, BelowNext DEF OwnerInv
<1>4. state[t] = "unborn" /\ state' = [state EXCEPT ![t] = "null"]
      /\ stopRequested' = [stopRequested EXCEPT ![t] = stopped]
  BY <1>2 DEF SpawnTask
<1>5. ownerOf[t] = NoOwner BY <1>4 DEF OwnerInv, Lists, OwnedAlive
<1>6. \A p \in Owners : t \notin Range(tasksOf[p]) /\ t \notin Range(waiting[p])
  BY <1>1, <1>5, OwnerAssumption DEF ListedOwned
<1>7. \A p \in Owners : /\ tasksOf'[p] \in Seq(Tasks) /\ IsInjective(tasksOf'[p])
                        /\ Range(tasksOf'[p]) = Range(tasksOf[p]) \union (IF p = o THEN {t} ELSE {})
  BY <1>1, <1>2, <1>6, AppendFacts, OwnerAssumption DEF OwnersTyped, ListedOnce
<1>8. OwnersTyped'
  <2>1. tasksOf' \in [Owners -> Seq(Tasks)]
    BY <1>1, <1>2, AppendFacts DEF OwnersTyped
  <2> QED BY <1>1, <1>2, <2>1 DEF OwnersTyped
<1>9. ListedOnce' BY <1>1, <1>2, <1>6, <1>7 DEF ListedOnce
<1>10. ListedOwned'
  <2> SUFFICES ASSUME NEW p \in Owners, NEW u \in Tasks
               PROVE  ownerOf'[u] = p <=> u \in Range(tasksOf'[p]) \union Range(waiting[p])
    BY <1>2 DEF ListedOwned
  <2>1. ownerOf'[u] = IF u = t THEN o ELSE ownerOf[u] BY <1>1, <1>2 DEF OwnersTyped
  <2>2. Range(tasksOf'[p]) = Range(tasksOf[p]) \union (IF p = o THEN {t} ELSE {}) BY <1>7
  <2> QED BY <1>1, <1>6, <2>1, <2>2 DEF ListedOwned
<1>11. OwnedAlive'
  BY <1>1, <1>2, <1>4 DEF OwnerInv, Lists, OwnersTyped, TypeOK, OwnedAlive
<1>12. WaitingUsed' BY <1>2, <1>7 DEF OwnerInv, Lists, WaitingUsed
<1>13. FramesAgree' BY <1>2 DEF OwnerInv, Lists, FramesAgree
<1>14. WaitersHaveStopped' BY <1>2 DEF OwnerInv, Stops, WaitersHaveStopped, OnlyStops
<1>15. StopReachesAll'
  <2> SUFFICES ASSUME OnlyStops, NEW u \in Tasks, ownerOf'[u] # NoOwner, ownerStop[ownerOf'[u]]
               PROVE  stopRequested'[u]
    BY <1>2 DEF StopReachesAll, OnlyStops
  <2>1. CASE u = t
    <3>1. ownerOf'[u] = o /\ stopRequested'[u] = stopped
      BY <1>1, <1>2, <1>4, <2>1 DEF OwnersTyped, TypeOK
    <3> QED BY <3>1 DEF stopped
  <2>2. CASE u # t
    <3>1. ownerOf'[u] = ownerOf[u] /\ stopRequested'[u] = stopRequested[u]
      BY <1>1, <1>2, <1>4, <2>2 DEF OwnersTyped, TypeOK
    <3> QED BY <3>1 DEF OwnerInv, Stops, StopReachesAll
  <2> QED BY <2>1, <2>2
<1>16. MetHaveStopped'
  BY <1>1, <1>2, <1>4, <1>6 DEF OwnerInv, Stops, MetHaveStopped, OnlyStops, TypeOK
<1> QED BY <1>3, <1>8, <1>9, <1>10, <1>11, <1>12, <1>13, <1>14, <1>15, <1>16
        DEF OwnerInv, Lists, Stops

(* ownTo moves the task from its owner's lists to the new owner's; what is   *)
(* said of programs that only stop is said of programs without it.           *)
LEMMA OwnToKeeps ==
  ASSUME OwnerInv, NEW t \in program.reowns, NEW o \in Owners \union {NoOwner}, OwnTo(t, o),
         UNCHANGED program
  PROVE  OwnerInv'
<1> DEFINE l == Unsubscribed(tasksOf, t)
<1>1. OwnersTyped /\ ListedOnce /\ ListedOwned /\ ~ OnlyStops
  BY DEF OwnerInv, Lists, OnlyStops
<1>2. t \in Tasks BY <1>1, OwnerAssumption DEF OwnersTyped
<1>3. /\ (StopTask(t) \/ Unstop(t)) /\ (o \in Owners => exists[o])
      /\ ownerOf' = [ownerOf EXCEPT ![t] = o]
      /\ tasksOf' = IF o \in Owners THEN [l EXCEPT ![o] = Append(@, t)] ELSE l
      /\ waiting' = Unsubscribed(waiting, t)
      /\ UNCHANGED <<active, ownerStop, exists, frame>>
  BY DEF OwnTo
<1>4. /\ l \in [Owners -> Seq(Tasks)]
      /\ \A p \in Owners : IsInjective(l[p]) /\ Range(l[p]) = Range(tasksOf[p]) \ {t}
  BY <1>1, UnsubscribedFacts DEF OwnersTyped, ListedOnce
<1>5. /\ waiting' \in [Owners -> Seq(Tasks)]
      /\ \A p \in Owners : IsInjective(waiting'[p]) /\ Range(waiting'[p]) = Range(waiting[p]) \ {t}
  BY <1>1, <1>3, UnsubscribedFacts DEF OwnersTyped, ListedOnce
<1> HIDE DEF l
<1>6. /\ tasksOf' \in [Owners -> Seq(Tasks)]
      /\ \A p \in Owners :
           /\ IsInjective(tasksOf'[p])
           /\ Range(tasksOf'[p]) = (Range(tasksOf[p]) \ {t}) \union (IF p = o THEN {t} ELSE {})
  BY <1>2, <1>3, <1>4, AppendFacts, OwnerAssumption
<1>7. Below'
  <2>1. Next BY <1>2, <1>3 DEF Next
  <2> QED BY <2>1, BelowNext DEF OwnerInv
<1>8. OwnersTyped' BY <1>1, <1>2, <1>3, <1>5, <1>6 DEF OwnersTyped
<1>9. ListedOnce' BY <1>1, <1>5, <1>6 DEF ListedOnce
<1>10. ListedOwned'
  <2> SUFFICES ASSUME NEW p \in Owners, NEW u \in Tasks
               PROVE  ownerOf'[u] = p <=> u \in Range(tasksOf'[p]) \union Range(waiting'[p])
    BY DEF ListedOwned
  <2>1. ownerOf'[u] = IF u = t THEN o ELSE ownerOf[u] BY <1>1, <1>3 DEF OwnersTyped
  <2>2. /\ Range(tasksOf'[p]) = (Range(tasksOf[p]) \ {t}) \union (IF p = o THEN {t} ELSE {})
        /\ Range(waiting'[p]) = Range(waiting[p]) \ {t}
    BY <1>5, <1>6
  <2> QED BY <1>1, <2>1, <2>2 DEF ListedOwned
<1>11. OwnedAlive'
  <2>1. TypeOK BY DEF OwnerInv, Below, Consistent
  <2>2. state[t] \notin {"unborn", "dead"} BY <1>3 DEF StopTask, Unstop
  <2>3. \A u \in Tasks : state'[u] = state[u] \/ state'[u] = "ready4Stop"
    BY <1>3, <2>1 DEF StopTask, Unstop, MakeReady, TypeOK
  <2>4. \A u \in Tasks : u # t => ownerOf'[u] = ownerOf[u] BY <1>1, <1>3 DEF OwnersTyped
  <2> QED BY <2>2, <2>3, <2>4 DEF OwnerInv, Lists, OwnedAlive
<1>12. WaitingUsed' BY <1>3, <1>5, <1>6 DEF OwnerInv, Lists, WaitingUsed
<1>13. FramesAgree' BY <1>3 DEF OwnerInv, Lists, FramesAgree
<1>14. Stops' BY <1>1 DEF Stops, WaitersHaveStopped, StopReachesAll, MetHaveStopped, OnlyStops
<1> QED BY <1>7, <1>8, <1>9, <1>10, <1>11, <1>12, <1>13, <1>14 DEF OwnerInv, Lists

(* A task that has returned from its body leaves its owner.                  *)
LEMMA CompleteKeeps ==
  ASSUME OwnerInv, Complete, UNCHANGED program
  PROVE  OwnerInv'
<1> DEFINE t == CurrentTask
<1>1. Consistent /\ OwnersTyped /\ ListedOnce /\ ListedOwned
  BY DEF OwnerInv, Below, Lists
<1>2. /\ ownerOf' = [ownerOf EXCEPT ![t] = NoOwner]
      /\ tasksOf' = Unsubscribed(tasksOf, t) /\ waiting' = Unsubscribed(waiting, t)
      /\ UNCHANGED <<active, ownerStop, exists, frame>>
  BY DEF Complete, TaskCompleted
<1>3. /\ current # NoFiber /\ (RunNext("end") \/ RunRoot("end")) /\ stopRequested' = stopRequested
  BY DEF Complete, TaskCompleted
<1>4. t \in Tasks BY <1>1, <1>3, CurrentFacts
<1>5. GivesWay("end") BY <1>3 DEF GivesWay
<1>6. PICK n : SwitchState("end", n)
  <2>1. CASE RunNext("end") BY <1>1, <1>5, <2>1, RunNextFacts
  <2>2. CASE RunRoot("end") BY <2>2 DEF RunRoot
  <2> QED BY <1>3, <2>1, <2>2
<1>7. \A u \in Tasks : state'[u] = IF u = n THEN "work" ELSE IF u = t THEN "dead" ELSE state[u]
  BY <1>1, <1>5, <1>6, SwitchFacts
<1> HIDE DEF t
<1>8. Below'
  <2>1. Next BY DEF Next, Complete
  <2> QED BY <2>1, BelowNext DEF OwnerInv
<1>9. /\ tasksOf' \in [Owners -> Seq(Tasks)]
      /\ \A p \in Owners : IsInjective(tasksOf'[p]) /\ Range(tasksOf'[p]) = Range(tasksOf[p]) \ {t}
  BY <1>1, <1>2, UnsubscribedFacts DEF OwnersTyped, ListedOnce
<1>10. /\ waiting' \in [Owners -> Seq(Tasks)]
       /\ \A p \in Owners : IsInjective(waiting'[p]) /\ Range(waiting'[p]) = Range(waiting[p]) \ {t}
  BY <1>1, <1>2, UnsubscribedFacts DEF OwnersTyped, ListedOnce
<1>11. \A u \in Tasks : ownerOf'[u] = IF u = t THEN NoOwner ELSE ownerOf[u]
  BY <1>1, <1>2 DEF OwnersTyped
<1>12. OwnersTyped' BY <1>1, <1>2, <1>9, <1>10 DEF OwnersTyped
<1>13. ListedOnce' BY <1>1, <1>9, <1>10 DEF ListedOnce
<1>14. ListedOwned' BY <1>1, <1>9, <1>10, <1>11, OwnerAssumption DEF ListedOwned
<1>15. OwnedAlive' BY <1>7, <1>11 DEF OwnerInv, Lists, OwnedAlive
<1>16. WaitingUsed' BY <1>2, <1>9, <1>10 DEF OwnerInv, Lists, WaitingUsed
<1>17. FramesAgree' BY <1>2 DEF OwnerInv, Lists, FramesAgree
<1>18. WaitersHaveStopped' BY <1>2 DEF OwnerInv, Stops, WaitersHaveStopped, OnlyStops
<1>19. StopReachesAll'
  BY <1>2, <1>3, <1>11 DEF OwnerInv, Stops, StopReachesAll, OnlyStops
<1>20. MetHaveStopped'
  <2> SUFFICES ASSUME OnlyStops, NEW o \in Owners, NEW u \in Range(waiting'[o]),
                      state'[u] \in Queued \union {"hold"}
               PROVE  frame[u] # NoFrame
    BY <1>2 DEF MetHaveStopped, OnlyStops
  <2>1. u \in Range(waiting[o]) /\ u # t /\ u \in Tasks
    BY <1>1, <1>10, ListedAreTasks
  <2>2. state'[u] = state[u] BY <1>7, <2>1 DEF Queued
  <2> QED BY <2>1, <2>2 DEF OwnerInv, Stops, MetHaveStopped
<1> QED BY <1>8, <1>12, <1>13, <1>14, <1>15, <1>16, <1>17, <1>18, <1>19, <1>20
        DEF OwnerInv, Lists, Stops

(* stop, flush, wait and ~Owner: everybody listed in _tasks is told, and in  *)
(* a program that only stops those in _waiting have been told before.        *)
LEMMA CallKeeps ==
  ASSUME OwnerInv, NEW o \in Owners, NEW call \in program.calls, Call(o, call), UNCHANGED program
  PROVE  OwnerInv'
<1> DEFINE waits == call \in {"stop", "flush", "wait", "destroy"} /\ ~active[o]
           c     == CurrentTask
<1>1. Consistent /\ TypeOK /\ OwnersTyped /\ ListedOnce /\ ListedOwned /\ FramesAgree
  BY DEF OwnerInv, Below, Consistent, Lists
<1>2. /\ UserCode /\ frame[c] = NoFrame /\ exists[o]
      /\ IF call # "wait" THEN StopEach(o) ELSE UNCHANGED vars
      /\ ownerStop' = [ownerStop EXCEPT ![o] =
                         IF call = "flushNoWait" \/ (call = "flush" /\ ~waits) THEN FALSE
                         ELSE call # "wait" \/ @]
      /\ active' = [active EXCEPT ![o] = waits \/ @]
      /\ frame' = IF waits
                  THEN [frame EXCEPT ![c] = [call |-> call, on |-> o, prev |-> 0, count |-> 0]]
                  ELSE frame
      /\ UNCHANGED <<ownerOf, tasksOf, waiting, exists>>
  BY DEF Call, Free
<1>3. c \in Contexts BY <1>1, CurrentContext
<1>4. /\ call \in Calls
      /\ OnlyStops => call \in {"stop", "stopNoWait", "destroy"}
  <2>1. program \in Programs BY <1>1 DEF OwnersTyped
  <2>2. call \in Calls BY <2>1, OwnerAssumption DEF Calls
  <2> QED BY <2>2 DEF OnlyStops
<1> HIDE DEF c
<1>5. waits \in BOOLEAN /\ (waits => ~active[o]) OBVIOUS
<1> HIDE DEF waits
<1>6. \A t \in Tasks :
        /\ state'[t] = IF call # "wait" /\ t \in Range(tasksOf[o]) /\ state[t] = "hold"
                       THEN "ready4Stop" ELSE state[t]
        /\ stopRequested'[t] = (stopRequested[t] \/ (call # "wait" /\ t \in Range(tasksOf[o])))
  <2>1. CASE call # "wait" BY <1>1, <1>2, <2>1 DEF StopEach, TypeOK
  <2>2. CASE call = "wait" BY <1>1, <1>2, <2>2 DEF vars, TypeOK
  <2> QED BY <2>1, <2>2
<1>7. Below'
  <2>1. Consistent'
    <3>1. CASE call # "wait"
      BY <1>1, <1>2, <3>1, StopEachConsistent DEF OwnersTyped, ListedOnce
    <3>2. CASE call = "wait" BY <1>1, <1>2, <3>2, StepConsistent
    <3> QED BY <3>1, <3>2
  <2>2. StoppedNeverHeld'
    BY <1>6 DEF OwnerInv, Below, StoppedNeverHeld
  <2> QED BY <2>1, <2>2 DEF Below
<1>8. OwnersTyped'
  <2>1. frame' \in [Contexts -> Frames]
    BY <1>1, <1>2, <1>4 DEF OwnersTyped, Frames
  <2>2. ownerStop' \in [Owners -> BOOLEAN] /\ active' \in [Owners -> BOOLEAN]
    BY <1>1, <1>2, <1>5 DEF OwnersTyped
  <2> QED BY <1>1, <1>2, <2>1, <2>2 DEF OwnersTyped
<1>9. ListedOnce' /\ ListedOwned' BY <1>1, <1>2 DEF ListedOnce, ListedOwned
<1>10. OwnedAlive' BY <1>2, <1>6 DEF OwnerInv, Lists, OwnedAlive
<1>11. \A p \in Owners : active'[p] <=> active[p] \/ (p = o /\ waits)
  BY <1>1, <1>2 DEF OwnersTyped
<1>12. WaitingUsed' BY <1>2, <1>11 DEF OwnerInv, Lists, WaitingUsed
<1>13. FramesAgree'
  <2>1. CASE ~waits BY <1>1, <1>2, <1>11, <2>1 DEF FramesAgree
  <2>2. CASE waits
    <3>1. \A d \in Contexts : frame'[d] = IF d = c
                                          THEN [call |-> call, on |-> o, prev |-> 0, count |-> 0]
                                          ELSE frame[d]
      BY <1>1, <1>2, <2>2 DEF OwnersTyped
    <3>2. frame'[c].on = o /\ frame'[c] # NoFrame
      BY <1>3, <3>1, OwnerAssumption DEF NoFrame
    <3>3. \A d \in Contexts : d # c => frame'[d] = frame[d] /\ frame[d].on # o
      BY <1>1, <1>5, <2>2, <3>1 DEF FramesAgree
    <3>4. frame[c].on \notin Owners BY <1>2, OwnerAssumption DEF NoFrame
    <3> QED BY <1>1, <1>3, <1>11, <2>2, <3>2, <3>3, <3>4, OwnerAssumption DEF FramesAgree
  <2> QED BY <1>5, <2>1, <2>2
<1>14. OnlyStops => \A p \in Owners : ownerStop'[p] <=> ownerStop[p] \/ p = o
  BY <1>1, <1>2, <1>4 DEF OwnersTyped
<1>15. WaitersHaveStopped'
  BY <1>2, <1>11, <1>14 DEF OwnerInv, Stops, WaitersHaveStopped, OnlyStops
<1>16. StopReachesAll'
  <2> SUFFICES ASSUME OnlyStops, NEW t \in Tasks, ownerOf[t] # NoOwner, ownerStop'[ownerOf[t]]
               PROVE  stopRequested'[t]
    BY <1>2 DEF StopReachesAll, OnlyStops
  <2>1. ownerOf[t] \in Owners BY <1>1 DEF OwnersTyped
  <2>2. CASE ownerStop[ownerOf[t]]
    BY <1>6, <2>2 DEF OwnerInv, Stops, StopReachesAll
  <2>3. CASE ~ownerStop[ownerOf[t]]
    <3>1. ownerOf[t] = o BY <1>14, <2>1, <2>3
    <3>2. t \notin Range(waiting[o])
      BY <2>3, <3>1 DEF OwnerInv, Lists, WaitingUsed, Stops, WaitersHaveStopped
    <3>3. t \in Range(tasksOf[o]) BY <1>1, <3>1, <3>2 DEF ListedOwned
    <3> QED BY <1>4, <1>6, <3>3
  <2> QED BY <2>2, <2>3
<1>17. MetHaveStopped'
  <2> SUFFICES ASSUME OnlyStops, NEW p \in Owners, NEW t \in Range(waiting[p]),
                      state'[t] \in Queued \union {"hold"}
               PROVE  frame'[t] # NoFrame
    BY <1>2 DEF MetHaveStopped, OnlyStops
  <2>1. t \in Tasks BY <1>1, ListedAreTasks
  <2>2. state[t] \in Queued \union {"hold"} BY <1>6, <2>1
  <2>3. frame[t] # NoFrame BY <2>2 DEF OwnerInv, Stops, MetHaveStopped
  <2>4. t # c BY <1>2, <2>3
  <2>5. frame'[t] = frame[t] BY <1>1, <1>2, <2>1, <2>4 DEF OwnersTyped, Contexts
  <2> QED BY <2>3, <2>5
<1> QED BY <1>7, <1>8, <1>9, <1>10, <1>12, <1>13, <1>15, <1>16, <1>17
        DEF OwnerInv, Lists, Stops

(* The context of a wait, and the owner that it waits for.                   *)
LEMMA WaitFacts ==
  ASSUME OwnerInv, Waits
  PROVE  /\ CurrentTask \in Contexts
         /\ frame[CurrentTask].on \in Owners /\ frame[CurrentTask] \in Frames
         /\ active[frame[CurrentTask].on] /\ exists[frame[CurrentTask].on]
<1>1. CurrentTask \in Contexts BY CurrentContext DEF OwnerInv, Below
<1>2. frame[CurrentTask] \in Frames BY <1>1 DEF OwnerInv, Lists, OwnersTyped
<1>3. frame[CurrentTask].on \in Owners
  BY <1>1, <1>2 DEF OwnerInv, Lists, FramesAgree, Waits, Frames
<1> QED BY <1>1, <1>2, <1>3 DEF OwnerInv, Lists, FramesAgree, WaitingUsed

(* A step of a wait: the context keeps its frame, with other counts.         *)
LEMMA CountKeeps ==
  ASSUME OwnersTyped, FramesAgree, NEW c \in Contexts, frame[c].on \in Owners,
         NEW x \in Nat, NEW y \in Nat,
         frame' = [frame EXCEPT ![c] = [frame[c] EXCEPT !.prev = x, !.count = y]],
         active' = active
  PROVE  /\ frame' \in [Contexts -> Frames] /\ FramesAgree'
         /\ \A d \in Contexts : frame[d] # NoFrame => frame'[d] # NoFrame
<1> DEFINE fr == [frame[c] EXCEPT !.prev = x, !.count = y]
<1>1. frame \in [Contexts -> Frames] BY DEF OwnersTyped
<1>2. fr \in Frames /\ fr.on = frame[c].on BY <1>1 DEF Frames
<1>3. frame' = [frame EXCEPT ![c] = fr] OBVIOUS
<1> HIDE DEF fr
<1>4. /\ frame' \in [Contexts -> Frames] /\ frame'[c] = fr
      /\ \A d \in Contexts : d # c => frame'[d] = frame[d]
  BY <1>1, <1>2, <1>3
<1>5. \A d \in Contexts : frame'[d].on = frame[d].on BY <1>2, <1>4
<1>6. frame[c] # NoFrame /\ frame'[c] # NoFrame
  <2>1. NoFrame.on = NoOwner BY DEF NoFrame
  <2>2. frame'[c].on = frame[c].on /\ frame[c].on # NoOwner BY <1>5, OwnerAssumption
  <2> QED BY <2>1, <2>2
<1>7. FramesAgree' BY <1>4, <1>5, <1>6, OwnerAssumption DEF FramesAgree
<1> QED BY <1>4, <1>6, <1>7

(* The inner loop of wait.  The next task goes from one list to the other;   *)
(* in a program that only stops it has been told, so that it is not held and *)
(* gets the processor if it is queued.                                       *)
LEMMA WaitNextKeeps ==
  ASSUME OwnerInv, WaitNext, UNCHANGED program
  PROVE  OwnerInv'
<1> DEFINE c == CurrentTask
           o == frame[CurrentTask].on
           t == Head(tasksOf[o])
           x == frame[CurrentTask].prev
           y == frame[CurrentTask].count + 1
<1>1. /\ Consistent /\ TypeOK /\ StoppedNeverHeld /\ OwnersTyped /\ ListedOnce /\ ListedOwned
      /\ FramesAgree
  BY DEF OwnerInv, Below, Consistent, Lists
<1>2. /\ Waits /\ tasksOf[o] # <<>>
      /\ tasksOf' = [tasksOf EXCEPT ![o] = Tail(@)]
      /\ waiting' = [waiting EXCEPT ![o] = Append(@, t)]
      /\ frame' = [frame EXCEPT ![c].count = @ + 1]
      /\ IF state[t] \in Queued THEN SwitchTo(t) ELSE UNCHANGED vars
      /\ UNCHANGED <<ownerOf, active, ownerStop, exists>>
  BY DEF WaitNext
<1>3. c \in Contexts /\ o \in Owners /\ frame[c] \in Frames /\ active[o] /\ frame[c].on = o
  BY <1>2, WaitFacts
<1>4. frame' = [frame EXCEPT ![c] = [frame[c] EXCEPT !.prev = x, !.count = y]]
  BY <1>1, <1>2, <1>3 DEF Frames, OwnersTyped
<1>5. x \in Nat /\ y \in Nat BY <1>3 DEF Frames
<1> HIDE DEF c, o, x, y
<1>6. /\ frame' \in [Contexts -> Frames] /\ FramesAgree'
      /\ \A d \in Contexts : frame[d] # NoFrame => frame'[d] # NoFrame
  <2>1. active' = active /\ frame[c].on \in Owners BY <1>2, <1>3
  <2> QED BY <1>1, <1>3, <1>4, <1>5, <2>1, CountKeeps
<1>7. tasksOf[o] \in Seq(Tasks) /\ waiting[o] \in Seq(Tasks) BY <1>1, <1>3 DEF OwnersTyped
<1>8. t \in Tasks /\ t \in Range(tasksOf[o]) /\ t \notin Range(waiting[o])
  BY <1>1, <1>2, <1>3, <1>7, TailFacts DEF ListedOnce
<1>9. /\ Tail(tasksOf[o]) \in Seq(Tasks) /\ IsInjective(Tail(tasksOf[o]))
      /\ Range(Tail(tasksOf[o])) = Range(tasksOf[o]) \ {t}
  BY <1>1, <1>2, <1>3, <1>7, TailFacts DEF ListedOnce
<1> HIDE DEF t
<1>10. /\ Append(waiting[o], t) \in Seq(Tasks) /\ IsInjective(Append(waiting[o], t))
       /\ Range(Append(waiting[o], t)) = Range(waiting[o]) \union {t}
  BY <1>1, <1>3, <1>7, <1>8, AppendFacts DEF ListedOnce
<1>11. /\ tasksOf' \in [Owners -> Seq(Tasks)] /\ waiting' \in [Owners -> Seq(Tasks)]
       /\ tasksOf'[o] = Tail(tasksOf[o]) /\ waiting'[o] = Append(waiting[o], t)
       /\ \A p \in Owners : p # o => tasksOf'[p] = tasksOf[p] /\ waiting'[p] = waiting[p]
  BY <1>1, <1>2, <1>3, <1>9, <1>10 DEF OwnersTyped
<1>12. /\ stopRequested' = stopRequested
       /\ \A u \in Tasks : state'[u] \in Queued \union {"hold"}
                             => u = c \/ (u # t /\ state[u] \in Queued \union {"hold"})
                                      \/ (u = t /\ state[u] = "hold")
       /\ \A u \in Tasks : state'[u] \in {"unborn", "dead"} => state[u] \in {"unborn", "dead"}
  <2>1. CASE state[t] \in Queued
    <3>1. SwitchTo(t) BY <1>2, <2>1
    <3>2. stopRequested' = stopRequested BY <3>1 DEF SwitchTo
    <3>3. \A u \in Tasks : u # t /\ u # c => state'[u] = state[u] BY <3>1 DEF SwitchTo, c
    <3>4. t = c \/ state'[t] = "work" BY <1>8, <3>1 DEF SwitchTo, c
    <3>5. \A u \in Tasks : u = c => state'[u] \notin {"unborn", "dead"} BY <3>1 DEF SwitchTo, c
    <3>6. t = c => state'[t] = "work" BY <1>8, <3>1 DEF SwitchTo
    <3> QED BY <3>2, <3>3, <3>4, <3>5, <3>6 DEF Queued
  <2>2. CASE state[t] \notin Queued BY <1>2, <2>2 DEF vars
  <2> QED BY <2>1, <2>2
<1>13. Below'
  <2>1. [Next]_vars BY <1>2, <1>8 DEF Next
  <2> QED BY <2>1, BelowNext DEF OwnerInv
<1>14. OwnersTyped' BY <1>1, <1>2, <1>6, <1>11 DEF OwnersTyped
<1>15. ListedOnce' BY <1>1, <1>9, <1>10, <1>11 DEF ListedOnce
<1>16. ListedOwned'
  <2> SUFFICES ASSUME NEW p \in Owners, NEW u \in Tasks
               PROVE  ownerOf[u] = p <=> u \in Range(tasksOf'[p]) \union Range(waiting'[p])
    BY <1>2 DEF ListedOwned
  <2>1. Range(tasksOf'[p]) \union Range(waiting'[p]) = Range(tasksOf[p]) \union Range(waiting[p])
    BY <1>8, <1>9, <1>10, <1>11
  <2> QED BY <1>1, <2>1 DEF ListedOwned
<1>17. OwnedAlive' BY <1>2, <1>12 DEF OwnerInv, Lists, OwnedAlive
<1>18. WaitingUsed' BY <1>2, <1>3, <1>8, <1>9, <1>11 DEF OwnerInv, Lists, WaitingUsed
<1>19. WaitersHaveStopped' /\ StopReachesAll'
  BY <1>2, <1>12 DEF OwnerInv, Stops, WaitersHaveStopped, StopReachesAll, OnlyStops
<1>20. MetHaveStopped'
  <2> SUFFICES ASSUME OnlyStops, NEW p \in Owners, NEW u \in Range(waiting'[p]),
                      state'[u] \in Queued \union {"hold"}
               PROVE  frame'[u] # NoFrame
    BY DEF MetHaveStopped, OnlyStops
  <2>1. u \in Tasks /\ u \in Contexts
    <3>1. u \in Range(waiting[p]) \union {t} BY <1>10, <1>11
    <3> QED BY <1>1, <1>8, <3>1, ListedAreTasks DEF Contexts
  <2>2. CASE u = c BY <1>2, <1>6, <2>1, <2>2 DEF Waits, c
  <2>3. CASE u # c
    <3>1. u # t => u \in Range(waiting[p]) BY <1>10, <1>11
    <3>2. stopRequested[t]
      <4>1. ownerOf[t] = o BY <1>1, <1>3, <1>8 DEF ListedOwned
      <4> QED BY <1>3, <1>8, <4>1, OwnerAssumption
              DEF OwnerInv, Stops, WaitersHaveStopped, StopReachesAll
    <3>3. state[t] # "hold" BY <1>1, <1>8, <3>2 DEF StoppedNeverHeld
    <3>4. u # t /\ state[u] \in Queued \union {"hold"} BY <1>12, <2>1, <2>3, <3>3
    <3>5. frame[u] # NoFrame BY <3>1, <3>4 DEF OwnerInv, Stops, MetHaveStopped
    <3> QED BY <1>6, <2>1, <3>5
  <2> QED BY <2>2, <2>3
<1> QED BY <1>6, <1>13, <1>14, <1>15, <1>16, <1>17, <1>18, <1>19, <1>20
        DEF OwnerInv, Lists, Stops

(* The next round: _waiting becomes _tasks.                                  *)
LEMMA WaitAgainKeeps ==
  ASSUME OwnerInv, WaitAgain, UNCHANGED program
  PROVE  OwnerInv'
<1> DEFINE c == CurrentTask
           o == frame[CurrentTask].on
<1>1. OwnersTyped /\ ListedOnce /\ ListedOwned /\ FramesAgree
  BY DEF OwnerInv, Lists
<1>2. /\ Waits /\ tasksOf[o] = <<>>
      /\ tasksOf' = [tasksOf EXCEPT ![o] = waiting[o]]
      /\ waiting' = [waiting EXCEPT ![o] = <<>>]
      /\ frame' = [frame EXCEPT ![c] = [frame[c] EXCEPT !.prev = frame[c].count, !.count = 0]]
      /\ UNCHANGED <<ownerOf, active, ownerStop, exists>>
      /\ UNCHANGED vars
  BY DEF WaitAgain
<1>3. c \in Contexts /\ o \in Owners /\ frame[c] \in Frames /\ active[o] /\ frame[c].on = o
      /\ exists[o]
  BY <1>2, WaitFacts
<1>4. frame[c].count \in Nat /\ 0 \in Nat BY <1>3 DEF Frames
<1> HIDE DEF c, o
<1>5. /\ frame' \in [Contexts -> Frames] /\ FramesAgree'
      /\ \A d \in Contexts : frame[d] # NoFrame => frame'[d] # NoFrame
  BY <1>1, <1>2, <1>3, <1>4, CountKeeps
<1>6. /\ tasksOf' \in [Owners -> Seq(Tasks)] /\ waiting' \in [Owners -> Seq(Tasks)]
      /\ tasksOf'[o] = waiting[o] /\ waiting'[o] = <<>>
      /\ \A p \in Owners : p # o => tasksOf'[p] = tasksOf[p] /\ waiting'[p] = waiting[p]
  BY <1>1, <1>2, <1>3 DEF OwnersTyped
<1>7. Range(<<>>) = {} /\ IsInjective(<<>>) BY DEF Range, IsInjective
<1>8. Below'
  BY <1>2, BelowNext DEF OwnerInv
<1>9. OwnersTyped' BY <1>1, <1>2, <1>5, <1>6 DEF OwnersTyped
<1>10. ListedOnce' BY <1>1, <1>6, <1>7 DEF ListedOnce
<1>11. ListedOwned'
  <2> SUFFICES ASSUME NEW p \in Owners, NEW u \in Tasks
               PROVE  ownerOf[u] = p <=> u \in Range(tasksOf'[p]) \union Range(waiting'[p])
    BY <1>2 DEF ListedOwned
  <2>1. Range(tasksOf'[p]) \union Range(waiting'[p]) = Range(tasksOf[p]) \union Range(waiting[p])
    BY <1>2, <1>6, <1>7
  <2> QED BY <1>1, <2>1 DEF ListedOwned
<1>12. OwnedAlive' BY <1>2 DEF OwnerInv, Lists, OwnedAlive, vars
<1>13. WaitingUsed' BY <1>2, <1>3, <1>6, <1>7 DEF OwnerInv, Lists, WaitingUsed
<1>14. WaitersHaveStopped' /\ StopReachesAll'
  BY <1>2 DEF OwnerInv, Stops, WaitersHaveStopped, StopReachesAll, OnlyStops, vars
<1>15. MetHaveStopped'
  <2> SUFFICES ASSUME OnlyStops, NEW p \in Owners, NEW u \in Range(waiting'[p]),
                      state[u] \in Queued \union {"hold"}
               PROVE  frame'[u] # NoFrame
    BY <1>2 DEF MetHaveStopped, OnlyStops, vars
  <2>1. u \in Range(waiting[p]) BY <1>6, <1>7
  <2>2. u \in Contexts /\ frame[u] # NoFrame
    BY <1>1, <2>1, ListedAreTasks DEF Contexts, OwnerInv, Stops, MetHaveStopped
  <2> QED BY <1>5, <2>2
<1> QED BY <1>5, <1>8, <1>9, <1>10, <1>11, <1>12, <1>13, <1>14, <1>15
        DEF OwnerInv, Lists, Stops

(* The end of the wait.  ~Owner lets go of those that are left.              *)
LEMMA WaitEndsKeeps ==
  ASSUME OwnerInv, WaitEnds, UNCHANGED program
  PROVE  OwnerInv'
<1> DEFINE c == CurrentTask
           o == frame[CurrentTask].on
           destroyed == frame[CurrentTask].call = "destroy"
           left == IF destroyed THEN {} ELSE Range(waiting[o])
<1>1. OwnersTyped /\ ListedOnce /\ ListedOwned /\ FramesAgree /\ Consistent
  BY DEF OwnerInv, Lists, Below
<1>2. /\ Waits /\ tasksOf[o] = <<>>
      /\ tasksOf' = [tasksOf EXCEPT ![o] = IF destroyed THEN <<>> ELSE waiting[o]]
      /\ waiting' = [waiting EXCEPT ![o] = <<>>]
      /\ ownerOf' = [t \in Tasks |-> IF ownerOf[t] = o /\ t \notin left THEN NoOwner ELSE ownerOf[t]]
      /\ active' = [active EXCEPT ![o] = FALSE]
      /\ ownerStop' = [ownerStop EXCEPT ![o] = @ /\ frame[c].call # "flush"]
      /\ exists' = [exists EXCEPT ![o] = ~destroyed]
      /\ frame' = [frame EXCEPT ![c] = NoFrame]
      /\ UNCHANGED vars
  BY DEF WaitEnds
<1>3. c \in Contexts /\ o \in Owners /\ frame[c] \in Frames /\ active[o] /\ frame[c].on = o
      /\ exists[o]
  BY <1>2, WaitFacts
<1>4. \A t \in Tasks : state[t] \in Queued \union {"hold"} => t # c
  BY <1>1, CurrentFacts, RootFacts DEF Queued
<1>5. NoFrame \in Frames /\ NoFrame.on = NoOwner BY DEF NoFrame, Frames, Calls
<1> HIDE DEF c, o, destroyed
<1>6. /\ tasksOf' \in [Owners -> Seq(Tasks)] /\ waiting' \in [Owners -> Seq(Tasks)]
      /\ tasksOf'[o] = (IF destroyed THEN <<>> ELSE waiting[o]) /\ waiting'[o] = <<>>
      /\ \A p \in Owners : p # o => tasksOf'[p] = tasksOf[p] /\ waiting'[p] = waiting[p]
  BY <1>1, <1>2, <1>3 DEF OwnersTyped
<1>7. /\ active' \in [Owners -> BOOLEAN] /\ ownerStop' \in [Owners -> BOOLEAN]
      /\ exists' \in [Owners -> BOOLEAN]
      /\ \A p \in Owners : /\ active'[p] <=> active[p] /\ p # o
                           /\ ownerStop'[p] => ownerStop[p]
                           /\ exists'[p] = IF p = o THEN ~destroyed ELSE exists[p]
                           /\ p # o => ownerStop'[p] = ownerStop[p]
  BY <1>1, <1>2, <1>3 DEF OwnersTyped
<1>8. /\ frame' \in [Contexts -> Frames]
      /\ \A d \in Contexts : frame'[d] = IF d = c THEN NoFrame ELSE frame[d]
  BY <1>1, <1>2, <1>5 DEF OwnersTyped
<1>9. Range(<<>>) = {} /\ IsInjective(<<>>) BY DEF Range, IsInjective
<1>10. \A t \in Tasks : ownerOf[t] = o <=> t \in Range(waiting[o])
  BY <1>1, <1>2, <1>3, <1>9 DEF ListedOwned
<1>11. \A t \in Tasks : ownerOf'[t] = IF ownerOf[t] = o /\ destroyed THEN NoOwner ELSE ownerOf[t]
  BY <1>2, <1>10
<1> HIDE DEF left
<1>12. Below' BY <1>2, BelowNext DEF OwnerInv
<1>13. OwnersTyped'
  <2>1. ownerOf' \in [Tasks -> Owners \union {NoOwner}] BY <1>1, <1>2 DEF OwnersTyped
  <2> QED BY <1>1, <1>6, <1>7, <1>8, <2>1 DEF OwnersTyped
<1>14. ListedOnce' BY <1>1, <1>3, <1>6, <1>9 DEF ListedOnce
<1>15. ListedOwned'
  <2> SUFFICES ASSUME NEW p \in Owners, NEW u \in Tasks
               PROVE  ownerOf'[u] = p <=> u \in Range(tasksOf'[p]) \union Range(waiting'[p])
    BY DEF ListedOwned
  <2>1. CASE p = o
    <3>1. Range(tasksOf'[o]) = (IF destroyed THEN {} ELSE Range(waiting[o]))
          /\ Range(waiting'[o]) = {}
      BY <1>6, <1>9
    <3> QED BY <1>3, <1>10, <1>11, <2>1, <3>1, OwnerAssumption
  <2>2. CASE p # o
    <3>1. ownerOf'[u] = p <=> ownerOf[u] = p BY <1>11, <2>2, OwnerAssumption
    <3> QED BY <1>1, <1>6, <2>2, <3>1 DEF ListedOwned
  <2> QED BY <2>1, <2>2
<1>16. OwnedAlive' BY <1>2, <1>11 DEF OwnerInv, Lists, OwnedAlive, vars
<1>17. WaitingUsed' BY <1>3, <1>6, <1>7, <1>9 DEF OwnerInv, Lists, WaitingUsed
<1>18. FramesAgree'
  BY <1>1, <1>3, <1>5, <1>7, <1>8, OwnerAssumption DEF FramesAgree
<1>19. WaitersHaveStopped'
  BY <1>7 DEF OwnerInv, Stops, WaitersHaveStopped, OnlyStops
<1>20. StopReachesAll'
  <2> SUFFICES ASSUME OnlyStops, NEW u \in Tasks, ownerOf'[u] # NoOwner, ownerStop'[ownerOf'[u]]
               PROVE  stopRequested[u]
    BY <1>2 DEF StopReachesAll, OnlyStops, vars
  <2>1. ownerOf'[u] = ownerOf[u] /\ ownerOf[u] \in Owners BY <1>1, <1>11 DEF OwnersTyped
  <2> QED BY <1>7, <2>1 DEF OwnerInv, Stops, StopReachesAll
<1>21. MetHaveStopped'
  <2> SUFFICES ASSUME OnlyStops, NEW p \in Owners, NEW u \in Range(waiting'[p]),
                      state[u] \in Queued \union {"hold"}
               PROVE  frame'[u] # NoFrame
    BY <1>2 DEF MetHaveStopped, OnlyStops, vars
  <2>1. u \in Range(waiting[p]) BY <1>6, <1>9
  <2>2. u \in Tasks /\ u \in Contexts /\ frame[u] # NoFrame
    BY <1>1, <2>1, ListedAreTasks DEF Contexts, OwnerInv, Stops, MetHaveStopped
  <2> QED BY <1>4, <1>8, <2>2
<1> QED BY <1>12, <1>13, <1>14, <1>15, <1>16, <1>17, <1>18, <1>19, <1>20, <1>21
        DEF OwnerInv, Lists, Stops

-----------------------------------------------------------------------------
LEMMA InitOwner == OwnerInit => OwnerInv
<1> SUFFICES ASSUME OwnerInit PROVE OwnerInv OBVIOUS
<1>1. Below BY InitConsistent DEF OwnerInit, Init, Below, StoppedNeverHeld
<1>2. Range(<<>>) = {} /\ IsInjective(<<>>) BY DEF Range, IsInjective
<1>3. NoFrame \in Frames /\ NoFrame.on = NoOwner BY DEF NoFrame, Frames, Calls
<1>4. OwnersTyped BY <1>3 DEF OwnerInit, OwnersTyped, Contexts
<1>5. ListedOnce /\ ListedOwned /\ OwnedAlive /\ WaitingUsed
  BY <1>2, OwnerAssumption DEF OwnerInit, ListedOnce, ListedOwned, OwnedAlive, WaitingUsed
<1>6. FramesAgree BY <1>3, OwnerAssumption DEF OwnerInit, FramesAgree, Contexts
<1>7. Stops
  BY <1>2 DEF OwnerInit, Stops, WaitersHaveStopped, StopReachesAll, MetHaveStopped
<1> QED BY <1>1, <1>4, <1>5, <1>6, <1>7 DEF OwnerInv, Lists

LEMMA StepOwner ==
  ASSUME OwnerInv, [OwnerNext]_allVars
  PROVE  OwnerInv'
<1>1. CASE UNCHANGED allVars
  <2>1. UNCHANGED vars /\ UNCHANGED program
        /\ UNCHANGED <<ownerOf, tasksOf, waiting, active, ownerStop, exists, frame>>
    BY <1>1 DEF allVars, ownerVars
  <2>2. Below' BY <2>1, BelowNext DEF OwnerInv
  <2>3. Lists'
    BY <2>1 DEF OwnerInv, Lists, OwnersTyped, ListedOnce, ListedOwned, OwnedAlive, WaitingUsed,
                FramesAgree, vars
  <2>4. Stops'
    BY <2>1 DEF OwnerInv, Stops, WaitersHaveStopped, StopReachesAll, MetHaveStopped, OnlyStops, vars
  <2> QED BY <2>2, <2>3, <2>4 DEF OwnerInv
<1>2. CASE OwnerNext
  BY <1>2, ElsewhereKeeps, SpawnKeeps, OwnToKeeps, CompleteKeeps, CallKeeps, WaitNextKeeps,
     WaitAgainKeeps, WaitEndsKeeps DEF OwnerNext
<1> QED BY <1>1, <1>2

LEMMA AlwaysOwnerInv == OwnerSpec => []OwnerInv
<1>1. OwnerInv /\ [OwnerNext]_allVars => OwnerInv' BY StepOwner
<1> QED BY InitOwner, <1>1, PTL DEF OwnerSpec

(* The number of contexts in an owner's wait is one, or none.                *)
LEMMA OneWaits ==
  ASSUME FramesAgree, NEW o \in Owners
  PROVE  active[o] <=> Cardinality({c \in Contexts : frame[c].on = o}) = 1
<1> DEFINE W == {c \in Contexts : frame[c].on = o}
<1>1. CASE active[o]
  <2>1. PICK c \in Contexts : frame[c].on = o BY <1>1 DEF FramesAgree
  <2>2. W = {c} BY <2>1 DEF FramesAgree
  <2> QED BY <1>1, <2>2, FS_Singleton
<1>2. CASE ~active[o]
  <2>1. W = {} BY <1>2 DEF FramesAgree
  <2>2. Cardinality(W) = 0 BY <2>1, FS_EmptySet
  <2> QED BY <1>2, <2>2
<1> QED BY <1>1, <1>2

(* Every owner lists exactly its tasks, each once, whatever the order of     *)
(* spawn, ownTo, the tasks' ends and any number of stop, flush, wait and     *)
(* ~Owner calls, and _waiting and _waitingActive are in use exactly while    *)
(* one context is in the owner's wait.                                       *)
THEOREM OwnersAlwaysAgree == OwnerSpec => []OwnersAgree
<1>1. OwnerInv => OwnersAgree
  <2> SUFFICES ASSUME OwnerInv, NEW o \in Owners
               PROVE  /\ IsInjective(tasksOf[o] \o waiting[o])
                      /\ Owned(o) = {t \in Tasks : ownerOf[t] = o}
                      /\ waiting[o] # <<>> => active[o]
                      /\ active[o] <=> Cardinality({c \in Contexts : frame[c].on = o}) = 1
                      /\ Owned(o) # {} \/ active[o] => exists[o]
    BY DEF OwnersAgree, Contexts
  <2>1. OwnersTyped /\ ListedOnce /\ ListedOwned /\ WaitingUsed /\ FramesAgree
    BY DEF OwnerInv, Lists
  <2>2. tasksOf[o] \in Seq(Tasks) /\ waiting[o] \in Seq(Tasks) BY <2>1 DEF OwnersTyped
  <2>3. IsInjective(tasksOf[o] \o waiting[o]) BY <2>1, <2>2, ConcatFacts DEF ListedOnce
  <2>4. Owned(o) \subseteq Tasks BY <2>1, ListedAreTasks DEF Owned
  <2>5. Owned(o) = {t \in Tasks : ownerOf[t] = o} BY <2>1, <2>4 DEF ListedOwned, Owned
  <2>6. waiting[o] # <<>> => active[o]
    <3>1. waiting[o] # <<>> => Head(waiting[o]) \in Range(waiting[o]) BY <2>2, TailFacts
    <3> QED BY <2>1, <3>1 DEF WaitingUsed
  <2>7. active[o] <=> Cardinality({c \in Contexts : frame[c].on = o}) = 1
    BY <2>1, OneWaits
  <2>8. Owned(o) # {} \/ active[o] => exists[o] BY <2>1 DEF WaitingUsed, Owned
  <2> QED BY <2>3, <2>5, <2>6, <2>7, <2>8
<1> QED BY <1>1, AlwaysOwnerInv, PTL

(* In a program that only stops, a stop reaches every task of the owner:     *)
(* those listed, those that a wait in progress has set aside in _waiting,    *)
(* and those that are spawned later.                                         *)
THEOREM StopAlwaysReachesAll == OwnerSpec => []StopReachesAll
<1>1. OwnerInv => StopReachesAll BY DEF OwnerInv, Stops
<1> QED BY <1>1, AlwaysOwnerInv, PTL

(* When the wait of stop or ~Owner returns, no task of the owner executes    *)
(* its body any more, except the caller and tasks that are in an             *)
(* Owner::wait themselves, however many contexts wait for one another.       *)
THEOREM StopAlwaysWaits == OwnerSpec => StopWaits
<1>1. OwnerInv /\ [OwnerNext]_allVars
        => [\A c \in Tasks \union {NoTask} :
              OnlyStops /\ frame[c] # NoFrame /\ frame'[c] = NoFrame /\ frame[c].call # "wait"
                => \A t \in Range(waiting[frame[c].on]) :
                     t # c /\ frame[t] = NoFrame => ~ CanRun(t)]_allVars
  <2> SUFFICES ASSUME OwnerInv, NEW c \in Contexts, OnlyStops, frame[c] # NoFrame,
                      NEW t \in Range(waiting[frame[c].on]), frame[t] = NoFrame
               PROVE  ~ CanRun(t)
    BY DEF Contexts
  <2>1. OwnersTyped /\ FramesAgree /\ ListedOwned BY DEF OwnerInv, Lists
  <2>2. frame[c].on \in Owners BY <2>1 DEF OwnersTyped, FramesAgree, Frames
  <2>3. state[t] \notin Queued \union {"hold"}
    BY <2>2 DEF OwnerInv, Stops, MetHaveStopped
  <2>4. t \in Tasks /\ ownerOf[t] = frame[c].on
    BY <2>1, <2>2, ListedAreTasks DEF ListedOwned
  <2>5. ownerStop[ownerOf[t]]
    BY <2>1, <2>2, <2>4 DEF OwnerInv, Stops, WaitersHaveStopped, FramesAgree
  <2>6. stopRequested[t]
    BY <2>2, <2>4, <2>5, OwnerAssumption DEF OwnerInv, Stops, StopReachesAll
  <2> QED BY <2>3, <2>6 DEF CanRun
<1> QED BY <1>1, AlwaysOwnerInv, PTL DEF OwnerSpec, StopWaits
==============================================================================
