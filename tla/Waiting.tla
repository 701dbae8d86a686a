------------------------------- MODULE Waiting -------------------------------
(***************************************************************************)
(* Waiters and waitables of core/cmt: Event, Notifier, Pulser, Semaphore   *)
(* and Mutex, and the Waiter that blocks a task on several of them (wait   *)
(* for all, for any, or for a Boolean expression over them).               *)
(*                                                                         *)
(* An operation that can satisfy waiters walks the list of links of its    *)
(* object and offers itself to one waiter after the other; each offer is a *)
(* step here.  Nothing else runs between the offers of one operation, as   *)
(* in the code: a satisfied waiter is made ready, not run.                 *)
(*                                                                         *)
(* Which ready task runs next is left open (module Scheduler has the       *)
(* order), so what holds here holds for every scheduling.  A task has at   *)
(* most one waiter, so a link is named by its task.                        *)
(*                                                                         *)
(* An operator named Bad<Definition> is that definition with a slip a      *)
(* maintainer could make; nothing uses it but the mutation checks.         *)
(***************************************************************************)
EXTENDS Integers, Sequences, SequencesExt, FiniteSetsExt

CONSTANTS
  Tasks,     (* the tasks                                                    *)
  NoTask,    (* null fiber: code of the root context, or no owner            *)
  Objs,      (* the waitables                                                *)
  Kind,      (* [Objs -> Kinds]: type, wake mode and recursion mode          *)
  Depth,     (* Semaphore::_depth                                            *)
  Waits,     (* the waits that tasks make: records [mode, over, sat]         *)
  Scenes,    (* the programs: records [has, stops, dies] of the waitables    *)
             (* that it creates, the tasks that are asked to stop in it and  *)
             (* the waitables that it destroys in between                    *)
  MaxRecursion  (* bound: how often a task locks a recursive mutex over      *)

Kinds == {"event", "notifierOne", "notifierAll", "pulserOne", "pulserAll",
          "semaphore", "mutex", "recursive"}
Raisables == {"event", "notifierOne", "notifierAll", "pulserOne", "pulserAll"}
Resettable == {"event", "notifierOne", "notifierAll"}
Lockables == {"semaphore", "mutex", "recursive"}

ASSUME WaitingAssumption ==
  /\ NoTask \notin Tasks
  /\ \A o \in Objs : Kind[o] \in Kinds
  /\ Depth \in Nat \ {0}
  /\ \A w \in Waits : w.mode \in {"all", "any", "expr"} /\ w.over \in Seq(Objs)
  /\ \A sc \in Scenes : sc.has \subseteq Objs /\ sc.stops \subseteq Tasks /\ sc.dies \subseteq Objs

(* Plain waits, the ones that Conserved and NoLostWakeup are proved for: no   *)
(* waitable occurs twice, a recursive mutex is waited for by itself, for it  *)
(* asks the running fiber and not the waiter whether it can be locked, and   *)
(* only events can make an expression untrue by being available.             *)
PlainWaits ==
  \A w \in Waits :
    /\ IsInjective(w.over)
    /\ \A i \in DOMAIN w.over :
         Kind[w.over[i]] = "recursive" => w.mode # "expr" /\ Len(w.over) = 1
    /\ w.mode = "expr" => \A lit, more \in SUBSET DOMAIN w.over :
         lit \in w.sat /\ lit \subseteq more /\ (\A i \in more \ lit : Kind[w.over[i]] # "event")
           => more \in w.sat

VARIABLES
  run,      (* of a task: ready, work, hold or ended                         *)
  stop,     (* Body::_stopRequested                                          *)
  current,  (* the running task, NoTask while the root context runs          *)
  raised,   (* Event::_raised, Notifier::_raised                             *)
  counter,  (* Mutex::_counter, Semaphore::_counter                          *)
  owner,    (* Mutex::_owner                                                 *)
  links,    (* Waitable::_links                                              *)
  alive,    (* the waitable exists: created, and not destroyed               *)
  wait,     (* of a task: Waiter::_state with its links, or NotWaiting       *)
  won,      (* ghost: what a commit took for a task that has not resumed     *)
  held,     (* ghost: what a task has locked and not unlocked                *)
  op,       (* the operation that the running code is in the middle of       *)
  scene     (* which program it is                                           *)

vars == <<run, stop, current, raised, counter, owner, links, alive, wait, won, held, op, scene>>

NotWaiting == [mode |-> "null", over |-> <<>>, sat |-> {}]
Idle       == [call |-> "none", on |-> NoTask, rest |-> <<>>, hit |-> FALSE]
Terminated == [call |-> "terminated", on |-> NoTask, rest |-> <<>>, hit |-> FALSE]

(* The code that runs may start an operation; tasks may also wait.           *)
UserCode == op = Idle
TaskCode == UserCode /\ current # NoTask

-----------------------------------------------------------------------------
(* canAcquire by task me, with the values that the counters and owners have  *)
(* just then.                                                                *)
BadCan(o, ctr, own, me) ==
  CASE Kind[o] \in Resettable -> raised[o]
    [] Kind[o] = "semaphore"  -> ctr[o] <= Depth
    [] Kind[o] = "mutex"      -> ctr[o] = 0
    [] Kind[o] = "recursive"  -> own[o] \in {NoTask, me}
    [] OTHER                  -> FALSE
Can(o, ctr, own, me) ==
  CASE Kind[o] \in Resettable   -> raised[o]
    [] Kind[o] = "semaphore"    -> ctr[o] < Depth
    [] Kind[o] = "mutex"        -> ctr[o] = 0
    [] Kind[o] = "recursive"    -> own[o] \in {NoTask, me}
    [] OTHER                    -> FALSE

(* The links of wait w whose waitable is gone or can be acquired.            *)
Open(w, ctr, own, me) ==
  {i \in DOMAIN w.over : ~alive[w.over[i]] \/ Can(w.over[i], ctr, own, me)}

(* Waiter::ready, for the set of links that count as available.              *)
Satisfied(w, lit) == CASE w.mode = "all"  -> lit = DOMAIN w.over
                       [] w.mode = "any"  -> lit # {}
                       [] w.mode = "expr" -> lit \in w.sat

(* Waiter::commit: the waitables that it tries to acquire.  waitAny takes    *)
(* the first available link.                                                 *)
Chosen(w, lit) == {w.over[i] : i \in IF w.mode = "any" THEN {Min(lit)} ELSE lit}
                    \intersect {o \in Objs : alive[o]}

(* tryAcquire of every waitable in S: what it leaves behind.                 *)
RaisedAfter(S)       == [o \in Objs |-> raised[o] /\ ~ (o \in S /\ Kind[o] # "event")]
CounterAfter(ctr, S) == [o \in Objs |-> IF o \in S /\ Kind[o] \in Lockables
                                        THEN ctr[o] + 1 ELSE ctr[o]]
OwnerAfter(own, S)   == [o \in Objs |-> IF o \in S /\ Kind[o] = "recursive"
                                        THEN current ELSE own[o]]
Take(t, S) == [held EXCEPT ![t] = [o \in Objs |-> IF o \in S /\ Kind[o] \in Lockables
                                                  THEN @[o] + 1 ELSE @[o]]]

(* Waiter::endAcquire: the links of task t leave every list that has them.   *)
Cut(l, t)      == IF t \in Range(l) THEN RemoveAt(l, CHOOSE i \in DOMAIN l : l[i] = t) ELSE l
BadUnlinked(t) == [o \in Objs |-> IF o = op.on THEN Cut(links[o], t) ELSE links[o]]
Unlinked(t)    == [o \in Objs |-> Cut(links[o], t)]
(* Scheduler::ready, which leaves a task alone that is queued already.       *)
Woken(t)     == [run EXCEPT ![t] = IF @ = "hold" THEN "ready" ELSE @]

-----------------------------------------------------------------------------
(* Waiter::exec, reached through waitAll, waitAny, waitExpr, and through the *)
(* wait and lock of each waitable.                                           *)

(* A wait that can be satisfied at once acquires and returns.                *)
WaitSatisfied(w) ==
  LET lit == Open(w, counter, owner, current)
      S   == Chosen(w, lit)
  IN  /\ TaskCode
      /\ ~stop[current]
      /\ Satisfied(w, lit)
      /\ raised'  = RaisedAfter(S)
      /\ counter' = CounterAfter(counter, S)
      /\ owner'   = OwnerAfter(owner, S)
      /\ held'    = Take(current, S)
      /\ UNCHANGED <<run, stop, current, links, alive, wait, won, op>>

(* Otherwise the waiter links itself to each of its waitables, once, and the *)
(* task is held.                                                             *)
WaitBlocks(w) ==
  /\ TaskCode
  /\ ~stop[current]
  /\ ~ Satisfied(w, Open(w, counter, owner, current))
  /\ links' = [o \in Objs |-> IF alive[o] /\ o \in Range(w.over)
                              THEN Append(links[o], current) ELSE links[o]]
  /\ wait' = [wait EXCEPT ![current] = w]
  /\ run' = [run EXCEPT ![current] = "hold"]
  /\ current' = NoTask
  /\ UNCHANGED <<stop, raised, counter, owner, alive, won, held, op>>

(* The users of a waitable: the program names it only while it lives, and    *)
(* locks it no more than MaxRecursion times over.                            *)
Wait(w) == /\ \A o \in Range(w.over) : alive[o]
           /\ TaskCode
           /\ \A o \in Range(w.over) :
                Kind[o] = "recursive" => held[current][o] < MaxRecursion
           /\ WaitSatisfied(w) \/ WaitBlocks(w)

-----------------------------------------------------------------------------
(* The operations that offer.  Each starts a walk over the links.            *)

Offering(o, call) == [call |-> call, on |-> o, rest |-> links[o], hit |-> FALSE]

(* Event::raise, Notifier::raise, Pulser::raise.                             *)
Raise(o) ==
  /\ UserCode /\ alive[o] /\ Kind[o] \in Raisables
  /\ ~raised[o]
  /\ raised' = [raised EXCEPT ![o] = Kind[o] = "event"]
  /\ op' = Offering(o, "offer")
  /\ UNCHANGED <<run, stop, current, counter, owner, links, alive, wait, won, held>>

(* Event::reset, Notifier::reset.                                            *)
Reset(o) ==
  /\ UserCode /\ alive[o] /\ Kind[o] \in Resettable
  /\ raised' = [raised EXCEPT ![o] = FALSE]
  /\ op' = Offering(o, "withdraw")
  /\ UNCHANGED <<run, stop, current, counter, owner, links, alive, wait, won, held>>

(* Mutex::unlock and Semaphore::unlock, of something that task h has locked; *)
(* on a free object they do nothing.  A semaphore offers the place that it   *)
(* has just freed, a mutex stays locked while it is offered, and a recursive *)
(* mutex that stays locked has nothing to offer.                             *)
Unlock(o, h) ==
  /\ UserCode /\ alive[o] /\ Kind[o] \in Lockables
  /\ held[h][o] > 0
  /\ counter[o] > 0
  /\ held' = [held EXCEPT ![h][o] = @ - 1]
  /\ counter' = [counter EXCEPT ![o] = IF Kind[o] = "mutex" \/ (Kind[o] = "recursive" /\ @ = 1)
                                       THEN 1 ELSE @ - 1]
  /\ op' = Offering(o, IF Kind[o] = "recursive" /\ counter[o] > 1
                       THEN "withdraw" ELSE "offer")
  /\ UNCHANGED <<run, stop, current, raised, owner, links, alive, wait, won>>

(* ~Waitable: every link is cut and its waiter told.                         *)
Destroy(o) ==
  /\ UserCode /\ alive[o] /\ o \in scene.dies
  /\ alive' = [alive EXCEPT ![o] = FALSE]
  /\ op' = Offering(o, "offer")
  /\ UNCHANGED <<run, stop, current, raised, counter, owner, links, wait, won, held>>

-----------------------------------------------------------------------------
(* Waiter::readyOffer for the next link of the walk.                         *)

(* What is lent to task t while it is asked: a semaphore counts it in, a     *)
(* recursive mutex calls it the owner.                                       *)
LentCounter    == [counter EXCEPT ![op.on] =
                     IF alive[op.on] /\ Kind[op.on] = "semaphore" /\ op.call = "offer"
                     THEN @ + 1 ELSE @]
LentOwner(t)   == [owner EXCEPT ![op.on] =
                     IF alive[op.on] /\ Kind[op.on] = "recursive" /\ op.call = "offer"
                     THEN t ELSE @]

(* slip: the offered one counts only if it can be acquired.                  *)
BadLit(t) == Open(wait[t], LentCounter, LentOwner(t), current)

(* The links of t that count as available: the offered one always does.      *)
Lit(t) ==
  LET w == wait[t]
      from == Min({i \in DOMAIN w.over : w.over[i] = op.on})
  IN  Open(w, LentCounter, LentOwner(t), current) \union (IF op.call = "offer" THEN {from} ELSE {})

Accepts(t) == Satisfied(wait[t], Lit(t)) /\ (wait[t].mode = "all" => op.call = "offer")

(* The offered waitable is not acquired again.                               *)
Taken(t)   == Chosen(wait[t], Lit(t)) \ {op.on}

(* tryAcquire throws when the task that makes the offer has to stop.         *)
Throws(t)  == Taken(t) # {} /\ current # NoTask /\ stop[current]

(* The walk goes on after an accepted offer, or not.  For a recursive mutex  *)
(* it does: the function given to each returns nothing.                      *)
BadGoesOn(ctr) == TRUE
GoesOn(ctr) ==
  \/ ~alive[op.on]
  \/ Kind[op.on] \in {"event", "notifierAll", "pulserAll", "recursive"}
  \/ Kind[op.on] = "semaphore" /\ ctr[op.on] < Depth

(* A withdrawal ends as soon as the waitable can be acquired.                *)
Withdrawing == op.call = "withdraw" => ~ Can(op.on, counter, owner, current)

OfferAccepted ==
  LET t == Head(op.rest)
  IN  /\ op.rest # <<>> /\ Withdrawing
      /\ Accepts(t) /\ ~ Throws(t)
      /\ raised'  = RaisedAfter(Taken(t))
      /\ counter' = CounterAfter(LentCounter, Taken(t))
      /\ owner'   = OwnerAfter(LentOwner(t), Taken(t))
      /\ links'   = Unlinked(t)
      /\ wait'    = [wait EXCEPT ![t] = NotWaiting]
      /\ won'     = [won EXCEPT ![t] = Chosen(wait[t], Lit(t))]
      /\ run'     = Woken(t)
      /\ op' = [op EXCEPT !.hit = TRUE,
                          !.rest = IF op.call = "withdraw" \/ GoesOn(LentCounter)
                                   THEN Tail(@) ELSE <<>>]
      /\ UNCHANGED <<stop, current, alive, held>>

(* slip: a semaphore does not take back what was refused.                    *)
BadOfferRefused ==
  /\ op.rest # <<>> /\ Withdrawing
  /\ ~ Accepts(Head(op.rest))
  /\ counter' = LentCounter
  /\ links' = IF alive[op.on] THEN links ELSE [links EXCEPT ![op.on] = Tail(@)]
  /\ op' = [op EXCEPT !.rest = Tail(@)]
  /\ UNCHANGED <<run, stop, current, raised, owner, alive, wait, won, held>>

(* A recursive mutex keeps the waiter it has asked last as its owner until   *)
(* the walk is over; a destroyed waitable loses the link all the same.       *)
OfferRefused ==
  LET t == Head(op.rest)
  IN  /\ op.rest # <<>> /\ Withdrawing
      /\ ~ Accepts(t)
      /\ owner' = LentOwner(t)
      /\ links' = IF alive[op.on] THEN links
                  ELSE [links EXCEPT ![op.on] = Cut(@, t)]
      /\ op' = [op EXCEPT !.rest = Tail(@)]
      /\ UNCHANGED <<run, stop, current, raised, counter, alive, wait, won, held>>

(* The exception leaves the walk, and the operation, where it stands.  Out   *)
(* of a destructor it terminates the program.                                *)
OfferThrows ==
  LET t == Head(op.rest)
  IN  /\ op.rest # <<>> /\ Withdrawing
      /\ Accepts(t) /\ Throws(t)
      /\ counter' = LentCounter
      /\ owner' = LentOwner(t)
      /\ op' = IF alive[op.on] THEN Idle ELSE Terminated
      /\ UNCHANGED <<run, stop, current, raised, links, alive, wait, won, held>>

(* The end of a walk.  A notifier that woke nobody stays raised, a mutex     *)
(* that nobody took becomes free, a semaphore tells the others what is gone. *)
WalkEnds ==
  LET o == op.on
      offered == op.call = "offer" /\ alive[o]
  IN  /\ op.call \in {"offer", "withdraw"}
      /\ op.rest = <<>> \/ ~Withdrawing
      /\ raised' = [raised EXCEPT ![o] = IF offered /\ Kind[o] \in {"notifierOne", "notifierAll"}
                                         THEN ~op.hit ELSE @]
      /\ counter' = [counter EXCEPT ![o] = IF offered /\ Kind[o] \in {"mutex", "recursive"} /\ ~op.hit
                                           THEN 0 ELSE @]
      /\ owner' = [owner EXCEPT ![o] = IF offered /\ Kind[o] = "recursive" /\ ~op.hit
                                       THEN NoTask ELSE @]
      /\ op' = IF offered /\ Kind[o] = "semaphore" THEN Offering(o, "withdraw") ELSE Idle
      /\ UNCHANGED <<run, stop, current, links, alive, wait, won, held>>

-----------------------------------------------------------------------------
(* Body::stop, by the running code; a held task is woken.                    *)
StopTask(t) ==
  /\ UserCode /\ t \in scene.stops
  /\ run[t] # "ended"
  /\ stop' = [stop EXCEPT ![t] = TRUE]
  /\ run' = Woken(t)
  /\ UNCHANGED <<current, raised, counter, owner, links, alive, wait, won, held, op>>

(* A ready task runs.  One that comes back from hold resets its waiter; if   *)
(* it has to stop, it throws and never learns what was acquired for it.      *)
Resume(t) ==
  /\ UserCode /\ current = NoTask
  /\ run[t] = "ready"
  /\ current' = t
  /\ run' = [run EXCEPT ![t] = "work"]
  /\ links' = Unlinked(t)
  /\ wait' = [wait EXCEPT ![t] = NotWaiting]
  /\ held' = IF stop[t] THEN held ELSE Take(t, won[t])
  /\ won' = [won EXCEPT ![t] = {}]
  /\ UNCHANGED <<stop, raised, counter, owner, alive, op>>

(* The running task yields, or its body returns.                             *)
Leave(st) ==
  /\ TaskCode
  /\ run' = [run EXCEPT ![current] = st]
  /\ current' = NoTask
  /\ UNCHANGED <<stop, raised, counter, owner, links, alive, wait, won, held, op>>
Yield == TaskCode /\ ~stop[current] /\ Leave("ready")
End   == Leave("ended")

-----------------------------------------------------------------------------
Init ==
  /\ run = [t \in Tasks |-> "ready"]
  /\ stop = [t \in Tasks |-> FALSE]
  /\ current = NoTask
  /\ raised = [o \in Objs |-> FALSE]
  /\ counter = [o \in Objs |-> 0]
  /\ owner = [o \in Objs |-> NoTask]
  /\ links = [o \in Objs |-> <<>>]
  /\ scene \in Scenes
  /\ alive = [o \in Objs |-> o \in scene.has]
  /\ wait = [t \in Tasks |-> NotWaiting]
  /\ won = [t \in Tasks |-> {}]
  /\ held = [t \in Tasks |-> [o \in Objs |-> 0]]
  /\ op = Idle

Next ==
  /\ \/ \E w \in Waits : Wait(w)
     \/ \E o \in Objs : Raise(o) \/ Reset(o) \/ Destroy(o)
     \/ \E o \in Objs, h \in Tasks : Unlock(o, h)
     \/ OfferAccepted \/ OfferRefused \/ OfferThrows \/ WalkEnds
     \/ \E t \in Tasks : StopTask(t) \/ Resume(t)
     \/ Yield \/ End
  /\ UNCHANGED scene

Spec == Init /\ [][Next]_vars

-----------------------------------------------------------------------------
(* Counters never go below zero, and a link names a task and its wait.       *)
TypeOK ==
  /\ run \in [Tasks -> {"ready", "work", "hold", "ended"}]
  /\ stop \in [Tasks -> BOOLEAN]
  /\ current \in Tasks \union {NoTask}
  /\ raised \in [Objs -> BOOLEAN]
  /\ counter \in [Objs -> Nat]
  /\ owner \in [Objs -> Tasks \union {NoTask}]
  /\ \A o \in Objs : links[o] \in Seq(Tasks)
  /\ alive \in [Objs -> BOOLEAN]
  /\ wait \in [Tasks -> Waits \union {NotWaiting}]
  /\ won \in [Tasks -> SUBSET Objs]
  /\ held \in [Tasks -> [Objs -> Nat]]

(* The tasks that have, or are about to learn that they have, locked o.      *)
Holders(o) == {t \in Tasks : held[t][o] > 0 \/ o \in won[t]}
NobodyStopped == \A t \in Tasks : ~stop[t]
(* How often o is locked, as the tasks see it: the k-th time by task t, the  *)
(* time that was granted it in its sleep being its 0-th.                     *)
Grants(o)  == UNION {{t} \X {k \in 0..held[t][o] : k = 0 => o \in won[t]} : t \in Tasks}
Locked(o)  == Cardinality(Grants(o))

(* Mutual exclusion: a mutex is held by one task and a semaphore by as many  *)
(* as it has places, the ones that were granted it in their sleep included.  *)
Exclusive ==
  \A o \in Objs : alive[o] =>
    /\ Kind[o] = "mutex" => Cardinality(Holders(o)) <= 1
    /\ Kind[o] = "semaphore" => Locked(o) <= Depth

(* No acquisition is lost and none is made up: between operations the        *)
(* counters are what the tasks hold.  Not so for a recursive mutex, which    *)
(* can be granted to several tasks and counts one, and not once a task was   *)
(* stopped: it throws out of a wait that was granted and keeps the counter.  *)
Conserved ==
  op = Idle /\ NobodyStopped => \A o \in Objs :
    alive[o] /\ Kind[o] \in {"mutex", "semaphore"} => counter[o] = Locked(o)

(* Tasks sleep and wake rightly: between operations nobody sleeps whose wait *)
(* could be satisfied, unless a stopped raiser left its walk in the middle,  *)
(* and a wait returns only with what it waited for: a task that is queued    *)
(* while its waiter is still unsatisfied has been stopped, and will throw.   *)
Wakeable(t) == Satisfied(wait[t], Open(wait[t], counter, owner, t))
OnlyStoppedThrow == \A t \in Tasks : run[t] = "ready" /\ wait[t] # NotWaiting => stop[t]
NoLostWakeup ==
  /\ op = Idle /\ NobodyStopped => \A t \in Tasks : run[t] = "hold" => ~ Wakeable(t)
  /\ OnlyStoppedThrow

(* The lists hold exactly the tasks whose waiters wait, each once per        *)
(* waitable: no link outlives its waiter, which lives on the task's stack,   *)
(* or its waitable, unless the program was terminated half way.              *)
LinksMatchWaiters ==
  op # Terminated =>
    \A o \in Objs :
      /\ IsInjective(links[o])
      /\ op.on # o => Range(links[o]) = {t \in Tasks : alive[o] /\ o \in Range(wait[t].over)}

OneWoken == /\ op.call = "offer" /\ op.hit /\ alive[op.on]
            /\ Kind[op.on] \in {"mutex", "notifierOne", "pulserOne"}

(* Waking one means one: after an accepted offer the rest of the walk of a   *)
(* mutex, or of a notifier or pulser in wake mode one, wakes nobody.  (A     *)
(* reset goes on: it tells all who wait for the notifier not to be raised.)  *)
WakesOne == [][OneWoken => run' = run]_vars
==============================================================================
