------------------------------ MODULE PollLoop ------------------------------
(***************************************************************************)
(* The event loop of core/poll: Service::run, the FiberPool that executes  *)
(* handlers, Timer (on the wheel of module Clocking), Descriptor with      *)
(* Polling and Epoll, Awaker with Awaking.                                 *)
(*                                                                         *)
(* The loop and all handlers share one thread: an actor (a pool fiber, the *)
(* task of a woken awaker, the program's main task) runs until it waits or *)
(* ends, and nothing else of that thread moves meanwhile.  Real time, the  *)
(* kernel and another thread that wakes awakers move at any moment.  The   *)
(* order in which ready actors run is left open.                           *)
(*                                                                         *)
(* A handler is user code: it makes any calls, waits for something, and    *)
(* returns.  A timer's raisable and a descriptor's raisable stand for      *)
(* handlers that only raise.                                               *)
(*                                                                         *)
(* An operator named Bad<Definition> is that definition with a slip a      *)
(* maintainer could make; nothing uses it but the mutation checks.         *)
(***************************************************************************)
EXTENDS Clocking

CONSTANTS
  Fibers,      (* the fibers that the pool may have (bound)                  *)
  Descriptors, (* the descriptors                                            *)
  Awakers,     (* the awakers, all with keepLoop                             *)
  Main,        (* the task that starts things before the loop runs           *)
  Nobody,      (* what an actor is occupied with when it is with nothing     *)
  Intervals,   (* the intervals that timers are given, -1 among them         *)
  Repeatable,  (* the timers that repeat                                     *)
  Mishaps,     (* what may happen although the code does not cope with it    *)
  MaxClock,    (* bound: real time                                           *)
  MaxCalls     (* bound: calls of user code, news of the kernel and wake-ups *)

Actors == Fibers \union Awakers \union {Main}

ASSUME PollAssumption ==
  /\ Intervals \subseteq Int /\ Repeatable \subseteq Timers
  /\ MaxClock \in Nat /\ MaxCalls \in Nat
  /\ Mishaps \subseteq {"stopsDue", "zeroRepeats", "relists", "wakesAmid"}
  /\ Nobody \notin Timers \union Descriptors
  /\ IsFiniteSet(Fibers) /\ Fibers # {} /\ IsFiniteSet(Descriptors)
  /\ Fibers \intersect Awakers = {} /\ Main \notin Fibers \union Awakers

VARIABLES
  clock,      (* steady_clock                                                *)
  wheel,      (* Clocking                                                    *)
  timer,      (* of a timer: _interval and _started                          *)
  pc,         (* where Service::run is                                       *)
  ran,        (* executeReadyFibers has executed something                   *)
  stopped,    (* Service::_stop                                              *)
  need,       (* FiberPool::_needExecInFiber is raised                       *)
  actor,      (* of an actor: whether it runs, where it is, with what        *)
  desc,       (* of a descriptor: open, news of the kernel, _readyState      *)
  emits,      (* Polling::_descriptorsReady                                  *)
  torn,       (* somebody was pushed into a list that he was in              *)
  awake,      (* of an awaker: _ready, and whether it is in _awakersReady    *)
  event,      (* Epoll::_wakeupEvent is readable                             *)
  thread,     (* the other thread: the awaker it wakes and how far it is     *)
  calls       (* ghost: how many of MaxCalls there have been                 *)

timerVars == <<wheel, timer>>
descVars  == <<desc, emits, torn>>
awakeVars == <<awake, thread>>
vars == <<clock, timerVars, pc, ran, stopped, need, actor, descVars, awakeVars, event, calls>>

Gone == [run |-> "none", at |-> "out", on |-> Nobody, busy |-> 0]
NoThread == [at |-> "idle", on |-> Nobody]

(* FiberPool::_busyCount, and the fibers of _fibersCount.                    *)
Busy    == {f \in Fibers : actor[f].at \in {"timers", "tick", "descs", "emit"}}
Spawned == {f \in Fibers : actor[f].run # "none"}

Works(a)  == pc = "fibers" /\ actor[a].run = "work"
Nothing   == \A a \in Actors : actor[a].run # "work"
(* Code of the program is running, in actor a.                               *)
UserCode(a) == Works(a) /\ actor[a].at \in {"tick", "emit", "woken", "main"}

Counted == calls < MaxCalls /\ calls' = calls + 1

(* Where the code does not cope, the model goes as far as the code does, if  *)
(* Mishaps lets it:                                                          *)
(*   stopsDue     user code stops or re-times a timer that is due            *)
(*   zeroRepeats  a timer repeats with an interval of 0: it is due again     *)
(*                after each tick, and Bucket::flush never comes to an end   *)
(*   relists      the kernel has news of a descriptor that is still in the   *)
(*                list of those that are ready, and is pushed there again    *)
(*   wakesAmid    another thread stands between marking an awaker and        *)
(*                listing it while the handler of that awaker returns        *)
May(mishap, risky) == risky => mishap \in Mishaps

At(a, place, on) == [actor EXCEPT ![a].at = place, ![a].on = on]

-----------------------------------------------------------------------------
(* FiberPool::needExecInFiber: a Notifier in wake mode one wakes one fiber,  *)
(* or stays raised.                                                          *)
Waiting == {f \in Fibers : actor[f].run = "hold" /\ actor[f].at = "wait"}
NeedExecInFiber(act, yes) ==
  \/ /\ ~yes \/ Waiting = {}
     /\ actor' = act /\ need' = (need \/ yes)
  \/ /\ yes
     /\ \E f \in Waiting : actor' = [act EXCEPT ![f].run = "ready"]
     /\ UNCHANGED need

(* The wheel becomes w, and calls a fiber if it asked for one.               *)
Rolled(w, act) == wheel' = [w EXCEPT !.raise = FALSE] /\ NeedExecInFiber(act, w.raise)

-----------------------------------------------------------------------------
(* Timer, in user code.                                                      *)

(* start (of a timer that is not started; otherwise it does nothing).        *)
TimerStart(t) ==
  /\ timer[t].interval >= 0 /\ ~timer[t].started
  /\ clock + timer[t].interval < Never
  /\ Rolled(Start(wheel, t, clock + timer[t].interval), actor)
  /\ timer' = [timer EXCEPT ![t].started = TRUE]

MayMove(t)          == May("stopsDue", InReady(wheel, t))
MayRepeat(t, every) == May("zeroRepeats", t \in Repeatable /\ every = 0)

(* stop and ~Timer.                                                          *)
TimerStop(t) ==
  /\ timer[t].started /\ MayMove(t)
  /\ wheel' = IF timer[t].interval >= 0 THEN Stop(wheel, t) ELSE wheel
  /\ timer' = [timer EXCEPT ![t].started = FALSE]
  /\ UNCHANGED <<actor, need>>

(* interval(v), which re-times a started timer.                              *)
TimerInterval(t, v) ==
  /\ v # timer[t].interval /\ MayMove(t)
  /\ MayRepeat(t, v)
  /\ timer' = [timer EXCEPT ![t].interval = v]
  /\ clock + v < Never
  /\ IF ~timer[t].started THEN UNCHANGED <<wheel, actor, need>>
     ELSE IF v >= 0 THEN Rolled(Start(Stop(wheel, t), t, clock + v), actor)
     ELSE wheel' = Stop(wheel, t) /\ UNCHANGED <<actor, need>>

TimerCall(a) ==
  /\ UserCode(a)
  /\ \E t \in Timers : \/ TimerStart(t) \/ TimerStop(t)
                       \/ \E v \in Intervals : TimerInterval(t, v)
  /\ UNCHANGED <<clock, pc, ran, stopped, descVars, awakeVars, event>>
  /\ Counted

(* Timer::tick puts a repeating timer back before it calls the handler: the  *)
(* next point is the first multiple of the interval after now.               *)
NextPoint(t) ==
  LET p == wheel.point[t]
      i == timer[t].interval
  IN  IF i > 0 THEN p + ((wheel.now - p) \div i) * i + i ELSE wheel.now

(* slip: the noted amount is not brought up to date.                         *)
BadTick(f) ==
  LET t == Head(wheel.ready)
      w == [wheel EXCEPT !.ready = Tail(@)]
  IN  /\ Works(f) /\ actor[f].at = "timers" /\ wheel.ready # <<>>
      /\ IF t \in Repeatable
         THEN Rolled(Start(w, t, NextPoint(t)), At(f, "tick", t)) /\ UNCHANGED timer
         ELSE Rolled(w, At(f, "tick", t)) /\ timer' = [timer EXCEPT ![t].started = FALSE]
      /\ UNCHANGED <<clock, pc, ran, stopped, descVars, awakeVars, event, calls>>

(* The handler that Clocking has in the pool: Bucket::flush and Timer::tick. *)
Tick(f) ==
  LET t == Head(wheel.ready)
      w == [wheel EXCEPT !.ready = Tail(@), !.prev = Len(wheel.ready) - 1]
  IN  /\ Works(f) /\ actor[f].at = "timers" /\ wheel.ready # <<>>
      /\ t \in Repeatable => NextPoint(t) < Never
      /\ IF t \in Repeatable
         THEN Rolled(Start(w, t, NextPoint(t)), At(f, "tick", t)) /\ UNCHANGED timer
         ELSE Rolled(w, At(f, "tick", t)) /\ timer' = [timer EXCEPT ![t].started = FALSE]
      /\ UNCHANGED <<clock, pc, ran, stopped, descVars, awakeVars, event, calls>>

TicksDone(f) ==
  /\ Works(f) /\ actor[f].at = "timers" /\ wheel.ready = <<>>
  /\ actor' = At(f, "descs", Nobody)
  /\ UNCHANGED <<clock, timerVars, pc, ran, stopped, need, descVars, awakeVars, event, calls>>

-----------------------------------------------------------------------------
(* Descriptor, in user code.  The state "io" stands for read, pri, write,    *)
(* error and eof as the kernel tells them, "closed" for what close leaves.   *)

(* attach (which closes what was attached), close and detach.                *)
Attach(d) ==
  /\ ~desc[d].open
  /\ desc' = [desc EXCEPT ![d] = [open |-> TRUE, news |-> FALSE, state |-> {}]]
  /\ UNCHANGED <<emits, torn>>
Close(d, left) ==
  /\ desc[d].open
  /\ desc' = [desc EXCEPT ![d] = [open |-> FALSE, news |-> FALSE, state |-> left]]
  /\ emits' = RemoveFirst(emits, d)
  /\ UNCHANGED torn

DescriptorCall(a) ==
  /\ UserCode(a)
  /\ \E d \in Descriptors : Attach(d) \/ Close(d, {"closed"}) \/ Close(d, {})
  /\ UNCHANGED <<clock, timerVars, pc, ran, stopped, need, actor, awakeVars, event>>
  /\ Counted

(* The kernel has news of a descriptor (edge triggered).                     *)
Kernel(d) ==
  /\ desc[d].open /\ May("relists", Contains(emits, d))
  /\ desc' = [desc EXCEPT ![d].news = TRUE]
  /\ UNCHANGED <<clock, timerVars, pc, ran, stopped, need, actor, emits, torn, awakeVars, event>>
  /\ Counted

(* The handler that Polling has in the pool: Descriptor::emitReady.  popFront *)
(* may return the last one of a torn list again and again.                   *)
EmitReady(f) ==
  LET d == Head(emits)
  IN  /\ Works(f) /\ actor[f].at = "descs" /\ emits # <<>>
      /\ emits' = Tail(emits) \/ (torn /\ Len(emits) = 1 /\ emits' = emits)
      /\ desc' = [desc EXCEPT ![d].state = {}]
      /\ actor' = IF desc[d].state = {} THEN actor ELSE At(f, "emit", d)
      /\ UNCHANGED <<clock, timerVars, pc, ran, stopped, need, torn, awakeVars, event, calls>>

-----------------------------------------------------------------------------
(* FiberPool::fiber.                                                         *)

(* _needExecInFiber.wait(), at the head of the loop.                         *)
PoolWait(f) ==
  /\ Works(f) /\ actor[f].at = "head"
  /\ actor[f].busy <= Cardinality(Busy)
  /\ need' = FALSE
  /\ actor' = IF need THEN At(f, "timers", Nobody)
              ELSE [actor EXCEPT ![f].at = "wait", ![f].run = "hold"]
  /\ UNCHANGED <<clock, timerVars, pc, ran, stopped, descVars, awakeVars, event, calls>>

(* The wait is over: the fiber is busy, and begins with the timers.          *)
PoolWoken(f) ==
  /\ Works(f) /\ actor[f].at = "wait"
  /\ actor' = At(f, "timers", Nobody)
  /\ UNCHANGED <<clock, timerVars, pc, ran, stopped, need, descVars, awakeVars, event, calls>>

(* All handlers are done: back to the head of the loop.                      *)
PoolDone(f) ==
  /\ Works(f) /\ actor[f].at = "descs" /\ emits = <<>>
  /\ actor' = At(f, "head", Nobody)
  /\ UNCHANGED <<clock, timerVars, pc, ran, stopped, need, descVars, awakeVars, event, calls>>

(* There are fewer busy fibers than when this one was spawned: it ends.      *)
PoolEnds(f) ==
  /\ Works(f) /\ actor[f].at = "head"
  /\ actor[f].busy > Cardinality(Busy)
  /\ actor' = [actor EXCEPT ![f] = Gone]
  /\ UNCHANGED <<clock, timerVars, pc, ran, stopped, need, descVars, awakeVars, event, calls>>

-----------------------------------------------------------------------------
(* Awaker and Awaking.                                                       *)

(* emitWokenIfNeed takes awaker a: it is connected, ready and its handler is *)
(* not in progress.                                                          *)
Emittable(a) == awake[a].ready /\ actor[a].run = "none"

(* Awaking::woken, of all awakers in the list.                               *)
Listed == {a \in Awakers : awake[a].listed}
EmitWoken ==
  LET S == {a \in Listed : Emittable(a)}
  IN  /\ awake' = [a \in Awakers |-> IF a \in S THEN [ready |-> FALSE, listed |-> FALSE]
                                     ELSE awake[a]]
      /\ actor' = [x \in Actors |->
                     IF x \in S THEN [run |-> "ready", at |-> "woken", on |-> Nobody, busy |-> 0]
                     ELSE actor[x]]

(* The handler has returned: emitWokenIfNeed once more, without a look at    *)
(* the list.  Nothing is removed from it if the other thread has marked the  *)
(* awaker and not listed it yet; it then lists an awaker that is not ready,  *)
(* which woken() meets again and again and never takes out.                  *)
WokenEnds(a) ==
  /\ UserCode(a) /\ a \in Awakers
  /\ May("wakesAmid", awake[a].ready /\ ~awake[a].listed)
  /\ IF awake[a].ready
     THEN /\ actor' = [actor EXCEPT ![a].run = "ready"]
          /\ awake' = [awake EXCEPT ![a] = [ready |-> FALSE, listed |-> FALSE]]
     ELSE actor' = [actor EXCEPT ![a] = Gone] /\ UNCHANGED awake
  /\ UNCHANGED <<clock, timerVars, pc, ran, stopped, need, descVars, thread, event, calls>>

(* Awaker::wakeup in the other thread: it marks the awaker, lists it if it   *)
(* was not marked, and writes to the event descriptor.  (One that is in the  *)
(* list already tears it: each then walks for ever, to null, or past others.) *)
Mark(a) ==
  /\ thread = NoThread
  /\ awake' = [awake EXCEPT ![a].ready = TRUE]
  /\ thread' = [at |-> IF awake[a].ready THEN "write" ELSE "list", on |-> a]
  /\ UNCHANGED <<clock, timerVars, pc, ran, stopped, need, actor, descVars, event>>
  /\ Counted

List ==
  /\ thread.at = "list"
  /\ awake' = [awake EXCEPT ![thread.on].listed = TRUE]
  /\ thread' = [thread EXCEPT !.at = "write"]
  /\ torn' = (torn \/ awake[thread.on].listed)
  /\ UNCHANGED <<clock, timerVars, pc, ran, stopped, need, actor, desc, emits, event, calls>>

(* slip: the loop is left to find the awaker by itself.                      *)
BadWrite ==
  /\ thread.at = "write"
  /\ thread' = NoThread
  /\ UNCHANGED <<clock, timerVars, pc, ran, stopped, need, actor, descVars, awake, event, calls>>
Write ==
  /\ thread.at = "write"
  /\ event' = TRUE
  /\ thread' = NoThread
  /\ UNCHANGED <<clock, timerVars, pc, ran, stopped, need, actor, descVars, awake, calls>>

-----------------------------------------------------------------------------
(* User code, whichever actor it is in.                                      *)

(* It waits for something (a bound: one fiber is left for the pool), and is  *)
(* made ready by other user code.                                            *)
Suspend(a) ==
  /\ UserCode(a) /\ a \in Fibers
  /\ \A f \in Fibers \ {a} : actor[f].run # "hold" \/ actor[f].at \in {"wait", "head"}
  /\ actor' = [actor EXCEPT ![a].run = "hold"]
  /\ UNCHANGED <<clock, timerVars, pc, ran, stopped, need, descVars, awakeVars, event>>
  /\ Counted

Release(a, b) ==
  /\ UserCode(a)
  /\ actor[b].run = "hold" /\ actor[b].at \in {"tick", "emit"}
  /\ actor' = [actor EXCEPT ![b].run = "ready"]
  /\ UNCHANGED <<clock, timerVars, pc, ran, stopped, need, descVars, awakeVars, event, calls>>

(* A handler in the pool returns to the list that it came from; the main     *)
(* task ends.                                                                *)
Return(a) ==
  /\ UserCode(a) /\ a \notin Awakers
  /\ actor' = IF a = Main THEN [actor EXCEPT ![a] = Gone]
              ELSE At(a, IF actor[a].at = "tick" THEN "timers" ELSE "descs", Nobody)
  /\ UNCHANGED <<clock, timerVars, pc, ran, stopped, need, descVars, awakeVars, event, calls>>

(* Service::stop.                                                            *)
StopService(a) ==
  /\ UserCode(a) /\ ~stopped
  /\ stopped' = TRUE /\ event' = TRUE
  /\ UNCHANGED <<clock, timerVars, pc, ran, need, actor, descVars, awakeVars>>
  /\ Counted

-----------------------------------------------------------------------------
(* Service::run.                                                             *)

(* slip: the loop does not look whether it was stopped.                      *)
BadFire ==
  /\ pc = "top"
  /\ Rolled(RollBucketsTo(wheel, clock), actor)
  /\ pc' = "fibers" /\ ran' = FALSE
  /\ UNCHANGED <<clock, timer, stopped, descVars, awakeVars, event, calls>>

(* Clocking::fireTicks, at the head of the loop.                             *)
Fire ==
  /\ pc = "top" /\ ~stopped
  /\ Rolled(RollBucketsTo(wheel, clock), actor)
  /\ pc' = "fibers" /\ ran' = FALSE
  /\ UNCHANGED <<clock, timer, stopped, descVars, awakeVars, event, calls>>

(* cmt::executeReadyFibers: a ready actor runs.                              *)
Execute(a) ==
  /\ pc = "fibers" /\ Nothing
  /\ actor[a].run = "ready"
  /\ actor' = [actor EXCEPT ![a].run = "work",
                            ![a].busy = IF @ < 0 THEN Cardinality(Busy) ELSE @]
  /\ ran' = TRUE
  /\ UNCHANGED <<clock, timerVars, pc, stopped, need, descVars, awakeVars, event, calls>>

Executed ==
  /\ pc = "fibers" /\ \A a \in Actors : actor[a].run \notin {"work", "ready"}
  /\ pc' = IF ran THEN "top" ELSE "spawn"
  /\ UNCHANGED <<clock, timerVars, ran, stopped, need, actor, descVars, awakeVars, event, calls>>

(* FiberPool::spawnFiberIfNeed: all fibers are busy.  (A new fiber notes how *)
(* many are when it first runs: busy is -1 until then.)                      *)
SpawnFiberIfNeed ==
  /\ pc = "spawn"
  /\ IF Cardinality(Spawned) <= Cardinality(Busy)
     THEN /\ \E f \in Fibers \ Spawned : actor' = [actor EXCEPT ![f] =
                 [run |-> "ready", at |-> "head", on |-> Nobody, busy |-> -1]]
          /\ pc' = "top"
     ELSE pc' = "woken" /\ UNCHANGED actor
  /\ UNCHANGED <<clock, timerVars, ran, stopped, need, descVars, awakeVars, event, calls>>

(* Awaking::woken.                                                           *)
Woken ==
  /\ pc = "woken"
  /\ EmitWoken
  /\ pc' = IF Listed = {} THEN "sleep" ELSE "top"
  /\ UNCHANGED <<clock, timerVars, ran, stopped, need, descVars, thread, event, calls>>

HasPayload == \/ Awakers # {}
              \/ \E d \in Descriptors : desc[d].open
              \/ \E t \in Timers : InReady(wheel, t) \/ Lists(wheel, t) # {}

(* Nothing is left to wait for, or something is due, or the loop sleeps.     *)
Sleep ==
  /\ pc = "sleep"
  /\ stopped' = (stopped \/ ~HasPayload)
  /\ pc' = IF ~HasPayload \/ Distance2NextPoint(wheel) = 0 THEN "top" ELSE "poll"
  /\ UNCHANGED <<clock, timerVars, ran, need, actor, descVars, awakeVars, event, calls>>

(* Epoll::execute has something to say: the nearest point is reached, the    *)
(* kernel has news, or somebody wrote to the event descriptor.               *)
News == {d \in Descriptors : desc[d].news}
(* IntrusiveDlist::pushBack.  Whoever is in the list already becomes its end *)
(* as seen from the front; those that were behind him are lost.  (If he was  *)
(* the first or the last, whoever comes to him does not come past him.)      *)
PushBack(l, d) == IF Contains(l, d) THEN SubSeq(l, 1, SelectInSeq(l, LAMBDA e : e = d))
                  ELSE Append(l, d)

(* Epoll::execute and Polling::execute.                                      *)
Polled ==
  /\ pc = "poll" /\ (clock >= wheel.nearest \/ News # {} \/ event)
  /\ desc' = [d \in Descriptors |-> IF d \in News
                THEN [desc[d] EXCEPT !.news = FALSE, !.state = @ \union {"io"}] ELSE desc[d]]
  /\ emits' = FoldLeft(PushBack, emits, SetToSeq(News))
  /\ torn' = (torn \/ News \intersect Range(emits) # {})
  /\ event' = FALSE
  /\ pc' = "top"
  /\ NeedExecInFiber(actor, emits' # <<>>)
  /\ UNCHANGED <<clock, timerVars, ran, stopped, awakeVars, calls>>

(* EINTR: Awaking::woken, and the loop goes on.                              *)
Interrupted ==
  /\ pc = "poll"
  /\ EmitWoken
  /\ pc' = "top"
  /\ UNCHANGED <<clock, timerVars, ran, stopped, need, descVars, thread, event, calls>>

(* Any other error, or the loop has been stopped: FiberPool::stop, and what  *)
(* is ready runs once more.  The pool's tasks unwind.                        *)
Leave ==
  /\ pc = "poll" \/ (pc = "top" /\ stopped)
  /\ actor' = [x \in Actors |-> IF x \in Fibers THEN Gone ELSE actor[x]]
  /\ need' = TRUE
  /\ pc' = "done"
  /\ UNCHANGED <<clock, timerVars, ran, stopped, descVars, awakeVars, event, calls>>

(* Time goes on.  (It is read at the head of the loop, in epoll_pwait and in  *)
(* user code, so it moves there.)                                            *)
Time ==
  /\ clock < MaxClock
  /\ pc \in {"top", "poll"} \/ \E a \in Actors : UserCode(a)
  /\ clock' = clock + 1
  /\ UNCHANGED <<timerVars, pc, ran, stopped, need, actor, descVars, awakeVars, event, calls>>

-----------------------------------------------------------------------------
(* FiberPool::start has spawned a fiber; Main is ready.                      *)
Init ==
  /\ clock = 0
  /\ wheel = NewWheel
  /\ timer \in [Timers -> [interval : Intervals \ {-1}, started : {FALSE}]]
  /\ \A t \in Timers : MayRepeat(t, timer[t].interval)
  /\ pc = "top" /\ ran = FALSE /\ stopped = FALSE
  /\ need = FALSE
  /\ actor = [a \in Actors |->
       CASE a = Main -> [run |-> "ready", at |-> "main", on |-> Nobody, busy |-> 0]
         [] a = CHOOSE f \in Fibers : TRUE -> [run |-> "ready", at |-> "head", on |-> Nobody, busy |-> -1]
         [] OTHER -> Gone]
  /\ desc = [d \in Descriptors |-> [open |-> FALSE, news |-> FALSE, state |-> {}]]
  /\ emits = <<>> /\ torn = FALSE /\ calls = 0
  /\ awake = [a \in Awakers |-> [ready |-> FALSE, listed |-> FALSE]]
  /\ event = TRUE
  /\ thread = NoThread

Pool(f) == Tick(f) \/ TicksDone(f) \/ EmitReady(f) \/ PoolWait(f) \/ PoolWoken(f)
             \/ PoolDone(f) \/ PoolEnds(f)
Loop    == Fire \/ Executed \/ SpawnFiberIfNeed \/ Woken \/ Sleep \/ Polled
Ends(a) == Return(a) \/ WokenEnds(a)

Calls(a) == TimerCall(a) \/ DescriptorCall(a) \/ Suspend(a) \/ StopService(a)
Outside  == (\E d \in Descriptors : Kernel(d)) \/ (\E a \in Awakers : Mark(a))

Next ==
  \/ Outside \/ \E a \in Actors : Calls(a)
  \/ Loop \/ Interrupted \/ Leave \/ List \/ Write \/ Time
  \/ \E f \in Fibers : Pool(f)
  \/ \E a \in Actors : Execute(a) \/ Ends(a) \/ \E b \in Fibers : Release(a, b)

(* The thread of the loop goes on while it can (weak fairness, with the      *)
(* condition under which Goes is enabled written out), so does an awaker's   *)
(* wakeup; epoll_pwait is not interrupted for ever.  A loop that walks a     *)
(* torn list may never come back.                                            *)
Goes == \/ Loop \/ (pc = "top" /\ Leave)
        \/ \E f \in Fibers : Pool(f)
        \/ \E a \in Actors : Execute(a) \/ Ends(a)
Walks == \/ pc = "woken" /\ Listed # {}
         \/ \E f \in Fibers : Works(f) /\ actor[f].at = "descs" /\ emits # <<>>
CanGo == pc \notin {"poll", "done"} /\ ~(torn /\ Walks)
Fairness ==
  /\ []<>(~CanGo) \/ []<><<Goes>>_vars
  /\ WF_vars(List \/ Write)
  /\ SF_vars(Polled)

Spec     == Init /\ [][Next]_vars
FairSpec == Spec /\ Fairness

-----------------------------------------------------------------------------
Held == {a \in Actors : actor[a].run = "hold" /\ actor[a].at # "wait"}
Over == pc = "done"

(* The timer wheel is sound, and has exactly the started timers that have an *)
(* interval: none is lost when buckets are taken apart, none ticks twice for *)
(* one start.                                                                *)
WheelExact ==
  /\ WheelSound(wheel)
  /\ \A t \in Timers : timer[t].started /\ timer[t].interval >= 0
                         <=> InReady(wheel, t) \/ Lists(wheel, t) # {}

(* The loop goes to sleep in epoll_pwait only with nothing left to do: a     *)
(* fiber of the pool waits to be called, whoever was announced has been      *)
(* handed over (unless a handler waits in the middle of its list), and an    *)
(* awaker that is marked has written to the event descriptor or will.        *)
SleepsIdle ==
  pc = "poll" =>
    /\ Waiting # {} /\ ~need
    /\ Held = {} => emits = <<>>
    /\ \A a \in Awakers :
         awake[a].ready => IF awake[a].listed THEN event \/ thread.at = "write"
                           ELSE thread = [at |-> "list", on |-> a]

Due(t) == (InReady(wheel, t) \/ Lists(wheel, t) # {}) /\ wheel.point[t] <= clock
Told(d) == desc[d].news \/ "io" \in desc[d].state

(* A timer that was started ticks when it is due, as long as no handler      *)
(* waits for ever.                                                           *)
Returning  == []<>(Held = {} \/ Over)
TimersTick == Returning => \A t \in Timers : Due(t) ~> ~Due(t) \/ Over

(* Nobody is left out, on the same condition: the timers, a descriptor that  *)
(* the kernel has news of, which is handed to its handler, and an awaker     *)
(* that was woken, which calls its handler.                                  *)
Served ==
  Returning =>
    /\ \A t \in Timers : Due(t) ~> ~Due(t) \/ Over
    /\ \A d \in Descriptors : Told(d) ~> ~Told(d) \/ Over
    /\ \A a \in Awakers : awake[a].ready ~> ~awake[a].ready \/ Over

(* A stopped service leaves its loop.                                        *)
StopEnds == stopped ~> Over
==============================================================================
