--------------------------- MODULE PollLoop_proofs ---------------------------
(***************************************************************************)
(* Proofs about the event loop, for any sets of fibers, descriptors,       *)
(* awakers and timers: it goes to sleep only with nothing left to do.      *)
(*                                                                         *)
(* SleepsIdle looks at one point of the loop and is not inductive.  The    *)
(* invariant follows each reason to be awake to the sleep it forbids: a    *)
(* call for a fiber is raised only while none waits for it (Callable), a   *)
(* list of ready descriptors has a fiber that will come to it (Carried), a *)
(* marked awaker is in the list or about to be (Marked), and from the      *)
(* moment the loop found no more ready fibers they all stay put (Quiet,    *)
(* OneFree).                                                               *)
(***************************************************************************)
EXTENDS PollLoop, FiniteSetTheorems, TLAPS

(* Where the actors of each kind can be.                                     *)
FiberFits(r) ==
  /\ r.at \in {"out", "head", "wait", "timers", "tick", "descs", "emit"}
  /\ r.run \in {"none", "ready", "work", "hold"}
  /\ r.run = "none" <=> r.at = "out"
  /\ r.run = "hold" => r.at \in {"wait", "tick", "emit"}
OtherFits(r, place) ==
  /\ r.at \in {"out", place} /\ r.run \in {"none", "ready", "work"}
  /\ r.run = "none" <=> r.at = "out"

Fits(a, r) ==
  /\ DOMAIN r = {"run", "at", "on", "busy"}
  /\ a \in Fibers  => FiberFits(r)
  /\ a \in Awakers => OtherFits(r, "woken")
  /\ a = Main      => OtherFits(r, "main")
ActorsFit == DOMAIN actor = Actors /\ \A a \in Actors : Fits(a, actor[a])

LoopType ==
  /\ pc \in {"top", "fibers", "spawn", "woken", "sleep", "poll", "done"}
  /\ need \in BOOLEAN /\ event \in BOOLEAN
  /\ awake \in [Awakers -> [ready : BOOLEAN, listed : BOOLEAN]]
  /\ thread \in [at : {"idle", "list", "write"}, on : Awakers \union {Nobody}]
  /\ thread.at # "idle" => thread.on \in Awakers
  /\ thread.at = "idle" => thread = NoThread

(* Once executeReadyFibers has found nobody, nobody runs until the loop has  *)
(* come round.                                                               *)
Quiet == pc \in {"spawn", "woken", "sleep", "poll"} =>
           \A a \in Actors : actor[a].run \notin {"ready", "work"}
(* A raised _needExecInFiber is taken by the next fiber that waits.          *)
Callable == need => Waiting = {}
(* spawnFiberIfNeed had nothing to do: a fiber of the pool is free.          *)
OneFree == pc \in {"woken", "sleep", "poll"} => Waiting # {}
(* A fiber that will come to the list of ready descriptors.                  *)
Carrier(f) == \/ actor[f].at \in {"timers", "tick", "descs", "emit"}
              \/ actor[f].at = "wait" /\ actor[f].run # "hold"
Carried == ~Over /\ emits # <<>> => \E f \in Fibers : Carrier(f)
(* The other thread lists what it has marked, and then says so.              *)
Marked ==
  /\ \A a \in Awakers : awake[a].ready /\ ~awake[a].listed => thread = [at |-> "list", on |-> a]
  /\ pc \in {"sleep", "poll"} => \A a \in Awakers : awake[a].listed => event \/ thread.at = "write"

IdleInv == LoopType /\ ActorsFit /\ Quiet /\ Callable /\ OneFree /\ Carried /\ Marked
-----------------------------------------------------------------------------
(* One actor is put into another place.                                      *)

LEMMA Kinds == /\ Fibers \intersect Awakers = {} /\ Main \notin Fibers \union Awakers
               /\ Main \in Actors /\ Fibers \subseteq Actors /\ Awakers \subseteq Actors
BY PollAssumption DEF Actors

LEMMA PutFacts ==
  ASSUME ActorsFit, NEW a \in Actors, NEW r, Fits(a, r), actor' = [actor EXCEPT ![a] = r]
  PROVE  ActorsFit' /\ actor'[a] = r /\ \A b \in Actors \ {a} : actor'[b] = actor[b]
BY DEF ActorsFit, Fits, FiberFits, OtherFits

(* needExecInFiber, while act is what becomes of the actors otherwise: it    *)
(* lets the list of those that wait alone.                                   *)
LEMMA CallFacts ==
  ASSUME IdleInv, NEW act, NEW yes, NeedExecInFiber(act, yes),
         DOMAIN act = Actors, \A a \in Actors : Fits(a, act[a]),
         \A f \in Fibers : IF f \in Waiting THEN act[f] = actor[f]
                           ELSE ~(act[f].run = "hold" /\ act[f].at = "wait")
  PROVE  /\ ActorsFit' /\ Callable' /\ need' \in BOOLEAN
         /\ \A a \in Actors \ Fibers : actor'[a] = act[a]
         /\ \A f \in Fibers : act[f].at \in {"timers", "tick", "descs", "emit"} => Carrier(f)'
         /\ \A f \in Fibers : Carrier(f) /\ act[f] = actor[f] => Carrier(f)'
         /\ yes /\ Waiting # {} => \E f \in Fibers : Carrier(f)'
<1>1. CASE (~yes \/ Waiting = {}) /\ actor' = act /\ need' = (need \/ yes)
  <2>1. Waiting' = Waiting BY <1>1 DEF Waiting
  <2>2. ActorsFit' BY <1>1 DEF ActorsFit
  <2>3. need' \in BOOLEAN BY <1>1
  <2>4. Callable' BY <1>1, <2>1 DEF IdleInv, Callable
  <2> QED BY <1>1, <2>2, <2>3, <2>4 DEF Carrier
<1>2. CASE yes /\ UNCHANGED need /\ \E f \in Waiting : actor' = [act EXCEPT ![f].run = "ready"]
  <2>1. PICK g \in Waiting : actor' = [act EXCEPT ![g].run = "ready"] BY <1>2
  <2>2. g \in Fibers /\ g \in Actors /\ act[g] = actor[g] /\ actor[g].at = "wait"
    BY Kinds DEF Waiting
  <2>3. Fits(g, act[g]) /\ FiberFits(act[g]) BY <2>2 DEF Fits
  <2>4. /\ DOMAIN actor' = Actors /\ actor'[g] = [act[g] EXCEPT !.run = "ready"]
        /\ \A a \in Actors \ {g} : actor'[a] = act[a]
    BY <2>1, <2>2
  <2>5. actor'[g].at = "wait" /\ actor'[g].run = "ready" /\ DOMAIN actor'[g] = {"run", "at", "on", "busy"}
    BY <2>2, <2>3, <2>4 DEF Fits
  <2>6. Fits(g, actor'[g])
    BY <2>2, <2>5, Kinds DEF Fits, FiberFits
  <2>7. ActorsFit' BY <2>4, <2>6 DEF ActorsFit
  <2>8. Waiting' \subseteq Waiting BY <2>4, <2>5, Kinds DEF Waiting
  <2>9. Callable' /\ need' \in BOOLEAN BY <1>2, <2>8 DEF IdleInv, Callable, LoopType
  <2>10. Carrier(g)' BY <2>5 DEF Carrier
  <2>11. \A a \in Actors \ Fibers : actor'[a] = act[a] BY <2>2, <2>4
  <2>12. ASSUME NEW f \in Fibers, f # g PROVE actor'[f] = act[f] BY <2>4, <2>12, Kinds
  <2>13. \A f \in Fibers : act[f].at \in {"timers", "tick", "descs", "emit"} => Carrier(f)'
    BY <2>2, <2>12 DEF Carrier
  <2>14. \A f \in Fibers : Carrier(f) /\ act[f] = actor[f] => Carrier(f)'
    BY <2>10, <2>12 DEF Carrier
  <2> QED BY <2>2, <2>7, <2>9, <2>10, <2>11, <2>13, <2>14
<1> QED BY <1>1, <1>2 DEF NeedExecInFiber

-----------------------------------------------------------------------------
(* What user code, the kernel, the other thread and time do.                 *)

(* Nothing moves but the list of ready descriptors, which does not begin     *)
(* anew, what the awakers do not look at, and the event.                     *)
LEMMA AsideKeeps ==
  ASSUME IdleInv, UNCHANGED <<pc, need, actor, awake, thread>>, event' \in {event, TRUE},
         emits' # <<>> => emits # <<>>
  PROVE  IdleInv'
<1>1. LoopType' /\ ActorsFit' /\ Quiet' /\ Callable' /\ OneFree'
  BY DEF IdleInv, LoopType, ActorsFit, Quiet, Callable, OneFree, Waiting
<1>2. Carried' BY DEF IdleInv, Carried, Carrier, Over
<1>3. Marked'
  <2>1. CASE event' = event BY <2>1 DEF IdleInv, Marked
  <2>2. CASE event' = TRUE BY <2>2 DEF IdleInv, Marked
  <2> QED BY <2>1, <2>2
<1> QED BY <1>1, <1>2, <1>3 DEF IdleInv

LEMMA DescriptorCallKeeps == ASSUME IdleInv, NEW a \in Actors, DescriptorCall(a) PROVE IdleInv'
<1>1. ASSUME NEW d PROVE RemoveFirst(<<>>, d) = <<>> BY DEF RemoveFirst
<1>2. emits' # <<>> => emits # <<>> BY <1>1 DEF DescriptorCall, Attach, Close
<1> QED BY <1>2, AsideKeeps DEF DescriptorCall, awakeVars

(* A timer is started, stopped or re-timed: a fiber may be called.           *)
LEMMA TimerCallKeeps == ASSUME IdleInv, NEW a \in Actors, TimerCall(a) PROVE IdleInv'
<1>1. pc = "fibers" /\ UNCHANGED <<pc, emits, awake, thread, event>>
  BY DEF TimerCall, UserCode, Works, descVars, awakeVars
<1>2. UNCHANGED <<actor, need>> \/ \E yes : NeedExecInFiber(actor, yes)
  BY DEF TimerCall, TimerStart, TimerStop, TimerInterval, Rolled
<1>3. CASE UNCHANGED <<actor, need>> BY <1>1, <1>3, AsideKeeps
<1>4. ASSUME NEW yes, NeedExecInFiber(actor, yes) PROVE IdleInv'
  <2>1. DOMAIN actor = Actors /\ \A b \in Actors : Fits(b, actor[b]) BY DEF IdleInv, ActorsFit
  <2>2. \A f \in Fibers : IF f \in Waiting THEN actor[f] = actor[f]
                          ELSE ~(actor[f].run = "hold" /\ actor[f].at = "wait")
    BY DEF Waiting
  <2>3. /\ ActorsFit' /\ Callable' /\ need' \in BOOLEAN
        /\ \A f \in Fibers : Carrier(f) => Carrier(f)'
    BY <1>4, <2>1, <2>2, CallFacts
  <2>4. LoopType' BY <1>1, <2>3 DEF IdleInv, LoopType
  <2>5. Quiet' /\ OneFree' BY <1>1 DEF Quiet, OneFree
  <2>6. Carried' BY <1>1, <2>3 DEF IdleInv, Carried, Over
  <2>7. Marked' BY <1>1 DEF IdleInv, Marked
  <2> QED BY <2>3, <2>4, <2>5, <2>6, <2>7 DEF IdleInv
<1> QED BY <1>2, <1>3, <1>4

(* Awaker::wakeup of the other thread, in three steps.                       *)
LEMMA MarkKeeps == ASSUME IdleInv, NEW a \in Awakers, Mark(a) PROVE IdleInv'
<1> USE DEF Mark, timerVars, descVars
<1>1. ActorsFit' /\ Quiet' /\ Callable' /\ OneFree'
  BY DEF IdleInv, ActorsFit, Quiet, Callable, OneFree, Waiting
<1>2. Carried' BY DEF IdleInv, Carried, Carrier, Over
<1>3. /\ awake' \in [Awakers -> [ready : BOOLEAN, listed : BOOLEAN]]
      /\ awake'[a].ready = TRUE /\ awake'[a].listed = awake[a].listed
      /\ \A b \in Awakers \ {a} : awake'[b] = awake[b]
  BY DEF IdleInv, LoopType
<1>4. CASE awake[a].ready
  <2>1. thread' = [at |-> "write", on |-> a] BY <1>4
  <2>2. \A b \in Awakers : awake[b].ready => awake[b].listed
    BY DEF IdleInv, Marked, NoThread
  <2>3. LoopType' BY <1>3, <2>1 DEF IdleInv, LoopType
  <2>4. Marked' BY <1>3, <1>4, <2>1, <2>2 DEF IdleInv, Marked, LoopType
  <2> QED BY <1>1, <1>2, <2>3, <2>4 DEF IdleInv
<1>5. CASE ~awake[a].ready
  <2>1. thread' = [at |-> "list", on |-> a] BY <1>5
  <2>2. \A b \in Awakers : awake[b].ready => awake[b].listed
    BY DEF IdleInv, Marked, NoThread
  <2>3. LoopType' BY <1>3, <2>1 DEF IdleInv, LoopType
  <2>4. Marked' BY <1>3, <2>1, <2>2 DEF IdleInv, Marked, LoopType, NoThread
  <2> QED BY <1>1, <1>2, <2>3, <2>4 DEF IdleInv
<1> QED BY <1>4, <1>5

LEMMA ListKeeps == ASSUME IdleInv, List PROVE IdleInv'
<1> USE DEF List, timerVars, descVars
<1> DEFINE a == thread.on
<1>1. ActorsFit' /\ Quiet' /\ Callable' /\ OneFree'
  BY DEF IdleInv, ActorsFit, Quiet, Callable, OneFree, Waiting
<1>2. Carried' BY DEF IdleInv, Carried, Carrier, Over
<1>3. a \in Awakers BY DEF IdleInv, LoopType
<1>4. /\ awake' \in [Awakers -> [ready : BOOLEAN, listed : BOOLEAN]]
      /\ awake'[a].listed = TRUE /\ awake'[a].ready = awake[a].ready
      /\ \A b \in Awakers \ {a} : awake'[b] = awake[b]
  BY <1>3 DEF IdleInv, LoopType
<1>5. thread' \in [at : {"idle", "list", "write"}, on : Awakers \union {Nobody}]
      /\ thread'.at = "write" /\ thread'.on = a
  BY DEF IdleInv, LoopType
<1>6. \A b \in Awakers \ {a} : awake[b].ready => awake[b].listed
  BY DEF IdleInv, Marked
<1> HIDE DEF a
<1>7. LoopType' BY <1>3, <1>4, <1>5 DEF IdleInv, LoopType
<1>8. Marked' BY <1>3, <1>4, <1>5, <1>6 DEF IdleInv, Marked
<1> QED BY <1>1, <1>2, <1>7, <1>8 DEF IdleInv

LEMMA WriteKeeps == ASSUME IdleInv, Write PROVE IdleInv'
<1> USE DEF Write, timerVars, descVars
<1>1. ActorsFit' /\ Quiet' /\ Callable' /\ OneFree'
  BY DEF IdleInv, ActorsFit, Quiet, Callable, OneFree, Waiting
<1>2. Carried' BY DEF IdleInv, Carried, Carrier, Over
<1>3. LoopType' BY DEF IdleInv, LoopType, NoThread
<1>4. Marked' BY DEF IdleInv, Marked, NoThread
<1> QED BY <1>1, <1>2, <1>3, <1>4 DEF IdleInv

-----------------------------------------------------------------------------
(* What the actors do while the loop is in executeReadyFibers.               *)

(* One actor goes on to r.  It does not wait for a call that is there        *)
(* already, and stays with a list of ready descriptors until that is empty.  *)
LEMMA PutKeeps ==
  ASSUME IdleInv, NEW a \in Actors, NEW r, Fits(a, r), actor' = [actor EXCEPT ![a] = r],
         pc = "fibers", UNCHANGED <<pc, awake, thread, event>>, need' \in {need, FALSE},
         a \in Fibers /\ r.run = "hold" /\ r.at = "wait" => need' = FALSE,
         emits' # <<>> => emits # <<>>,
         emits' # <<>> /\ a \in Fibers /\ Carrier(a) =>
           r.at \in {"timers", "tick", "descs", "emit"} \/ (r.at = "wait" /\ r.run # "hold")
  PROVE  IdleInv'
<1>1. ActorsFit' /\ actor'[a] = r /\ \A b \in Actors \ {a} : actor'[b] = actor[b]
  BY PutFacts DEF IdleInv
<1>2. LoopType'
  <2>1. need' \in BOOLEAN BY DEF IdleInv, LoopType
  <2> QED BY <2>1 DEF IdleInv, LoopType
<1>3. Callable'
  <2>1. CASE need' = FALSE BY <2>1 DEF Callable
  <2>2. CASE need' # FALSE
    <3>1. need' = need BY <2>2
    <3>2. Waiting' \subseteq Waiting BY <1>1, <2>2, Kinds DEF Waiting
    <3> QED BY <3>1, <3>2 DEF IdleInv, Callable
  <2> QED BY <2>1, <2>2
<1>4. Quiet' /\ OneFree' BY DEF Quiet, OneFree
<1>5. Carried'
  <2> SUFFICES ASSUME emits' # <<>> PROVE \E f \in Fibers : Carrier(f)' BY DEF Carried
  <2>1. PICK f \in Fibers : Carrier(f) BY DEF IdleInv, Carried, Over
  <2>2. CASE f = a BY <1>1, <2>1, <2>2 DEF Carrier
  <2>3. CASE f # a
    <3>1. actor'[f] = actor[f] BY <1>1, <2>3, Kinds
    <3> QED BY <2>1, <3>1 DEF Carrier
  <2> QED BY <2>2, <2>3
<1>6. Marked' BY DEF IdleInv, Marked
<1> QED BY <1>1, <1>2, <1>3, <1>4, <1>5, <1>6 DEF IdleInv

(* At: a fiber keeps running, elsewhere.                                     *)
LEMMA WorksOn ==
  ASSUME IdleInv, NEW f \in Fibers, NEW place \in {"head", "timers", "tick", "descs", "emit"}, NEW on,
         Works(f), actor' = At(f, place, on), UNCHANGED <<pc, awake, thread, event>>,
         need' \in {need, FALSE}, emits' # <<>> => emits # <<>>,
         place = "head" => emits' = <<>>
  PROVE  IdleInv'
<1> DEFINE r == [actor[f] EXCEPT !.at = place, !.on = on]
<1>1. /\ f \in Actors /\ f \notin Awakers /\ f # Main
      /\ actor[f].run = "work" /\ pc = "fibers" /\ Fits(f, actor[f]) /\ DOMAIN actor = Actors
  BY Kinds DEF IdleInv, ActorsFit, Works
<1>2. Fits(f, r) /\ r.at = place /\ r.run = "work" BY <1>1 DEF Fits, FiberFits
<1>3. actor' = [actor EXCEPT ![f] = r] BY <1>1 DEF At, Fits
<1> HIDE DEF r
<1> QED BY <1>1, <1>2, <1>3, PutKeeps

LEMMA TicksDoneKeeps == ASSUME IdleInv, NEW f \in Fibers, TicksDone(f) PROVE IdleInv'
BY WorksOn DEF TicksDone, descVars, awakeVars

LEMMA PoolWokenKeeps == ASSUME IdleInv, NEW f \in Fibers, PoolWoken(f) PROVE IdleInv'
BY WorksOn DEF PoolWoken, descVars, awakeVars

LEMMA PoolDoneKeeps == ASSUME IdleInv, NEW f \in Fibers, PoolDone(f) PROVE IdleInv'
BY WorksOn DEF PoolDone, descVars, awakeVars

LEMMA EmitReadyKeeps == ASSUME IdleInv, NEW f \in Fibers, EmitReady(f) PROVE IdleInv'
<1>1. CASE actor' = actor BY <1>1, AsideKeeps DEF EmitReady, awakeVars
<1>2. CASE actor' = At(f, "emit", Head(emits))
  BY <1>2, WorksOn DEF EmitReady, awakeVars
<1> QED BY <1>1, <1>2 DEF EmitReady

LEMMA PoolWaitKeeps == ASSUME IdleInv, NEW f \in Fibers, PoolWait(f) PROVE IdleInv'
<1>1. CASE need BY <1>1, WorksOn DEF PoolWait, descVars, awakeVars
<1>2. CASE ~need
  <2> DEFINE r == [actor[f] EXCEPT !.at = "wait", !.run = "hold"]
  <2>1. /\ f \in Actors /\ f \notin Awakers /\ f # Main
        /\ actor[f].run = "work" /\ pc = "fibers" /\ Fits(f, actor[f]) /\ DOMAIN actor = Actors
    BY Kinds DEF IdleInv, ActorsFit, Works, PoolWait
  <2>2. Fits(f, r) BY <2>1 DEF Fits, FiberFits
  <2>3. actor' = [actor EXCEPT ![f] = r] BY <1>2, <2>1 DEF PoolWait, Fits
  <2>4. ~Carrier(f) BY DEF PoolWait, Carrier
  <2> HIDE DEF r
  <2> QED BY <2>1, <2>2, <2>3, <2>4, PutKeeps DEF PoolWait, descVars, awakeVars
<1> QED BY <1>1, <1>2

(* An actor ends.                                                            *)
LEMMA GoneFits == ASSUME NEW a \in Actors PROVE Fits(a, Gone)
BY Kinds DEF Fits, FiberFits, OtherFits, Gone

LEMMA PoolEndsKeeps == ASSUME IdleInv, NEW f \in Fibers, PoolEnds(f) PROVE IdleInv'
<1>1. f \in Actors /\ ~Carrier(f) /\ pc = "fibers" BY Kinds DEF PoolEnds, Carrier, Works
<1>2. Gone.run # "hold" BY DEF Gone
<1> QED BY <1>1, <1>2, GoneFits, PutKeeps DEF PoolEnds, descVars, awakeVars

(* A timer ticks: its fiber goes to the handler, and may call another one    *)
(* for what is in the list already.                                          *)
LEMMA TickKeeps == ASSUME IdleInv, NEW f \in Fibers, Tick(f) PROVE IdleInv'
<1> DEFINE t == Head(wheel.ready)
           r == [actor[f] EXCEPT !.at = "tick", !.on = t]
           act == [actor EXCEPT ![f] = r]
<1>1. /\ f \in Actors /\ f \notin Awakers /\ f # Main /\ pc = "fibers"
      /\ actor[f].run = "work" /\ Fits(f, actor[f]) /\ DOMAIN actor = Actors
      /\ \A a \in Actors : Fits(a, actor[a])
  BY Kinds DEF IdleInv, ActorsFit, Works, Tick
<1>2. Fits(f, r) /\ r.at = "tick" /\ r.run = "work" BY <1>1 DEF Fits, FiberFits
<1>3. At(f, "tick", t) = act BY <1>1 DEF At, Fits
<1>4. PICK yes : NeedExecInFiber(act, yes) BY <1>3 DEF Tick, Rolled
<1>5. UNCHANGED <<pc, emits, awake, thread, event>> BY DEF Tick, descVars, awakeVars
<1> HIDE DEF t, r
<1>6. DOMAIN act = Actors /\ act[f] = r /\ \A a \in Actors \ {f} : act[a] = actor[a] BY <1>1
<1> HIDE DEF act
<1>7. \A a \in Actors : Fits(a, act[a]) BY <1>1, <1>2, <1>6
<1>8. \A g \in Fibers : IF g \in Waiting THEN act[g] = actor[g]
                        ELSE ~(act[g].run = "hold" /\ act[g].at = "wait")
  BY <1>1, <1>2, <1>6, Kinds DEF Waiting
<1>9. ActorsFit' /\ Callable' /\ need' \in BOOLEAN /\ Carrier(f)'
  BY <1>2, <1>4, <1>6, <1>7, <1>8, CallFacts
<1>10. LoopType' BY <1>5, <1>9 DEF IdleInv, LoopType
<1>11. Quiet' /\ OneFree' /\ Carried' BY <1>1, <1>5, <1>9 DEF Quiet, OneFree, Carried
<1>12. Marked' BY <1>5 DEF IdleInv, Marked
<1> QED BY <1>9, <1>10, <1>11, <1>12 DEF IdleInv

(* User code waits, makes another handler ready, and returns.                *)
LEMMA SuspendKeeps == ASSUME IdleInv, NEW a \in Actors, Suspend(a) PROVE IdleInv'
<1> DEFINE r == [actor[a] EXCEPT !.run = "hold"]
<1>1. /\ a \in Fibers /\ a \notin Awakers /\ a # Main /\ pc = "fibers"
      /\ Fits(a, actor[a]) /\ DOMAIN actor = Actors
  BY Kinds DEF IdleInv, ActorsFit, Works, Suspend, UserCode
<1>2. actor[a].at \in {"tick", "emit"} BY <1>1 DEF Fits, FiberFits, Suspend, UserCode
<1>3. Fits(a, r) /\ r.at = actor[a].at BY <1>1, <1>2 DEF Fits, FiberFits
<1>4. actor' = [actor EXCEPT ![a] = r] BY DEF Suspend
<1> HIDE DEF r
<1> QED BY <1>1, <1>2, <1>3, <1>4, PutKeeps DEF Suspend, descVars, awakeVars

LEMMA ReadyFits ==
  ASSUME NEW a \in Actors, NEW s, Fits(a, s), s.run # "none"
  PROVE  LET r == [s EXCEPT !.run = "ready"]
         IN  Fits(a, r) /\ r.run = "ready" /\ r.at = s.at
BY DEF Fits, FiberFits, OtherFits

LEMMA ReleaseKeeps ==
  ASSUME IdleInv, NEW a \in Actors, NEW b \in Fibers, Release(a, b) PROVE IdleInv'
<1> DEFINE r == [actor[b] EXCEPT !.run = "ready"]
<1>1. /\ b \in Actors /\ Fits(b, actor[b]) /\ pc = "fibers" /\ actor[b].run = "hold"
      /\ actor[b].at \in {"tick", "emit"}
  BY Kinds DEF IdleInv, ActorsFit, Works, Release, UserCode
<1>2. Fits(b, r) /\ r.run = "ready" /\ r.at = actor[b].at BY <1>1, ReadyFits
<1>3. actor' = [actor EXCEPT ![b] = r] BY DEF Release
<1> HIDE DEF r
<1> QED BY <1>1, <1>2, <1>3, PutKeeps DEF Release, descVars, awakeVars

LEMMA ReturnKeeps == ASSUME IdleInv, NEW a \in Actors, Return(a) PROVE IdleInv'
<1>1. pc = "fibers" /\ Works(a) BY DEF Return, UserCode, Works
<1>2. CASE a = Main
  <2>1. actor' = [actor EXCEPT ![a] = Gone] /\ a \notin Fibers BY <1>2, Kinds DEF Return
  <2> QED BY <1>1, <2>1, GoneFits, PutKeeps DEF Return, descVars, awakeVars
<1>3. CASE a # Main
  <2>1. a \in Fibers BY <1>3 DEF Return, Actors
  <2>2. CASE actor[a].at = "tick"
    BY <1>1, <1>3, <2>1, <2>2, WorksOn DEF Return, descVars, awakeVars
  <2>3. CASE actor[a].at # "tick"
    BY <1>1, <1>3, <2>1, <2>3, WorksOn DEF Return, descVars, awakeVars
  <2> QED BY <2>2, <2>3
<1> QED BY <1>2, <1>3

(* An actor that is ready runs.                                              *)
LEMMA ExecuteKeeps == ASSUME IdleInv, NEW a \in Actors, Execute(a) PROVE IdleInv'
<1> DEFINE n == IF actor[a].busy < 0 THEN Cardinality(Busy) ELSE actor[a].busy
           r == [actor[a] EXCEPT !.run = "work", !.busy = n]
<1>1. Fits(a, actor[a]) /\ pc = "fibers" /\ actor[a].run = "ready" /\ DOMAIN actor = Actors
  BY DEF IdleInv, ActorsFit, Execute
<1>2. Fits(a, r) /\ r.run = "work" /\ r.at = actor[a].at
  BY <1>1 DEF Fits, FiberFits, OtherFits
<1>3. actor' = [actor EXCEPT ![a] = r] BY <1>1 DEF Execute, Fits
<1>4. a \in Fibers /\ Carrier(a) => actor[a].at \in {"timers", "tick", "descs", "emit", "wait"}
  BY DEF Carrier
<1> HIDE DEF r
<1> QED BY <1>1, <1>2, <1>3, <1>4, PutKeeps DEF Execute, descVars, awakeVars

-----------------------------------------------------------------------------
(* Awakers.                                                                  *)

(* Some are handed over: neither marked nor listed any more.                 *)
LEMMA HandedOver ==
  ASSUME IdleInv, UNCHANGED thread, NEW S \in SUBSET Awakers,
         awake' = [a \in Awakers |-> IF a \in S THEN [ready |-> FALSE, listed |-> FALSE] ELSE awake[a]]
  PROVE  /\ awake' \in [Awakers -> [ready : BOOLEAN, listed : BOOLEAN]]
         /\ \A a \in Awakers :
              /\ awake'[a].ready /\ ~awake'[a].listed => thread' = [at |-> "list", on |-> a]
              /\ awake'[a].listed => awake[a].listed
<1>1. awake \in [Awakers -> [ready : BOOLEAN, listed : BOOLEAN]] BY DEF IdleInv, LoopType
<1>2. awake' \in [Awakers -> [ready : BOOLEAN, listed : BOOLEAN]] BY <1>1
<1>3. ASSUME NEW a \in Awakers
      PROVE  /\ awake'[a].ready /\ ~awake'[a].listed => thread' = [at |-> "list", on |-> a]
             /\ awake'[a].listed => awake[a].listed
  <2>1. CASE a \in S
    <3>1. awake'[a] = [ready |-> FALSE, listed |-> FALSE] BY <2>1
    <3> QED BY <3>1
  <2>2. CASE a \notin S
    <3>1. awake'[a] = awake[a] BY <2>2
    <3> QED BY <3>1 DEF IdleInv, Marked
  <2> QED BY <2>1, <2>2
<1> QED BY <1>2, <1>3

(* woken: the fibers and the main task are left alone.                       *)
LEMMA EmitWokenFacts ==
  ASSUME IdleInv, EmitWoken
  PROVE  /\ ActorsFit' /\ \A f \in Fibers : actor'[f] = actor[f]
         /\ Listed = {} => awake' = awake /\ \A a \in Actors : actor'[a] = actor[a]
<1> DEFINE S == {a \in Listed : Emittable(a)}
           r == [run |-> "ready", at |-> "woken", on |-> Nobody, busy |-> 0]
<1>1. S \subseteq Awakers /\ awake \in [Awakers -> [ready : BOOLEAN, listed : BOOLEAN]]
  BY DEF Listed, IdleInv, LoopType
<1>2. DOMAIN actor = Actors /\ \A a \in Actors : Fits(a, actor[a]) BY DEF IdleInv, ActorsFit
<1>3. \A a \in S : Fits(a, r) BY <1>1, Kinds DEF Fits, OtherFits
<1>4. actor' = [a \in Actors |-> IF a \in S THEN r ELSE actor[a]] BY DEF EmitWoken
<1>5. awake' = [a \in Awakers |-> IF a \in S THEN [ready |-> FALSE, listed |-> FALSE] ELSE awake[a]]
  BY DEF EmitWoken
<1>6. Listed = {} => S = {} OBVIOUS
<1> HIDE DEF S, r
<1>7. ActorsFit' BY <1>2, <1>3, <1>4 DEF ActorsFit
<1>8. \A f \in Fibers : actor'[f] = actor[f] BY <1>1, <1>4, Kinds
<1>9. ASSUME Listed = {} PROVE awake' = awake /\ \A a \in Actors : actor'[a] = actor[a]
  <2>1. S = {} BY <1>6, <1>9
  <2>2. awake' = [a \in Awakers |-> awake[a]] BY <1>5, <2>1
  <2> QED BY <1>1, <1>4, <2>1, <2>2
<1> QED BY <1>7, <1>8, <1>9

LEMMA WokenEndsKeeps == ASSUME IdleInv, NEW a \in Actors, WokenEnds(a) PROVE IdleInv'
<1>1. /\ a \in Awakers /\ pc = "fibers" /\ Fits(a, actor[a]) /\ actor[a].run = "work"
      /\ UNCHANGED <<pc, need, emits, thread, event>>
  BY DEF IdleInv, ActorsFit, WokenEnds, UserCode, Works, descVars
<1>2. a \notin Fibers /\ awake \in [Awakers -> [ready : BOOLEAN, listed : BOOLEAN]]
  BY <1>1, Kinds DEF IdleInv, LoopType
<1>3. CASE awake[a].ready
  <2> DEFINE r == [actor[a] EXCEPT !.run = "ready"]
  <2>1. /\ actor' = [actor EXCEPT ![a] = r]
        /\ awake' = [awake EXCEPT ![a] = [ready |-> FALSE, listed |-> FALSE]]
    BY <1>3 DEF WokenEnds
  <2>2. Fits(a, r) BY <1>1, ReadyFits
  <2> HIDE DEF r
  <2>3. ActorsFit' /\ \A b \in Actors \ {a} : actor'[b] = actor[b]
    BY <2>1, <2>2, PutFacts DEF IdleInv
  <2>4. /\ awake' = [b \in Awakers |-> IF b \in {a} THEN [ready |-> FALSE, listed |-> FALSE]
                                       ELSE awake[b]]
        /\ {a} \in SUBSET Awakers
    BY <1>1, <1>2, <1>3, <2>1
  <2>5. /\ awake' \in [Awakers -> [ready : BOOLEAN, listed : BOOLEAN]]
        /\ \A b \in Awakers :
             awake'[b].ready /\ ~awake'[b].listed => thread' = [at |-> "list", on |-> b]
    BY <1>1, <2>4, HandedOver
  <2>6. LoopType' BY <1>1, <2>1, <2>5 DEF IdleInv, LoopType
  <2>7. Marked' BY <1>1, <2>1, <2>5 DEF Marked
  <2>8. \A f \in Fibers : actor'[f] = actor[f] BY <1>2, <2>3, Kinds
  <2>9. Quiet' /\ OneFree' /\ Callable' /\ Carried'
    BY <1>1, <2>1, <2>8 DEF IdleInv, Quiet, OneFree, Callable, Waiting, Carried, Carrier, Over
  <2> QED BY <2>3, <2>6, <2>7, <2>9 DEF IdleInv
<1>4. CASE ~awake[a].ready
  <2>1. actor' = [actor EXCEPT ![a] = Gone] /\ UNCHANGED awake BY <1>4 DEF WokenEnds
  <2> QED BY <1>1, <1>2, <2>1, GoneFits, PutKeeps
<1> QED BY <1>3, <1>4

-----------------------------------------------------------------------------
(* The loop.                                                                 *)

(* The parts that look at actors, when all stay as they are.                 *)
LEMMA ActorsStay ==
  ASSUME IdleInv, ActorsFit', \A f \in Fibers : actor'[f] = actor[f]
  PROVE  /\ Waiting' = Waiting
         /\ UNCHANGED need => Callable'
         /\ UNCHANGED emits /\ ~Over => Carried'
BY DEF IdleInv, Waiting, Callable, Carried, Carrier

LEMMA FireKeeps == ASSUME IdleInv, Fire PROVE IdleInv'
<1>1. PICK yes : NeedExecInFiber(actor, yes) BY DEF Fire, Rolled
<1>2. pc = "top" /\ pc' = "fibers" /\ UNCHANGED <<emits, awake, thread, event>>
  BY DEF Fire, descVars, awakeVars
<1>3. DOMAIN actor = Actors /\ \A b \in Actors : Fits(b, actor[b]) BY DEF IdleInv, ActorsFit
<1>4. \A f \in Fibers : IF f \in Waiting THEN actor[f] = actor[f]
                        ELSE ~(actor[f].run = "hold" /\ actor[f].at = "wait")
  BY DEF Waiting
<1>5. /\ ActorsFit' /\ Callable' /\ need' \in BOOLEAN
      /\ \A f \in Fibers : Carrier(f) => Carrier(f)'
  BY <1>1, <1>3, <1>4, CallFacts
<1>6. LoopType' BY <1>2, <1>5 DEF IdleInv, LoopType
<1>7. Quiet' /\ OneFree' BY <1>2 DEF Quiet, OneFree
<1>8. Carried' BY <1>2, <1>5 DEF IdleInv, Carried, Over
<1>9. Marked' BY <1>2 DEF IdleInv, Marked
<1> QED BY <1>5, <1>6, <1>7, <1>8, <1>9 DEF IdleInv

LEMMA ExecutedKeeps == ASSUME IdleInv, Executed PROVE IdleInv'
<1>1. /\ pc = "fibers" /\ pc' \in {"top", "spawn"}
      /\ UNCHANGED <<need, actor, emits, awake, thread, event>>
      /\ \A a \in Actors : actor[a].run \notin {"work", "ready"}
  BY DEF Executed, descVars, awakeVars
<1>2. LoopType' /\ ActorsFit' /\ Quiet' /\ OneFree' /\ Callable'
  BY <1>1 DEF IdleInv, LoopType, ActorsFit, Quiet, OneFree, Callable, Waiting
<1>3. Carried' /\ Marked' BY <1>1 DEF IdleInv, Carried, Carrier, Over, Marked
<1> QED BY <1>2, <1>3 DEF IdleInv

(* All fibers are busy, and another one is spawned, or one of them waits.    *)
LEMMA SpawnKeeps == ASSUME IdleInv, SpawnFiberIfNeed PROVE IdleInv'
<1>1. pc = "spawn" /\ UNCHANGED <<need, emits, awake, thread, event>>
  BY DEF SpawnFiberIfNeed, descVars, awakeVars
<1>2. CASE Cardinality(Spawned) <= Cardinality(Busy)
  <2> DEFINE r == [run |-> "ready", at |-> "head", on |-> Nobody, busy |-> -1]
  <2>1. PICK f \in Fibers \ Spawned : actor' = [actor EXCEPT ![f] = r]
    BY <1>2 DEF SpawnFiberIfNeed
  <2>2. pc' = "top" BY <1>2 DEF SpawnFiberIfNeed
  <2>3. f \in Actors /\ Fits(f, r) /\ r.run = "ready" BY Kinds DEF Fits, FiberFits
  <2>4. actor[f].run = "none" /\ FiberFits(actor[f])
    BY <2>3 DEF IdleInv, ActorsFit, Fits, FiberFits, Spawned
  <2> HIDE DEF r
  <2>5. ActorsFit' /\ actor'[f] = r /\ \A b \in Actors \ {f} : actor'[b] = actor[b]
    BY <2>1, <2>3, PutFacts DEF IdleInv
  <2>6. Waiting' \subseteq Waiting BY <2>3, <2>5, Kinds DEF Waiting
  <2>7. Callable' BY <1>1, <2>6 DEF IdleInv, Callable
  <2>8. ~Carrier(f) BY <2>4 DEF Carrier, FiberFits
  <2>9. \A g \in Fibers : Carrier(g) => Carrier(g)' BY <2>5, <2>8, Kinds DEF Carrier
  <2>10. Carried' BY <1>1, <2>9 DEF IdleInv, Carried, Over
  <2>11. LoopType' /\ Quiet' /\ OneFree' /\ Marked'
    BY <1>1, <2>2 DEF IdleInv, LoopType, Quiet, OneFree, Marked
  <2> QED BY <2>5, <2>7, <2>10, <2>11 DEF IdleInv
<1>3. CASE ~(Cardinality(Spawned) <= Cardinality(Busy))
  <2>1. pc' = "woken" /\ UNCHANGED actor BY <1>3 DEF SpawnFiberIfNeed
  <2>2. IsFiniteSet(Busy) /\ IsFiniteSet(Spawned)
    BY PollAssumption, FS_Subset DEF Busy, Spawned
  <2>3. ~(Spawned \subseteq Busy) BY <1>3, <2>2, FS_Subset
  <2>4. PICK f \in Fibers : actor[f].run # "none" /\ actor[f].at \notin {"timers", "tick", "descs", "emit"}
    BY <2>3 DEF Busy, Spawned
  <2>5. FiberFits(actor[f]) /\ actor[f].run \notin {"ready", "work"}
    BY <1>1, Kinds DEF IdleInv, ActorsFit, Fits, Quiet
  <2>6. f \in Waiting BY <2>4, <2>5 DEF Waiting, FiberFits
  <2>7. LoopType' /\ ActorsFit' /\ Quiet' /\ Callable' /\ OneFree'
    BY <1>1, <2>1, <2>6 DEF IdleInv, LoopType, ActorsFit, Quiet, Callable, OneFree, Waiting
  <2>8. Carried' /\ Marked' BY <1>1, <2>1 DEF IdleInv, Carried, Carrier, Over, Marked
  <2> QED BY <2>7, <2>8 DEF IdleInv
<1> QED BY <1>2, <1>3

(* The awakers in the list are all free, since nobody runs: either the list  *)
(* was empty, or the loop comes round.                                       *)
LEMMA WokenKeeps == ASSUME IdleInv, Woken PROVE IdleInv'
<1> DEFINE S == {a \in Listed : Emittable(a)}
<1>1. /\ pc = "woken" /\ EmitWoken /\ pc' = (IF Listed = {} THEN "sleep" ELSE "top")
      /\ UNCHANGED <<need, emits, thread, event>>
  BY DEF Woken, descVars
<1>2. /\ ActorsFit' /\ \A f \in Fibers : actor'[f] = actor[f]
      /\ Listed = {} => awake' = awake /\ \A a \in Actors : actor'[a] = actor[a]
  BY <1>1, EmitWokenFacts
<1>3. Waiting' = Waiting /\ Callable' /\ Carried'
  BY <1>1, <1>2, ActorsStay DEF Over
<1>4. /\ awake' \in [Awakers -> [ready : BOOLEAN, listed : BOOLEAN]]
      /\ \A a \in Awakers :
           /\ awake'[a].listed => awake[a].listed
           /\ awake'[a].ready /\ ~awake'[a].listed => thread' = [at |-> "list", on |-> a]
  <2>1. S \in SUBSET Awakers BY DEF Listed
  <2>2. awake' = [a \in Awakers |-> IF a \in S THEN [ready |-> FALSE, listed |-> FALSE] ELSE awake[a]]
    BY <1>1 DEF EmitWoken
  <2> HIDE DEF S
  <2> QED BY <1>1, <2>1, <2>2, HandedOver
<1>5. LoopType' BY <1>1, <1>4 DEF IdleInv, LoopType
<1>6. Quiet' BY <1>1, <1>2 DEF IdleInv, Quiet
<1>7. OneFree' BY <1>1, <1>3 DEF IdleInv, OneFree
<1>8. Marked'
  <2>1. ASSUME pc' = "sleep", NEW a \in Awakers PROVE ~awake'[a].listed
    BY <1>1, <1>4, <2>1 DEF Listed
  <2>2. pc' # "poll" BY <1>1
  <2> QED BY <1>4, <2>1, <2>2 DEF Marked
<1> QED BY <1>2, <1>3, <1>5, <1>6, <1>7, <1>8 DEF IdleInv

LEMMA InterruptedKeeps == ASSUME IdleInv, Interrupted PROVE IdleInv'
<1> DEFINE S == {a \in Listed : Emittable(a)}
<1>1. pc = "poll" /\ EmitWoken /\ pc' = "top" /\ UNCHANGED <<need, emits, thread, event>>
  BY DEF Interrupted, descVars
<1>2. ActorsFit' /\ \A f \in Fibers : actor'[f] = actor[f] BY <1>1, EmitWokenFacts
<1>3. Callable' /\ Carried' BY <1>1, <1>2, ActorsStay DEF Over
<1>4. /\ awake' \in [Awakers -> [ready : BOOLEAN, listed : BOOLEAN]]
      /\ \A a \in Awakers :
           awake'[a].ready /\ ~awake'[a].listed => thread' = [at |-> "list", on |-> a]
  <2>1. S \in SUBSET Awakers BY DEF Listed
  <2>2. awake' = [a \in Awakers |-> IF a \in S THEN [ready |-> FALSE, listed |-> FALSE] ELSE awake[a]]
    BY <1>1 DEF EmitWoken
  <2> HIDE DEF S
  <2> QED BY <1>1, <2>1, <2>2, HandedOver
<1>5. LoopType' BY <1>1, <1>4 DEF IdleInv, LoopType
<1>6. Quiet' /\ OneFree' BY <1>1 DEF Quiet, OneFree
<1>7. Marked' BY <1>1, <1>4 DEF Marked
<1> QED BY <1>2, <1>3, <1>5, <1>6, <1>7 DEF IdleInv

LEMMA SleepKeeps == ASSUME IdleInv, Sleep PROVE IdleInv'
<1>1. /\ pc = "sleep" /\ pc' \in {"top", "poll"}
      /\ UNCHANGED <<need, actor, emits, awake, thread, event>>
  BY DEF Sleep, descVars, awakeVars
<1>2. LoopType' /\ ActorsFit' /\ Quiet' /\ OneFree' /\ Callable'
  BY <1>1 DEF IdleInv, LoopType, ActorsFit, Quiet, OneFree, Callable, Waiting
<1>3. Carried' /\ Marked' BY <1>1 DEF IdleInv, Carried, Carrier, Over, Marked
<1> QED BY <1>2, <1>3 DEF IdleInv

(* Descriptors that get into the list have a fiber called for them: one      *)
(* waits, since the loop was about to sleep.                                 *)
LEMMA PolledKeeps == ASSUME IdleInv, Polled PROVE IdleInv'
<1> DEFINE yes == emits' # <<>>
<1>1. /\ pc = "poll" /\ pc' = "top" /\ event' = FALSE
      /\ UNCHANGED <<awake, thread>>
      /\ NeedExecInFiber(actor, yes)
  BY DEF Polled, awakeVars
<1>2. DOMAIN actor = Actors /\ \A b \in Actors : Fits(b, actor[b]) BY DEF IdleInv, ActorsFit
<1>3. \A f \in Fibers : IF f \in Waiting THEN actor[f] = actor[f]
                        ELSE ~(actor[f].run = "hold" /\ actor[f].at = "wait")
  BY DEF Waiting
<1> HIDE DEF yes
<1>4. /\ ActorsFit' /\ Callable' /\ need' \in BOOLEAN
      /\ yes /\ Waiting # {} => \E f \in Fibers : Carrier(f)'
  BY <1>1, <1>2, <1>3, CallFacts
<1>5. Waiting # {} BY <1>1 DEF IdleInv, OneFree
<1>6. LoopType' BY <1>1, <1>4 DEF IdleInv, LoopType
<1>7. Quiet' /\ OneFree' BY <1>1 DEF Quiet, OneFree
<1>8. Carried' BY <1>4, <1>5 DEF Carried, yes
<1>9. Marked' BY <1>1 DEF IdleInv, Marked
<1> QED BY <1>4, <1>6, <1>7, <1>8, <1>9 DEF IdleInv

LEMMA LeaveKeeps == ASSUME IdleInv, Leave PROVE IdleInv'
<1>1. /\ pc' = "done" /\ need' = TRUE /\ UNCHANGED <<awake, thread, event>>
      /\ actor' = [x \in Actors |-> IF x \in Fibers THEN Gone ELSE actor[x]]
  BY DEF Leave, awakeVars
<1>2. ActorsFit' BY <1>1, GoneFits DEF IdleInv, ActorsFit
<1>3. Waiting' = {} BY <1>1, Kinds DEF Waiting, Gone
<1>4. LoopType' /\ Quiet' /\ Callable' /\ OneFree' /\ Carried' /\ Marked'
  BY <1>1, <1>3 DEF IdleInv, LoopType, Quiet, Callable, OneFree, Carried, Over, Marked
<1> QED BY <1>2, <1>4 DEF IdleInv

-----------------------------------------------------------------------------
(* The invariant.                                                            *)

LEMMA IdleInit == Init => IdleInv
<1> SUFFICES ASSUME Init PROVE IdleInv OBVIOUS
<1> DEFINE g == CHOOSE f \in Fibers : TRUE
<1>1. g \in Fibers BY PollAssumption
<1>2. \A a \in Actors : actor[a] = CASE a = Main -> [run |-> "ready", at |-> "main", on |-> Nobody, busy |-> 0]
         [] a = g -> [run |-> "ready", at |-> "head", on |-> Nobody, busy |-> -1]
         [] OTHER -> Gone
  BY DEF Init
<1> HIDE DEF g
<1>3. ASSUME NEW a \in Actors PROVE Fits(a, actor[a]) /\ actor[a].run # "hold"
  <2>1. CASE a = Main
    <3>1. actor[a] = [run |-> "ready", at |-> "main", on |-> Nobody, busy |-> 0] 
      BY <1>1, <1>2, <2>1, Kinds
    <3> QED BY <2>1, <3>1, Kinds DEF Fits, OtherFits
  <2>2. CASE a = g
    <3>1. actor[a] = [run |-> "ready", at |-> "head", on |-> Nobody, busy |-> -1]
      BY <1>1, <1>2, <2>2, Kinds
    <3> QED BY <1>1, <2>2, <3>1, Kinds DEF Fits, FiberFits
  <2>3. CASE a # Main /\ a # g BY <1>2, <2>3, GoneFits DEF Gone
  <2> QED BY <2>1, <2>2, <2>3
<1>4. ActorsFit BY <1>3 DEF Init, ActorsFit
<1>5. LoopType
  <2>1. awake \in [Awakers -> [ready : BOOLEAN, listed : BOOLEAN]] BY DEF Init
  <2>2. thread = NoThread /\ thread \in [at : {"idle", "list", "write"}, on : Awakers \union {Nobody}]
    BY DEF Init, NoThread
  <2>3. thread.at = "idle" BY <2>2 DEF NoThread
  <2> QED BY <2>1, <2>2, <2>3 DEF Init, LoopType
<1>6. Quiet /\ Callable /\ OneFree /\ Carried BY DEF Init, Quiet, Callable, OneFree, Carried
<1>7. Marked BY DEF Init, Marked, NoThread
<1> QED BY <1>4, <1>5, <1>6, <1>7 DEF IdleInv

LEMMA IdleStep == IdleInv /\ [Next]_vars => IdleInv'
<1> SUFFICES ASSUME IdleInv, [Next]_vars PROVE IdleInv' OBVIOUS
<1>1. ASSUME NEW d \in Descriptors, Kernel(d) PROVE IdleInv'
  BY <1>1, AsideKeeps DEF Kernel, awakeVars
<1>2. ASSUME NEW a \in Actors, StopService(a) PROVE IdleInv'
  BY <1>2, AsideKeeps DEF StopService, descVars, awakeVars
<1>3. CASE Time BY <1>3, AsideKeeps DEF Time, descVars, awakeVars
<1>4. CASE UNCHANGED vars BY <1>4, AsideKeeps DEF vars, descVars, awakeVars
<1>5. ASSUME NEW a \in Actors, Calls(a) PROVE IdleInv'
  BY <1>2, <1>5, TimerCallKeeps, DescriptorCallKeeps, SuspendKeeps DEF Calls
<1>6. CASE Outside BY <1>1, <1>6, MarkKeeps DEF Outside
<1>7. CASE Loop
  BY <1>7, FireKeeps, ExecutedKeeps, SpawnKeeps, WokenKeeps, SleepKeeps, PolledKeeps DEF Loop
<1>8. ASSUME NEW f \in Fibers, Pool(f) PROVE IdleInv'
  BY <1>8, TickKeeps, TicksDoneKeeps, EmitReadyKeeps, PoolWaitKeeps, PoolWokenKeeps, PoolDoneKeeps,
     PoolEndsKeeps DEF Pool
<1>9. ASSUME NEW a \in Actors,
             Execute(a) \/ Ends(a) \/ \E b \in Fibers : Release(a, b)
      PROVE  IdleInv'
  BY <1>9, ExecuteKeeps, ReturnKeeps, WokenEndsKeeps, ReleaseKeeps DEF Ends
<1> QED BY <1>3, <1>4, <1>5, <1>6, <1>7, <1>8, <1>9, InterruptedKeeps, LeaveKeeps, ListKeeps, WriteKeeps
        DEF Next

(* The invariant says, of the moment before epoll_pwait, what is wanted.     *)
LEMMA IdleEnough == IdleInv => SleepsIdle
<1> SUFFICES ASSUME IdleInv, pc = "poll"
             PROVE  /\ Waiting # {} /\ ~need
                    /\ Held = {} => emits = <<>>
                    /\ \A a \in Awakers : awake[a].ready =>
                         IF awake[a].listed THEN event \/ thread.at = "write"
                         ELSE thread = [at |-> "list", on |-> a]
  BY DEF SleepsIdle
<1>1. Waiting # {} /\ ~need BY DEF IdleInv, OneFree, Callable
<1>2. ASSUME emits # <<>> PROVE Held # {}
  <2>1. PICK f \in Fibers : Carrier(f) BY <1>2 DEF IdleInv, Carried, Over
  <2>2. f \in Actors /\ FiberFits(actor[f]) /\ actor[f].run \notin {"ready", "work"}
    BY Kinds DEF IdleInv, ActorsFit, Fits, Quiet
  <2>3. actor[f].run = "hold" /\ actor[f].at # "wait" BY <2>1, <2>2 DEF FiberFits, Carrier
  <2> QED BY <2>2, <2>3 DEF Held
<1>3. ASSUME NEW a \in Awakers, awake[a].ready
      PROVE  IF awake[a].listed THEN event \/ thread.at = "write" ELSE thread = [at |-> "list", on |-> a]
  BY <1>3 DEF IdleInv, Marked
<1> QED BY <1>1, <1>2, <1>3

(* The loop goes to sleep in epoll_pwait only with nothing left to do, for   *)
(* any number of fibers, timers, descriptors and awakers, and with any calls *)
(* of user code: a fiber of the pool waits to be called, the ready           *)
(* descriptors have been handed over unless a handler waits in the middle of *)
(* their list, and an awaker that is marked has written to the event         *)
(* descriptor or will.                                                       *)
THEOREM AlwaysSleepsIdle == Spec => []SleepsIdle
<1>1. Spec => []IdleInv BY IdleInit, IdleStep, PTL DEF Spec
<1> QED BY <1>1, IdleEnough, PTL
==============================================================================
