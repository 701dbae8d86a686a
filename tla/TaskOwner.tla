------------------------------ MODULE TaskOwner ------------------------------
(***************************************************************************)
(* task::Owner on top of the scheduler: tasks belong to owners, an owner   *)
(* stops its tasks and gives each of them the processor until their number *)
(* no longer changes.  Owner::wait runs in the middle of the caller's      *)
(* code, between two switches, so that several contexts can be in it.      *)
(*                                                                         *)
(* An operator named Bad<Definition> is that definition with a slip a      *)
(* maintainer could make; nothing uses it but the mutation checks.         *)
(***************************************************************************)
EXTENDS Scheduler, Naturals, FiniteSets

CONSTANTS
  Owners,    (* the task::Owner objects                                      *)
  NoOwner,   (* null Owner*                                                  *)
  Programs,  (* records [calls, reowns]: the calls that the program makes of *)
             (* its owners and the tasks that it calls ownTo for             *)
  MaxCount   (* bound: a wait that has met this many tasks gets no more      *)

ASSUME OwnerAssumption ==
  /\ NoOwner \notin Owners
  /\ \A p \in Programs :
       /\ p.calls \subseteq {"stop", "stopNoWait", "flush", "flushNoWait", "wait", "destroy"}
       /\ p.reowns \subseteq Tasks

VARIABLES
  ownerOf,    (* Body::_owner                                                *)
  tasksOf,    (* Owner::_tasks                                               *)
  waiting,    (* Owner::_waiting                                             *)
  active,     (* Owner::_waitingActive                                       *)
  ownerStop,  (* Owner::_stopRequested                                       *)
  exists,     (* the owner has not been destroyed                            *)
  frame,      (* of a context: the Owner::wait that it is in, or NoFrame     *)
  crashed,    (* null has been dereferenced: nothing runs any more           *)
  program     (* which program it is                                         *)

ownerVars == <<ownerOf, tasksOf, waiting, active, ownerStop, exists, frame, crashed>>
allVars   == <<vars, ownerVars, program>>

NoFrame == [call |-> "none", on |-> NoOwner, prev |-> 0, count |-> 0]

(* The running code is not inside an Owner::wait.                            *)
Free == ~crashed /\ UserCode /\ frame[CurrentTask] = NoFrame

Owned(o) == Range(tasksOf[o]) \union Range(waiting[o])

-----------------------------------------------------------------------------
(* The scheduler's own operations, by code that is not in Owner::wait.       *)
Elsewhere ==
  /\ \/ Free /\ \E t \in Tasks : Ready(t) \/ StopTask(t)
     \/ Free /\ (Yield \/ Hold \/ ExecuteReadyFibers)
     \/ ExecuteNext \/ RootReturns
  /\ UNCHANGED ownerVars

(* slip: the owner's request is not looked at.                               *)
BadSpawn(t, o) ==
  /\ Free
  /\ o \in Owners => exists[o]
  /\ SpawnTask(t, FALSE)
  /\ ownerOf' = [ownerOf EXCEPT ![t] = o]
  /\ tasksOf' = IF o \in Owners THEN [tasksOf EXCEPT ![o] = Append(@, t)] ELSE tasksOf
  /\ UNCHANGED <<waiting, active, ownerStop, exists, frame, crashed>>

(* spawn, with or without an owner: Body::Body subscribes and takes over the *)
(* owner's request.                                                          *)
Spawn(t, o) ==
  /\ Free
  /\ o \in Owners => exists[o]
  /\ SpawnTask(t, o \in Owners /\ ownerStop[o])
  /\ ownerOf' = [ownerOf EXCEPT ![t] = o]
  /\ tasksOf' = IF o \in Owners THEN [tasksOf EXCEPT ![o] = Append(@, t)] ELSE tasksOf
  /\ UNCHANGED <<waiting, active, ownerStop, exists, frame, crashed>>

(* Owner::unsubscribe: the task leaves whichever list it is in.  (The slip:  *)
(* nothing is done while a wait is in progress.)                             *)
BadUnsubscribed(l, t) ==
  [o \in Owners |-> IF t \in Range(l[o]) /\ ~active[o] THEN Removed(l[o], t) ELSE l[o]]
Unsubscribed(l, t) ==
  [o \in Owners |-> IF t \in Range(l[o]) THEN Removed(l[o], t) ELSE l[o]]

(* Body::ownTo.  A task that comes to a stopping owner is stopped with it;   *)
(* any other owner, or none, withdraws what was asked of it before.          *)
(*                                                                           *)
(* A task that has not started has no fiber, which ownTo does not look at:   *)
(* it hands null to Scheduler::ready.  In the root context null is also the  *)
(* current fiber, and Stop is thrown there: the call ends.                   *)
OwnTo(t, o) ==
  /\ Free
  /\ o # ownerOf[t] /\ (o \in Owners => exists[o])
  /\ \A c \in Tasks \union {NoTask} : frame[c].on = o => frame[c].count < MaxCount
  /\ LET stops == o \in Owners /\ ownerStop[o]
     IN  /\ IF stops THEN StopTask(t) ELSE Unstop(t)
         /\ crashed' = (stops /\ state[t] = "null" /\ current # NoFiber)
  /\ ownerOf' = [ownerOf EXCEPT ![t] = o]
  /\ LET l == Unsubscribed(tasksOf, t)
     IN  tasksOf' = IF o \in Owners THEN [l EXCEPT ![o] = Append(@, t)] ELSE l
  /\ waiting' = Unsubscribed(waiting, t)
  /\ UNCHANGED <<active, ownerStop, exists, frame>>

(* The body returned: ~Body unsubscribes before the fiber is given away.     *)
Complete ==
  /\ ~crashed /\ frame[CurrentTask] = NoFrame
  /\ TaskCompleted
  /\ ownerOf' = [ownerOf EXCEPT ![CurrentTask] = NoOwner]
  /\ tasksOf' = Unsubscribed(tasksOf, CurrentTask)
  /\ waiting' = Unsubscribed(waiting, CurrentTask)
  /\ UNCHANGED <<active, ownerStop, exists, frame, crashed>>

-----------------------------------------------------------------------------
(* slip: the request is noted and nobody is woken.                           *)
BadStopEach(o) ==
  /\ stopRequested' = [t \in Tasks |-> stopRequested[t] \/ t \in Range(tasksOf[o])]
  /\ UNCHANGED <<state, called, bind, current, root, lists>>

FibersOf(ts) == [i \in DOMAIN ts |-> fiberOf[ts[i]]]

(* Those in s come in the order in which l lists them.                       *)
InOrderOf(l, s) ==
  \A i, j \in DOMAIN s : i < j => \E m, n \in DOMAIN l : m < n /\ l[m] = s[i] /\ l[n] = s[j]

(* Body::stop(false) of each task in _tasks: those that are held are woken,  *)
(* one after the other.                                                      *)
StopEach(o) ==
  LET held == {t \in Range(tasksOf[o]) : state[t] = "hold"}
  IN  /\ stopRequested' = [t \in Tasks |-> stopRequested[t] \/ t \in Range(tasksOf[o])]
      /\ state' = [t \in Tasks |-> IF t \in held THEN "ready4Stop" ELSE state[t]]
      /\ hold' = hold \ {fiberOf[t] : t \in held}
      /\ \E woken \in [1..Cardinality(held) -> held] :
           /\ Range(woken) = held /\ InOrderOf(tasksOf[o], woken)
           /\ ready4Stop' = ready4Stop \o FibersOf(woken)
      /\ UNCHANGED <<called, bind, current, root, spawned, ready, low, empty>>

(* stop, flush, wait and ~Owner.  wait returns at once when somebody is in   *)
(* it already, and flush then forgets the request while that one goes on.    *)
(* The program does not destroy an owner below a wait on it.                 *)
Call(o, call) ==
  LET stops  == call # "wait"
      waits  == call \in {"stop", "flush", "wait", "destroy"} /\ ~active[o]
  IN  /\ Free /\ exists[o]
      /\ call = "destroy" => ~active[o]
      /\ IF stops THEN StopEach(o) ELSE UNCHANGED vars
      /\ ownerStop' = [ownerStop EXCEPT ![o] =
                         IF call = "flushNoWait" \/ (call = "flush" /\ ~waits) THEN FALSE
                         ELSE stops \/ @]
      /\ active' = [active EXCEPT ![o] = waits \/ @]
      /\ frame' = IF waits
                  THEN [frame EXCEPT ![CurrentTask] =
                          [call |-> call, on |-> o, prev |-> 0, count |-> 0]]
                  ELSE frame
      /\ UNCHANGED <<ownerOf, tasksOf, waiting, exists, crashed>>

(* The running code is in the wait of its frame.                             *)
Waits == UserCode /\ frame[CurrentTask] # NoFrame

(* Owner::wait, inner loop: the next task gets the processor if it is queued *)
(* and is not the waiting task itself.                                       *)
WaitNext ==
  LET o == frame[CurrentTask].on
      t == Head(tasksOf[o])
  IN  /\ Waits /\ tasksOf[o] # <<>>
      /\ tasksOf' = [tasksOf EXCEPT ![o] = Tail(@)]
      /\ waiting' = [waiting EXCEPT ![o] = Append(@, t)]
      /\ frame' = [frame EXCEPT ![CurrentTask].count = @ + 1]
      /\ IF state[t] \in Queued THEN SwitchTo(t) ELSE UNCHANGED vars
      /\ UNCHANGED <<ownerOf, active, ownerStop, exists, crashed>>

(* slip: the loop goes on until there are no tasks.                          *)
BadSettled(fr) == fr.count = 0
(* Two rounds in a row have met the same number of tasks.                    *)
Settled(fr) == fr.prev = fr.count

(* End of a round: what was met is the list again.                           *)
WaitAgain ==
  LET fr == frame[CurrentTask]
  IN  /\ Waits /\ tasksOf[fr.on] = <<>> /\ ~ Settled(fr)
      /\ tasksOf' = [tasksOf EXCEPT ![fr.on] = waiting[fr.on]]
      /\ waiting' = [waiting EXCEPT ![fr.on] = <<>>]
      /\ frame' = [frame EXCEPT ![CurrentTask] = [fr EXCEPT !.prev = fr.count, !.count = 0]]
      /\ UNCHANGED <<vars, ownerOf, active, ownerStop, exists, crashed>>

(* End of the wait.  flush forgets the request; ~Owner lets go of the tasks  *)
(* that are left.                                                            *)
WaitEnds ==
  LET fr == frame[CurrentTask]
      o  == fr.on
      left == IF fr.call = "destroy" THEN {} ELSE Range(waiting[o])
  IN  /\ Waits /\ tasksOf[o] = <<>> /\ Settled(fr)
      /\ tasksOf' = [tasksOf EXCEPT ![o] = IF fr.call = "destroy" THEN <<>> ELSE waiting[o]]
      /\ waiting' = [waiting EXCEPT ![o] = <<>>]
      /\ ownerOf' = [t \in Tasks |-> IF ownerOf[t] = o /\ t \notin left
                                     THEN NoOwner ELSE ownerOf[t]]
      /\ active' = [active EXCEPT ![o] = FALSE]
      /\ ownerStop' = [ownerStop EXCEPT ![o] = @ /\ fr.call # "flush"]
      /\ exists' = [exists EXCEPT ![o] = fr.call # "destroy"]
      /\ frame' = [frame EXCEPT ![CurrentTask] = NoFrame]
      /\ UNCHANGED <<vars, crashed>>

-----------------------------------------------------------------------------
OwnerInit ==
  /\ Init
  /\ ownerOf = [t \in Tasks |-> NoOwner]
  /\ tasksOf = [o \in Owners |-> <<>>] /\ waiting = [o \in Owners |-> <<>>]
  /\ active = [o \in Owners |-> FALSE]
  /\ ownerStop = [o \in Owners |-> FALSE]
  /\ exists = [o \in Owners |-> TRUE]
  /\ frame = [c \in Tasks \union {NoTask} |-> NoFrame]
  /\ crashed = FALSE /\ program \in Programs

OwnerNext ==
  /\ \/ Elsewhere
     \/ \E t \in Tasks, o \in Owners \union {NoOwner} : Spawn(t, o)
     \/ \E t \in program.reowns, o \in Owners \union {NoOwner} : OwnTo(t, o)
     \/ Complete
     \/ \E o \in Owners, call \in program.calls : Call(o, call)
     \/ WaitNext \/ WaitAgain \/ WaitEnds
  /\ UNCHANGED program

(* As in Scheduler, with the calls of Owner::wait in between: a task gives   *)
(* the processor away, or returns, after finitely many calls, and a wait     *)
(* goes on when its context has the processor.                               *)
Leaves(t) == CurrentTask = t /\ \/ Free /\ (Yield \/ Hold) /\ UNCHANGED ownerVars
                                \/ Complete
OwnerFairness ==
  /\ WF_allVars(Free /\ ExecuteReadyFibers /\ UNCHANGED <<ownerVars, program>>)
  /\ WF_allVars((ExecuteNext \/ RootReturns) /\ UNCHANGED <<ownerVars, program>>)
  /\ \A t \in Tasks : SF_allVars(Leaves(t) /\ UNCHANGED program)
  /\ WF_allVars((WaitNext \/ WaitAgain \/ WaitEnds) /\ UNCHANGED program)

OwnerSpec     == OwnerInit /\ [][OwnerNext]_allVars
FairOwnerSpec == OwnerSpec /\ OwnerFairness

-----------------------------------------------------------------------------
(* Owner::wait never counts more tasks in a round than there are.            *)
OwnerTypeOK ==
  /\ ownerOf \in [Tasks -> Owners \union {NoOwner}]
  /\ \A o \in Owners : tasksOf[o] \in Seq(Tasks) /\ waiting[o] \in Seq(Tasks)
  /\ active \in [Owners -> BOOLEAN] /\ ownerStop \in [Owners -> BOOLEAN]
  /\ exists \in [Owners -> BOOLEAN] /\ crashed \in BOOLEAN
  /\ \A c \in Tasks \union {NoTask} :
       frame[c] # NoFrame => /\ frame[c].on \in Owners
                             /\ frame[c].prev \in 0..Cardinality(Tasks)
                             /\ frame[c].count \in 0..Cardinality(Tasks)

(* An owner lists exactly its tasks, each once, in _tasks or, only while a   *)
(* wait is in progress, in _waiting; a destroyed owner lists none: the       *)
(* asserts of subscribe, unsubscribe and ~Owner.                             *)
OwnersAgree ==
  \A o \in Owners :
    /\ IsInjective(tasksOf[o] \o waiting[o])
    /\ Owned(o) = {t \in Tasks : ownerOf[t] = o}
    /\ waiting[o] # <<>> => active[o]
    /\ active[o] <=> Cardinality({c \in Tasks \union {NoTask} : frame[c].on = o}) = 1
    /\ Owned(o) # {} \/ active[o] => exists[o]

(* The program does not wait for an owner without stopping it (a stop in the *)
(* middle of such a wait passes over _waiting), and takes no stop back, by   *)
(* flush or ownTo.                                                           *)
OnlyStops == program.calls \subseteq {"stop", "stopNoWait", "destroy"} /\ program.reowns = {}

(* Whoever belongs to a stopping owner has been told, in a program that only *)
(* stops.                                                                    *)
StopReachesAll ==
  OnlyStops =>
    \A t \in Tasks : ownerOf[t] # NoOwner /\ ownerStop[ownerOf[t]] => stopRequested[t]

(* Task t can still execute code of its body.                                *)
CanRun(t) == state[t] \in Queued \union {"hold"} \/ (state[t] = "null" /\ ~stopRequested[t])

(* When stop, flush or ~Owner has waited, none of the owner's tasks executes *)
(* its body any more, except the caller and tasks that are in an Owner::wait *)
(* themselves, in a program that only stops.                                 *)
StopWaits ==
  [][\A c \in Tasks \union {NoTask} :
       OnlyStops /\ frame[c] # NoFrame /\ frame'[c] = NoFrame /\ frame[c].call # "wait"
         => \A t \in Range(waiting[frame[c].on]) :
              t # c /\ frame[t] = NoFrame => ~ CanRun(t)]_allVars

(* Every Owner::wait returns, although the waiting context gives the         *)
(* processor away to tasks that may be waiting for it in turn.  Tasks that   *)
(* go from owner to owner for ever could keep one going.                     *)
WaitReturns ==
  \A c \in Tasks \union {NoTask} :
    program.reowns = {} /\ frame[c] # NoFrame ~> frame[c] = NoFrame
==============================================================================
