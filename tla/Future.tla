-------------------------------- MODULE Future --------------------------------
(***************************************************************************)
(* The shared state of Promise and Future (core/cmt): resolution,          *)
(* cancellation, the two reference counters, and the continuations that    *)
(* then, chain and canceled attach.                                        *)
(*                                                                         *)
(* Everything happens in nested calls: resolving runs continuations, a     *)
(* continuation that ends drops references, a dropped reference cancels or *)
(* deletes a state, which runs continuations.  The call stack is the       *)
(* variable work: what is still to be done, the innermost call first.  A   *)
(* continuation may do anything that other code may, so user code runs     *)
(* when the stack is empty or a continuation is at its head.               *)
(*                                                                         *)
(* Boxes of continuations are the signals of module Signal: an activation  *)
(* calls those that were there when it began, less those removed since.    *)
(* Continuations run to their end without suspending their task.  A value  *)
(* and an exception resolve alike and are both "value" here.               *)
(*                                                                         *)
(* An operator named Bad<Definition> is that definition with a slip a      *)
(* maintainer could make; nothing uses it but the mutation checks.         *)
(***************************************************************************)
EXTENDS Integers, Sequences, SequencesExt, FiniteSetsExt

CONSTANTS
  States,      (* the State objects                                          *)
  Links,       (* the continuations of then and chain                        *)
  Cancels,     (* the continuations of canceled                              *)
  Src,         (* the state that a continuation is attached to               *)
  Dst,         (* the state that chain resolves; NoState for then            *)
  NoState,
  MaxHandles,  (* bound: Promise objects, and Future objects, of a state     *)
  Tame         (* the program leaves the result of a chain, and what hangs   *)
               (* on it, alone while its continuation runs or dies: it       *)
               (* neither cancels it nor takes its promise elsewhere         *)

Chains == {l \in Links : Dst[l] # NoState}

ASSUME FutureAssumption ==
  /\ NoState \notin States
  /\ States \cap (Links \union Cancels) = {} /\ Links \cap Cancels = {}
  /\ \A l \in Links : Src[l] \in States /\ Dst[l] \in States \union {NoState}
  /\ \A l, n \in Chains : Dst[l] = Dst[n] => l = n
  /\ \A k \in Cancels : Src[k] \in States
  /\ MaxHandles \in Nat \ {0} /\ Tame \in BOOLEAN

VARIABLES
  mode,      (* State::_mode, with unborn and deleted around its life        *)
  futures,   (* State::_futureCounter                                        *)
  promises,  (* State::_promiseCounter                                       *)
  box,       (* State::_sbsBox4Continuations                                 *)
  cancelBox, (* State::_sbsBox4CancelContinuations; a chain stands for the   *)
             (* function by which its result cancels it                      *)
  life,      (* of a continuation: unborn, linked, running or deleted        *)
  out,       (* the chains whose _destinationPromise is charged              *)
  futH,      (* the Future objects that the program has                      *)
  proH,      (* the Promise objects that the program has                     *)
  asked,     (* ghost: the states that have had a future                     *)
  work       (* the call stack                                               *)

vars == <<mode, futures, promises, box, cancelBox, life, out, futH, proH, asked, work>>

Resolved == {"value", "cancel"}

Do(op, on)       == [op |-> op, on |-> on, todo |-> <<>>]
Walk(op, on, td) == [op |-> op, on |-> on, todo |-> td]

Top == Head(work)
Is(op) == work # <<>> /\ Top.op = op

UserCode == work = <<>> \/ Is("call")

(* The continuation x leaves the walks of the given kind that are under way. *)
Without(w, op, x) ==
  [i \in DOMAIN w |-> IF w[i].op = op THEN [w[i] EXCEPT !.todo = RemoveFirst(@, x)] ELSE w[i]]

(* What the program can reach: its own objects, and what a continuation is   *)
(* given.                                                                    *)
HasFuture(s)  == futH[s] > 0 \/ (Is("call") /\ Top.on \in Links /\ Src[Top.on] = s)
HasPromise(s) == proH[s] > 0 \/ (Is("call") /\ Top.on \in out /\ Dst[Top.on] = s)

InUse(op, s) == Quantify(DOMAIN work, LAMBDA i : work[i] = Do(op, s))

(* The calls under way that have the object they belong to, if the program   *)
(* has n of its own: an object is not destroyed below one of its methods.    *)
Carried(op, s, n) ==
  n > 0 \/ \A i \in DOMAIN work : work[i] = Do(op, s) =>
    \E l \in Links : /\ s = (IF op = "ofFuture" THEN Src[l] ELSE Dst[l])
                     /\ \E j \in DOMAIN work : j > i /\ work[j] = Do("call", l)

(* S is made of state d and of results of chains that hang on S: cancelling  *)
(* one of them may cancel d.                                                 *)
HangsOn(S, d) ==
  \A s \in S : s = d \/ \E l \in Chains : life[l] = "linked" /\ Dst[l] = s /\ Src[l] \in S

(* The result of a chain whose continuation runs or is being destroyed, and  *)
(* what hangs on it.                                                         *)
Dying(l) == life[l] = "deleted" /\ InUse("decPromise", Dst[l]) > 0
Busy(s)  == \E l \in Chains : /\ life[l] = "running" \/ Dying(l)
                              /\ \E S \in SUBSET States : s \in S /\ HangsOn(S, Dst[l])

-----------------------------------------------------------------------------
(* State::checkCounters, with the counters at f and p and w left to do.      *)
Checked(s, f, p, w) ==
  IF f = 0 /\ p = 0
  THEN (* delete this: what is left in the boxes goes, and walks over them end *)
       /\ mode' = [mode EXCEPT ![s] = "deleted"]
       /\ life' = [x \in DOMAIN life |->
                     IF x \in Range(box[s]) \union (Range(cancelBox[s]) \ Links)
                     THEN "deleted" ELSE life[x]]
       /\ box' = [box EXCEPT ![s] = <<>>]
       /\ cancelBox' = [cancelBox EXCEPT ![s] = <<>>]
       /\ work' = [i \in DOMAIN w |-> IF w[i].on = s THEN [w[i] EXCEPT !.todo = <<>>] ELSE w[i]]
  ELSE LET cancels == (f = 0 \/ p = 0) /\ mode[s] = "unresolved"
       IN  /\ mode' = IF cancels THEN [mode EXCEPT ![s] = "cancel"] ELSE mode
           /\ work' = IF cancels THEN <<Do("execute", s)>> \o w ELSE w
           /\ UNCHANGED <<box, cancelBox, life>>

(* decFutureCounter, continuationRemoved, decPromiseCounter.                 *)
DecFuture ==
  LET s == Top.on
  IN  /\ Is("decFuture")
      /\ futures' = [futures EXCEPT ![s] = @ - 1]
      /\ Checked(s, futures[s] - 1, promises[s], Tail(work))
      /\ UNCHANGED <<promises, out, futH, proH, asked>>

DecPromise ==
  LET s == Top.on
  IN  /\ Is("decPromise")
      /\ promises' = [promises EXCEPT ![s] = @ - 1]
      /\ Checked(s, futures[s], promises[s] - 1, Tail(work))
      /\ UNCHANGED <<futures, out, futH, proH, asked>>

-----------------------------------------------------------------------------
(* State::executeContinuations.  Cancellation holds a counter meanwhile.     *)

(* The cancel continuations that are deleted uncalled.                       *)
Emptied(s) ==
  /\ cancelBox' = [cancelBox EXCEPT ![s] = <<>>]
  /\ life' = [x \in DOMAIN life |-> IF x \in Range(cancelBox[s]) \ Links THEN "deleted" ELSE life[x]]

BadExecute ==   (* slip: the counter is not held                              *)
  LET s == Top.on
  IN  /\ Is("execute")
      /\ \/ /\ mode[s] = "cancel" /\ promises[s] > 0
            /\ work' = <<Walk("cancels", s, cancelBox[s]), Do("activate", s)>> \o Tail(work)
            /\ UNCHANGED <<futures, cancelBox, life>>
         \/ /\ mode[s] = "value" \/ promises[s] = 0
            /\ Emptied(s)
            /\ work' = <<Do("activate", s)>> \o Tail(work)
            /\ UNCHANGED futures
      /\ UNCHANGED <<mode, promises, box, out, futH, proH, asked>>

Execute ==
  LET s == Top.on
  IN  /\ Is("execute")
      /\ \/ /\ mode[s] = "cancel" /\ promises[s] > 0
            /\ promises' = [promises EXCEPT ![s] = @ + 1]
            /\ work' = <<Walk("cancels", s, cancelBox[s]), Do("activate", s),
                         Do("decPromise", s)>> \o Tail(work)
            /\ UNCHANGED <<futures, cancelBox, life>>
         \/ /\ mode[s] = "cancel" /\ promises[s] = 0 /\ futures[s] > 0
            /\ futures' = [futures EXCEPT ![s] = @ + 1]
            /\ Emptied(s)
            /\ work' = <<Do("activate", s), Do("decFuture", s)>> \o Tail(work)
            /\ UNCHANGED promises
         \/ /\ mode[s] = "value"
            /\ Emptied(s)
            /\ work' = <<Do("activate", s)>> \o Tail(work)
            /\ UNCHANGED <<futures, promises>>
      /\ UNCHANGED <<mode, box, out, futH, proH, asked>>

(* _sbsBox4Continuations.activate.  (A cancelled state without futures has   *)
(* an empty box to remove: every continuation in it counts as one.)          *)
Activate ==
  /\ Is("activate")
  /\ work' = <<Walk("links", Top.on, box[Top.on])>> \o Tail(work)
  /\ UNCHANGED <<mode, futures, promises, box, cancelBox, life, out, futH, proH, asked>>

(* The activator of then and chain makes a Future of its own.                *)
CallLink ==
  LET l == Head(Top.todo)
      s == Src[l]
  IN  /\ Is("links") /\ Top.todo # <<>>
      /\ box' = [box EXCEPT ![s] = RemoveFirst(@, l)]
      /\ life' = [life EXCEPT ![l] = "running"]
      /\ futures' = [futures EXCEPT ![s] = @ + 1]
      /\ work' = <<Do("call", l)>> \o Without(work, "links", l)
      /\ UNCHANGED <<mode, promises, cancelBox, out, futH, proH, asked>>

(* slip: the source of a chain is not cancelled with its result.             *)
BadWithdraw(l) == <<Do("decFuture", Src[l])>>

(* What the function that chain gives to canceled does: with a Future of the *)
(* source, delete the continuation, then cancel the source.                  *)
Withdraw(l) == <<Do("delete", l), Do("cancel", Src[l]), Do("decFuture", Src[l])>>

CallCancel ==
  LET x == Head(Top.todo)
      s == Top.on
      w == Without(work, "cancels", x)
  IN  /\ Is("cancels") /\ Top.todo # <<>>
      /\ cancelBox' = [cancelBox EXCEPT ![s] = RemoveFirst(@, x)]
      /\ IF x \in Links
         THEN /\ futures' = [futures EXCEPT ![Src[x]] = @ + 1]
              /\ work' = Withdraw(x) \o w
              /\ UNCHANGED life
         ELSE /\ life' = [life EXCEPT ![x] = "running"]
              /\ work' = <<Do("call", x)>> \o w
              /\ UNCHANGED futures
      /\ UNCHANGED <<mode, promises, box, out, futH, proH, asked>>

WalkEnds ==
  /\ Is("links") \/ Is("cancels")
  /\ Top.todo = <<>>
  /\ work' = Tail(work)
  /\ UNCHANGED <<mode, futures, promises, box, cancelBox, life, out, futH, proH, asked>>

(* A continuation returns.  That of a chain may leave its result as it is,   *)
(* or return a value or throw, which resolves it.  Then the activator's      *)
(* Future goes, and Subscription::activate deletes the continuation.         *)
Return(settles) ==
  LET x == Top.on
      end == IF x \in Links THEN <<Do("decFuture", Src[x]), Do("delete", x)>> ELSE <<>>
  IN  /\ Is("call")
      /\ settles => x \in out /\ mode[Dst[x]] = "unresolved"
      /\ mode' = IF settles THEN [mode EXCEPT ![Dst[x]] = "value"] ELSE mode
      /\ work' = (IF settles THEN <<Do("execute", Dst[x])>> ELSE <<>>) \o end \o Tail(work)
      /\ life' = IF x \in Links THEN life ELSE [life EXCEPT ![x] = "deleted"]
      /\ UNCHANGED <<futures, promises, box, cancelBox, out, futH, proH, asked>>

BadDelete ==   (* slip: continuationRemoved also where the activation ends      *)
  LET l == Top.on
  IN  /\ Is("delete")
      /\ life' = [life EXCEPT ![l] = "deleted"]
      /\ box' = [box EXCEPT ![Src[l]] = RemoveFirst(@, l)]
      /\ out' = out \ {l}
      /\ work' = <<Do("decFuture", Src[l]), Do("decFuture", Src[l])>>
                 \o (IF l \in out THEN <<Do("decPromise", Dst[l])>> ELSE <<>>)
                 \o Without(Tail(work), "links", l)
      /\ UNCHANGED <<mode, futures, promises, cancelBox, futH, proH, asked>>

(* ~Continuation: out of the box, continuationRemoved, then its promise.     *)
Delete ==
  LET l == Top.on
  IN  /\ Is("delete")
      /\ life' = [life EXCEPT ![l] = "deleted"]
      /\ box' = [box EXCEPT ![Src[l]] = RemoveFirst(@, l)]
      /\ out' = out \ {l}
      /\ work' = <<Do("decFuture", Src[l])>>
                 \o (IF l \in out THEN <<Do("decPromise", Dst[l])>> ELSE <<>>)
                 \o Without(Tail(work), "links", l)
      /\ UNCHANGED <<mode, futures, promises, cancelBox, futH, proH, asked>>

-----------------------------------------------------------------------------
(* State::resolveCancel, below w.                                            *)
BadCancelled(s, w) ==   (* slip: it is not asked whether the state is open    *)
  /\ mode' = [mode EXCEPT ![s] = "cancel"]
  /\ work' = <<Do("execute", s)>> \o w

Cancelled(s, w) ==
  IF mode[s] = "unresolved"
  THEN /\ mode' = [mode EXCEPT ![s] = "cancel"]
       /\ work' = <<Do("execute", s)>> \o w
  ELSE mode' = mode /\ work' = w

CancelSource ==
  /\ Is("cancel")
  /\ Cancelled(Top.on, Tail(work))
  /\ UNCHANGED <<futures, promises, box, cancelBox, life, out, futH, proH, asked>>

(* A method of the program's own Promise or Future returns.                  *)
MethodEnds ==
  /\ Is("ofPromise") \/ Is("ofFuture")
  /\ work' = Tail(work)
  /\ UNCHANGED <<mode, futures, promises, box, cancelBox, life, out, futH, proH, asked>>

-----------------------------------------------------------------------------
(* What user code does.                                                      *)

NewPromise(s) ==
  /\ UserCode
  /\ mode[s] = "unborn" /\ ~ \E l \in Chains : Dst[l] = s
  /\ mode' = [mode EXCEPT ![s] = "unresolved"]
  /\ promises' = [promises EXCEPT ![s] = 1]
  /\ proH' = [proH EXCEPT ![s] = 1]
  /\ UNCHANGED <<futures, box, cancelBox, life, out, futH, asked, work>>

CopyPromise(s) ==
  /\ UserCode /\ HasPromise(s) /\ proH[s] < MaxHandles
  /\ ~ (Tame /\ Busy(s))
  /\ promises' = [promises EXCEPT ![s] = @ + 1]
  /\ proH' = [proH EXCEPT ![s] = @ + 1]
  /\ UNCHANGED <<mode, futures, box, cancelBox, life, out, futH, asked, work>>

(* Promise::future, or a copy of a Future.                                   *)
GetFuture(s) ==
  /\ UserCode /\ (HasPromise(s) \/ HasFuture(s))
  /\ futH[s] < MaxHandles
  /\ futures' = [futures EXCEPT ![s] = @ + 1]
  /\ futH' = [futH EXCEPT ![s] = @ + 1]
  /\ asked' = asked \union {s}
  /\ UNCHANGED <<mode, promises, box, cancelBox, life, out, proH, work>>

DropPromise(s) ==
  /\ UserCode /\ proH[s] > 0 /\ Carried("ofPromise", s, proH[s] - 1)
  /\ proH' = [proH EXCEPT ![s] = @ - 1]
  /\ work' = <<Do("decPromise", s)>> \o work
  /\ UNCHANGED <<mode, futures, promises, box, cancelBox, life, out, futH, asked>>

DropFuture(s) ==
  /\ UserCode /\ futH[s] > 0 /\ Carried("ofFuture", s, futH[s] - 1)
  /\ ~ (Tame /\ Busy(s))
  /\ futH' = [futH EXCEPT ![s] = @ - 1]
  /\ work' = <<Do("decFuture", s)>> \o work
  /\ UNCHANGED <<mode, futures, promises, box, cancelBox, life, out, proH, asked>>

(* resolveValue and resolveException abort on a resolved state.              *)
ResolveValue(s) ==
  /\ UserCode /\ HasPromise(s)
  /\ mode[s] = "unresolved"
  /\ mode' = [mode EXCEPT ![s] = "value"]
  /\ work' = <<Do("execute", s), Do("ofPromise", s)>> \o work
  /\ UNCHANGED <<futures, promises, box, cancelBox, life, out, futH, proH, asked>>

ResolveCancel(s) ==
  /\ UserCode
  /\ ~ (Tame /\ Busy(s))
  /\ \/ HasPromise(s) /\ Cancelled(s, <<Do("ofPromise", s)>> \o work)
     \/ HasFuture(s) /\ Cancelled(s, <<Do("ofFuture", s)>> \o work)
  /\ UNCHANGED <<futures, promises, box, cancelBox, life, out, futH, proH, asked>>

(* pushContinuation and pushCancelContinuation, called by m: a continuation  *)
(* of a resolved state runs at once.                                         *)
Pushed(s, m) == (IF mode[s] \in Resolved THEN <<Do("execute", s)>> ELSE <<>>) \o <<Do(m, s)>>

BadThen(l) ==   (* slip: the continuation is not counted                      *)
  LET s == Src[l]
  IN  /\ UserCode /\ HasFuture(s) /\ life[l] = "unborn" /\ l \notin Chains
      /\ life' = [life EXCEPT ![l] = "linked"]
      /\ box' = [box EXCEPT ![s] = Append(@, l)]
      /\ work' = Pushed(s, "ofFuture") \o work
      /\ UNCHANGED <<mode, futures, promises, cancelBox, out, futH, proH, asked>>

Then(l) ==
  LET s == Src[l]
  IN  /\ UserCode /\ HasFuture(s) /\ life[l] = "unborn" /\ l \notin Chains
      /\ life' = [life EXCEPT ![l] = "linked"]
      /\ box' = [box EXCEPT ![s] = Append(@, l)]
      /\ futures' = [futures EXCEPT ![s] = @ + 1]
      /\ work' = Pushed(s, "ofFuture") \o work
      /\ UNCHANGED <<mode, promises, cancelBox, out, futH, proH, asked>>

(* chain makes the promise of its result, whose future it returns: nobody    *)
(* has that one before.                                                      *)
Chain(l) ==
  LET s == Src[l]
      d == Dst[l]
  IN  /\ UserCode /\ HasFuture(s) /\ life[l] = "unborn" /\ l \in Chains
      /\ life' = [life EXCEPT ![l] = "linked"]
      /\ mode' = [mode EXCEPT ![d] = "unresolved"]
      /\ promises' = [promises EXCEPT ![d] = 1]
      /\ cancelBox' = [cancelBox EXCEPT ![d] = <<l>>]
      /\ out' = out \union {l}
      /\ futH' = [futH EXCEPT ![d] = 1]
      /\ asked' = asked \union {d}
      /\ box' = [box EXCEPT ![s] = Append(@, l)]
      /\ futures' = [futures EXCEPT ![d] = 1, ![s] = @ + 1]
      /\ work' = Pushed(s, "ofFuture") \o <<Do("ofFuture", d)>> \o work
      /\ UNCHANGED proH

OnCancel(k) ==
  LET s == Src[k]
  IN  /\ UserCode /\ HasPromise(s) /\ life[k] = "unborn"
      /\ life' = [life EXCEPT ![k] = "linked"]
      /\ cancelBox' = [cancelBox EXCEPT ![s] = Append(@, k)]
      /\ work' = Pushed(s, "ofPromise") \o work
      /\ UNCHANGED <<mode, futures, promises, box, out, futH, proH, asked>>

(* The sbs::Owner of a continuation that is not running removes it.          *)
FlushOwner(l) ==
  /\ UserCode /\ life[l] = "linked"
  /\ ~ (Tame /\ Busy(Src[l]))
  /\ work' = <<Do("delete", l)>> \o work
  /\ UNCHANGED <<mode, futures, promises, box, cancelBox, life, out, futH, proH, asked>>

FlushCancel(k) ==
  /\ UserCode /\ life[k] = "linked"
  /\ life' = [life EXCEPT ![k] = "deleted"]
  /\ cancelBox' = [cancelBox EXCEPT ![Src[k]] = RemoveFirst(@, k)]
  /\ work' = Without(work, "cancels", k)
  /\ UNCHANGED <<mode, futures, promises, box, out, futH, proH, asked>>

-----------------------------------------------------------------------------
Init ==
  /\ mode = [s \in States |-> "unborn"]
  /\ futures = [s \in States |-> 0] /\ promises = [s \in States |-> 0]
  /\ box = [s \in States |-> <<>>] /\ cancelBox = [s \in States |-> <<>>]
  /\ life = [x \in Links \union Cancels |-> "unborn"]
  /\ out = {}
  /\ futH = [s \in States |-> 0] /\ proH = [s \in States |-> 0]
  /\ asked = {}
  /\ work = <<>>

Internal == \/ DecFuture \/ DecPromise \/ Execute \/ Activate \/ CallLink \/ CallCancel
            \/ WalkEnds \/ Delete \/ CancelSource \/ MethodEnds

Next ==
  \/ Internal
  \/ \E b \in BOOLEAN : Return(b)
  \/ \E s \in States : \/ NewPromise(s) \/ CopyPromise(s) \/ GetFuture(s)
                       \/ DropPromise(s) \/ DropFuture(s)
                       \/ ResolveValue(s) \/ ResolveCancel(s)
  \/ \E l \in Links : Then(l) \/ Chain(l) \/ FlushOwner(l)
  \/ \E k \in Cancels : OnCancel(k) \/ FlushCancel(k)

Spec == Init /\ [][Next]_vars

-----------------------------------------------------------------------------
(* The counters, which the code keeps unsigned, never go below zero, and a   *)
(* continuation is in the box of its state at most once.                     *)
TypeOK ==
  /\ mode \in [States -> {"unborn", "unresolved", "deleted"} \union Resolved]
  /\ futures \in [States -> Nat] /\ promises \in [States -> Nat]
  /\ \A s \in States : /\ box[s] \in Seq(Links) /\ IsInjective(box[s])
                       /\ cancelBox[s] \in Seq(Chains \union Cancels)
  /\ life \in [Links \union Cancels -> {"unborn", "linked", "running", "deleted"}]
  /\ out \subseteq Chains /\ asked \subseteq States
  /\ futH \in [States -> 0..MaxHandles] /\ proH \in [States -> 0..MaxHandles]

(* The counters count: the program's objects, the continuations that exist,  *)
(* and what calls under way hold or have still to give back.                 *)
Counted ==
  \A s \in States :
    /\ futures[s] = futH[s] + InUse("decFuture", s)
         + Cardinality({l \in Links : Src[l] = s /\ life[l] \in {"linked", "running"}})
         + Quantify(DOMAIN work, LAMBDA i : /\ work[i].op = "call" /\ work[i].on \in Links
                                            /\ Src[work[i].on] = s)
    /\ promises[s] = proH[s] + InUse("decPromise", s)
         + Cardinality({l \in out : Dst[l] = s})

(* The asserts of continuationRemoved, decFutureCounter, decPromiseCounter   *)
(* and the warnings of executeContinuations: nothing is given back twice, or *)
(* to a state that is gone, and only a resolved state that somebody refers   *)
(* to executes its continuations.                                            *)
AssertsHold ==
  /\ Is("decFuture") => mode[Top.on] # "deleted" /\ futures[Top.on] > 0
  /\ Is("decPromise") => mode[Top.on] # "deleted" /\ promises[Top.on] > 0
  /\ Is("execute") => /\ mode[Top.on] \in Resolved
                      /\ futures[Top.on] > 0 \/ promises[Top.on] > 0

(* No call returns into a state that has been deleted below it, except a     *)
(* walk that its box has cut off; and a continuation is destroyed once, and  *)
(* never while it is being called: Subscription::activate touches it after   *)
(* the call (its assert is of the activation depth) and destroys it then.    *)
NoUseAfterDelete ==
  /\ \A i \in DOMAIN work :
       work[i].on \in States /\ mode[work[i].on] = "deleted"
         => work[i].op \in {"links", "ofPromise", "ofFuture"} /\ work[i].todo = <<>>
  /\ Is("delete") => life[Top.on] # "deleted" /\ Do("call", Top.on) \notin Range(work)

(* A state is resolved once, whoever resolves, cancels or drops it first.    *)
ResolvedOnce ==
  [][\A s \in States : mode[s] \in Resolved => mode'[s] \in {mode[s], "deleted"}]_vars

(* A resolved state has called, or let go of, everybody.                     *)
Delivered ==
  \A s \in States : mode[s] # "unresolved" => box[s] = <<>> /\ cancelBox[s] = <<>>

(* A state is open only while somebody can resolve it and, if it ever had a  *)
(* future, somebody can receive it; it exists only while somebody refers to  *)
(* it.                                                                       *)
Abandoned ==
  \A s \in States :
    /\ mode[s] = "unresolved" => promises[s] > 0 /\ (s \in asked => futures[s] > 0)
    /\ mode[s] \in Resolved => futures[s] > 0 \/ promises[s] > 0

(* A chain is there exactly as long as both its ends are open: cancelling    *)
(* the result withdraws it from the source, which is cancelled in turn if    *)
(* nobody else wants it.                                                     *)
ChainsPending ==
  \A l \in Chains : life[l] = "linked" <=> mode[Dst[l]] = "unresolved" /\ l \in out

(* Between calls all is settled: whatever the calls and the continuations    *)
(* below them have done to each other, resolved states have delivered,       *)
(* abandoned ones are cancelled or gone, and chains follow both their ends.  *)
Settled == work = <<>> => Delivered /\ Abandoned /\ ChainsPending
==============================================================================
