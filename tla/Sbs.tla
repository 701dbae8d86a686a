--------------------------------- MODULE Sbs ---------------------------------
(***************************************************************************)
(* Box, Subscription and Owner of core/sbs: one box with its doubly linked *)
(* list of subscriptions, the enumerators of the activations in progress,  *)
(* and owners that disconnect what they own.                               *)
(*                                                                         *)
(* A handler may do anything: connect, disconnect itself or others,        *)
(* activate the box again, destroy it, throw; and it may suspend its task, *)
(* so that another task does so.  Hence activations and removal loops are  *)
(* interleaved freely; a step runs from one call of user code (a handler   *)
(* or the destructor of one) to the next.                                  *)
(*                                                                         *)
(* An operator named Bad<Definition> is that definition with a slip a      *)
(* maintainer could make; nothing uses it but the mutation checks.         *)
(***************************************************************************)
EXTENDS Naturals, Sequences, SequencesExt, FiniteSets

CONSTANTS
  Subs,    (* the subscriptions that can be created                          *)
  Acts,    (* the activations that can be in progress at a time              *)
  Owners,  (* the sbs::Owner objects                                         *)
  Null     (* null pointer                                                   *)

ASSUME SbsAssumption == /\ Null \notin Subs \union Owners
                        /\ Owners \cap {"all", "destroy"} = {}

VARIABLES
  first, last,          (* Box::_first, _last                                *)
  nextInBox, prevInBox, (* Subscription::_nextInBox, _prevInBox              *)
  inBox,                (* Subscription::_box is not null                    *)
  owned,                (* the list that starts at Owner::_first             *)
  closing,              (* Subscription::_deletionRequested                  *)
  life,                 (* of a subscription: unborn, live or deleted        *)
  act,                  (* the frames of Box::activate                       *)
  loops,                (* the removal loops that have begun                 *)
  usable                (* the program still uses the box                    *)

vars == <<first, last, nextInBox, prevInBox, inBox, owned, closing, life, act, loops, usable>>
box  == <<first, last, nextInBox, prevInBox, inBox, owned>>

(* An activation: inside a handler or in its own loop; the handler; the      *)
(* Enumerator and whether the box lists it; the call for act4Last; the flag  *)
(* Box::del.                                                                 *)
NoAct == [at |-> "none", cur |-> Null, next |-> Null, last |-> Null,
          listed |-> FALSE, final |-> FALSE, del |-> FALSE]

(* Subscription::_activationDepth counts these.                              *)
Running(s) == {a \in Acts : act[a].at = "in" /\ act[a].cur = s}

-----------------------------------------------------------------------------
(* Box::push, after the subscription has joined its owner.                   *)
Connect(s, o) ==
  /\ usable
  /\ life[s] = "unborn"
  /\ life' = [life EXCEPT ![s] = "live"]
  /\ owned' = IF o \in Owners THEN [owned EXCEPT ![o] = Append(@, s)] ELSE owned
  /\ inBox' = [inBox EXCEPT ![s] = TRUE]
  /\ first' = IF first = Null THEN s ELSE first
  /\ last' = s
  /\ nextInBox' = [x \in Subs |-> IF x = last THEN s ELSE nextInBox[x]]
  /\ prevInBox' = [prevInBox EXCEPT ![s] = last]
  /\ UNCHANGED <<closing, act, loops, usable>>

(* slip: the enumerators are told after the list has been mended, so that    *)
(* the removed subscription has no next any more.                            *)
BadMoved(e, s) ==
  IF ~e.listed THEN e
  ELSE IF s = e.next THEN [e EXCEPT !.next = Null, !.last = IF s = e.last THEN Null ELSE @]
  ELSE IF s = e.last THEN [e EXCEPT !.last = prevInBox[s]]
  ELSE e

(* Box::remove, first half: an enumerator steps over the subscription.       *)
Moved(e, s) ==
  IF ~e.listed THEN e
  ELSE IF s = e.next
       THEN IF e.next = e.last THEN [e EXCEPT !.next = Null, !.last = Null]
            ELSE [e EXCEPT !.next = nextInBox[s]]
  ELSE IF s = e.last THEN [e EXCEPT !.last = prevInBox[s]]
  ELSE e

(* Subscription::removeSelf: Owner::remove, then Box::remove, second half.   *)
RemoveSelf(s) ==
  /\ owned' = [o \in Owners |-> RemoveFirst(owned[o], s)]
  /\ first' = IF s = first THEN nextInBox[s] ELSE first
  /\ last' = IF s = last THEN prevInBox[s] ELSE last
  /\ nextInBox' = [x \in Subs |-> IF x = s THEN Null
                                  ELSE IF x = prevInBox[s] THEN nextInBox[s]
                                  ELSE nextInBox[x]]
  /\ prevInBox' = [x \in Subs |-> IF x = s THEN Null
                                  ELSE IF x = nextInBox[s] THEN prevInBox[s]
                                  ELSE prevInBox[x]]
  /\ inBox' = [inBox EXCEPT ![s] = FALSE]

(* The end of Subscription::activate: the subscription is deleted if that is *)
(* wanted and no other activation is in it.  (The slip: the other ones are   *)
(* not counted.)                                                             *)
BadReleased(s, others) == IF s \in closing THEN [life EXCEPT ![s] = "deleted"] ELSE life
Released(s, others) == IF s \in closing /\ others = {}
                       THEN [life EXCEPT ![s] = "deleted"] ELSE life

(* Box::removeAndDelete.                                                     *)
RemoveAndDelete(s) ==
  /\ RemoveSelf(s)
  /\ act' = [a \in Acts |-> Moved(act[a], s)]
  /\ closing' = closing \union {s}
  /\ life' = IF Running(s) = {} THEN [life EXCEPT ![s] = "deleted"] ELSE life

Disconnect(s) ==
  /\ usable /\ inBox[s]
  /\ RemoveAndDelete(s)
  /\ UNCHANGED <<loops, usable>>

-----------------------------------------------------------------------------
(* Box::activate calls the handler of s in activation a, whose frame is e.   *)
Call(a, s, e) ==
  IF e.del
  THEN /\ RemoveSelf(s)
       /\ act' = [b \in Acts |-> IF b = a THEN [Moved(e, s) EXCEPT !.at = "in", !.cur = s]
                                 ELSE Moved(act[b], s)]
       /\ closing' = closing \union {s}
       /\ UNCHANGED <<life, loops, usable>>
  ELSE /\ act' = [act EXCEPT ![a] =
                    [e EXCEPT !.at = "in", !.cur = s,
                              !.next = IF e.listed THEN nextInBox[s] ELSE Null]]
       /\ UNCHANGED <<box, closing, life, loops, usable>>

(* A single subscription is called without an enumerator.                    *)
Activate(a, del) ==
  /\ usable
  /\ act[a] = NoAct /\ first # Null
  /\ Call(a, first,
          IF first = last THEN [NoAct EXCEPT !.final = TRUE, !.del = del]
          ELSE [NoAct EXCEPT !.next = first, !.last = last, !.listed = TRUE, !.del = del])

ActivateNext(a) ==
  /\ act[a].at = "loop" /\ act[a].next # act[a].last
  /\ Call(a, act[a].next, act[a])

(* The enumerator is unlisted before the last handler is called.             *)
ActivateLast(a) ==
  /\ act[a].at = "loop" /\ act[a].next = act[a].last /\ act[a].next # Null
  /\ Call(a, act[a].next,
          [act[a] EXCEPT !.next = Null, !.last = Null, !.listed = FALSE, !.final = TRUE])

ActivateEnds(a) ==
  /\ act[a].at = "loop" /\ act[a].next = act[a].last /\ act[a].next = Null
  /\ act' = [act EXCEPT ![a] = NoAct]
  /\ UNCHANGED <<box, closing, life, loops, usable>>

(* The handler returns to Subscription::activate; an exception leaves        *)
(* Box::activate too.                                                        *)
Return(a, throws) ==
  LET s == act[a].cur
  IN  /\ act[a].at = "in"
      /\ act' = [act EXCEPT ![a] = IF throws \/ @.final THEN NoAct
                                   ELSE [@ EXCEPT !.at = "loop", !.cur = Null]]
      /\ life' = Released(s, Running(s) \ {a})
      /\ UNCHANGED <<box, closing, loops, usable>>

-----------------------------------------------------------------------------
(* The loops: Box::removeAndDeleteAll, ~Box and Owner::flush.  The program   *)
(* destroys the box once, and not below its removeAndDeleteAll.              *)
LoopBegins(l) ==
  /\ l \in {"all", "destroy"} => usable
  /\ l = "destroy" => "all" \notin loops
  /\ loops' = loops \union {l}
  /\ usable' = (usable /\ l # "destroy")
  /\ UNCHANGED <<box, closing, life, act>>

LoopFirst(l) == IF l \in Owners THEN (IF owned[l] = <<>> THEN Null ELSE Head(owned[l]))
                ELSE first

LoopStep(l) ==
  /\ l \in loops
  /\ LoopFirst(l) # Null
  /\ RemoveAndDelete(LoopFirst(l))
  /\ UNCHANGED <<loops, usable>>

(* ~Box also cuts off the enumerators that are still listed.                 *)
CutOff(e) == IF e.listed THEN [e EXCEPT !.listed = FALSE, !.next = Null, !.last = Null] ELSE e

LoopEnds(l) ==
  /\ l \in loops
  /\ LoopFirst(l) = Null
  /\ loops' = loops \ {l}
  /\ act' = IF l = "destroy" THEN [a \in Acts |-> CutOff(act[a])] ELSE act
  /\ UNCHANGED <<box, closing, life, usable>>

-----------------------------------------------------------------------------
Init ==
  /\ first = Null /\ last = Null
  /\ nextInBox = [s \in Subs |-> Null] /\ prevInBox = [s \in Subs |-> Null]
  /\ inBox = [s \in Subs |-> FALSE]
  /\ owned = [o \in Owners |-> <<>>]
  /\ closing = {}
  /\ life = [s \in Subs |-> "unborn"]
  /\ act = [a \in Acts |-> NoAct]
  /\ loops = {}
  /\ usable = TRUE

Loops == {"all", "destroy"} \union Owners

Next ==
  \/ \E s \in Subs, o \in Owners \union {Null} : Connect(s, o)
  \/ \E s \in Subs : Disconnect(s)
  \/ \E a \in Acts, b \in BOOLEAN : Activate(a, b) \/ Return(a, b)
  \/ \E a \in Acts : ActivateNext(a) \/ ActivateLast(a) \/ ActivateEnds(a)
  \/ \E l \in Loops : LoopBegins(l) \/ LoopStep(l) \/ LoopEnds(l)

Spec == Init /\ [][Next]_vars

-----------------------------------------------------------------------------
(* Pointers lead to subscriptions, and the last call of an activation is     *)
(* made with its enumerator unlisted.                                        *)
TypeOK ==
  /\ {first, last} \subseteq Subs \union {Null}
  /\ nextInBox \in [Subs -> Subs \union {Null}] /\ prevInBox \in [Subs -> Subs \union {Null}]
  /\ inBox \in [Subs -> BOOLEAN]
  /\ \A o \in Owners : owned[o] \in Seq(Subs)
  /\ closing \subseteq Subs
  /\ life \in [Subs -> {"unborn", "live", "deleted"}]
  /\ \A a \in Acts : /\ {act[a].cur, act[a].next, act[a].last} \subseteq Subs \union {Null}
                     /\ act[a].final => ~act[a].listed
  /\ loops \subseteq Loops /\ usable \in BOOLEAN

(* A subscription is deleted in time and not before: no activation, list or  *)
(* owner refers to one that was deleted, whatever handlers do to the box     *)
(* they are called from; one that left the box is deleted, now or by an      *)
(* activation that is still in it; one that an owner has is in the box.      *)
Dangling(s) ==
  \/ s \in {first, last} \/ inBox[s]
  \/ \E x \in Subs : s \in {nextInBox[x], prevInBox[x]}
  \/ \E o \in Owners : s \in Range(owned[o])
  \/ \E a \in Acts : s \in {act[a].cur, act[a].next, act[a].last}
DeletedInTime ==
  /\ \A s \in Subs : life[s] = "deleted" => ~Dangling(s)
  /\ \A s \in Subs : life[s] = "live" => inBox[s] \/ (s \in closing /\ Running(s) # {})
  /\ \A o \in Owners : \A s \in Range(owned[o]) : inBox[s]

-----------------------------------------------------------------------------
(* Refinement of Signal.                                                     *)

(* The pointers make c the list of the box.                                  *)
Linked(c) ==
  /\ IsInjective(c) /\ Range(c) = {s \in Subs : inBox[s]}
  /\ first = (IF c = <<>> THEN Null ELSE c[1]) /\ last = (IF c = <<>> THEN Null ELSE c[Len(c)])
  /\ \A i \in DOMAIN c : /\ nextInBox[c[i]] = (IF i = Len(c) THEN Null ELSE c[i + 1])
                         /\ prevInBox[c[i]] = (IF i = 1 THEN Null ELSE c[i - 1])

List == CHOOSE c \in [1 .. Cardinality({s \in Subs : inBox[s]}) -> Subs] : Linked(c)

(* What an enumerator has left: the list from its next to its last.          *)
Left(e) ==
  IF e.next = Null THEN <<>>
  ELSE SubSeq(List, CHOOSE i \in DOMAIN List : List[i] = e.next,
                    CHOOSE i \in DOMAIN List : List[i] = e.last)

Place(e) ==
  CASE e.at = "none" -> "none" [] e.at = "in" -> "in" [] e.at = "loop" -> "between"

Abstract == INSTANCE Signal WITH
  conn   <- List,
  call   <- [a \in Acts |-> [at |-> Place(act[a]), cur |-> act[a].cur,
                             todo |-> Left(act[a]),
                             final |-> act[a].final]],
  status <- [s \in Subs |-> CASE life[s] = "unborn"  -> "unborn"
                              [] life[s] = "deleted" -> "destroyed"
                              [] life[s] = "live" /\ s \in closing -> "closing"
                              [] OTHER -> "connected"]

(* Activations and disconnections through the linked list and its            *)
(* enumerators do what Signal promises.                                      *)
ImplementsSignal == Abstract!Spec
==============================================================================
