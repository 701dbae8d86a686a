------------------------------- MODULE Demand -------------------------------
(***************************************************************************)
(* The registry of demand for peers (module/ppn-connectivity-demand):      *)
(* parts of the node say which peers they need and how much, and a ticker  *)
(* draws a peer at random, by weight, and offers it to be satisfied.       *)
(* Whoever takes the offer holds a satisfaction until he is done with it,  *)
(* may report a failure (the peer is banned for five minutes), and as long *)
(* as a peer is satisfied or banned it is not drawn.                       *)
(*                                                                         *)
(* Priorities are recomputed late, by a timer that changes start, so the   *)
(* draw works with what the last flush has left, and may offer a peer      *)
(* again that has just been satisfied.                                     *)
(*                                                                         *)
(* An operator named Bad<Definition> is that definition with a slip a      *)
(* maintainer could make; nothing uses it but the mutation checks.         *)
(***************************************************************************)
EXTENDS Integers, FiniteSetsExt

CONSTANTS
  Ids,      (* the peers                                                     *)
  Needers,  (* those who need: the NeedHolder objects                        *)
  Weights,  (* the weights they ask for                                      *)
  MaxSats,  (* bound: satisfactions of one peer held at a time               *)
  MaxBans,  (* bound: bans of one peer at a time                             *)
  NoNeed, Nobody

ASSUME DemandAssumption ==
  /\ Weights \subseteq Nat /\ MaxSats \in Nat \ {0} /\ MaxBans \in Nat
  /\ Nobody \notin Ids

VARIABLES
  elements,  (* the peers that have an Element: _byId, _byProbability        *)
  need,      (* _needs of all elements, by holder                            *)
  sat,       (* _satisfies: how many satisfactions of a peer are held        *)
  bans,      (* _bans: how many of its bans have not been lifted             *)
  ban,       (* _ban, the elements to look at for bans that are over         *)
  changed,   (* _changed, the elements whose priority is to be recomputed    *)
  priority,  (* Element::_priority                                           *)
  flush,     (* is _flushChangesTicker started?                              *)
  ticking,   (* is _makeSatisfiesTicker started?                             *)
  life       (* the node: "setup", "started" or "stopped"                    *)

dvars == <<elements, need, sat, bans, ban, changed, priority, flush, ticking, life>>

RegistryTypeOK ==
  /\ elements \subseteq Ids /\ ban \subseteq elements /\ changed \subseteq elements
  /\ need \in [Needers -> [id : elements, weight : Weights] \cup {NoNeed}]
  /\ sat \in [Ids -> 0..MaxSats] /\ bans \in [Ids -> 0..MaxBans]
  /\ flush \in BOOLEAN /\ ticking \in BOOLEAN
  /\ life \in {"setup", "started", "stopped"}

DemandTypeOK == RegistryTypeOK /\ priority \in [Ids -> Nat]

DemandInit ==
  /\ elements = {}
  /\ need = [h \in Needers |-> NoNeed]
  /\ sat = [i \in Ids |-> 0] /\ bans = [i \in Ids |-> 0]
  /\ ban = {} /\ changed = {}
  /\ priority = [i \in Ids |-> 0]
  /\ flush = FALSE /\ ticking = FALSE
  /\ life = "setup"

-----------------------------------------------------------------------------
(* updatePriority: what an element's priority would be now.                  *)
NeedOf(i) == {h \in Needers : need[h] # NoNeed /\ need[h].id = i}
UpdatePriority(i) ==
  IF sat[i] > 0 \/ bans[i] > 0 THEN 0
  ELSE SumFunction([h \in NeedOf(i) |-> need[h].weight])

(* sample: the elements whose intervals the random position can fall into;   *)
(* nobody if all are empty.  (The exact ends of intervals, which one random  *)
(* number in 2^53 hits, are left out.)                                       *)
Sample ==
  LET drawn == {i \in elements : priority[i] > 0}
  IN  IF drawn = {} THEN {Nobody} ELSE drawn

(* slip: the timer is started only for the first change.                     *)
BadChanged(es) ==
  /\ changed' = changed \cup es
  /\ flush' = (flush \/ (changed = {} /\ es # {} /\ ban = {}))
(* Registry::changed for each of a set of elements.                          *)
Changed(es) ==
  /\ changed' = changed \cup es
  /\ flush' = (flush \/ es \ changed # {})

-----------------------------------------------------------------------------
(* Registry::need: the element is made when it is asked for first.           *)
Need(h, i, w) ==
  /\ need[h] = NoNeed
  /\ elements' = elements \cup {i}
  /\ need' = [need EXCEPT ![h] = [id |-> i, weight |-> w]]
  /\ Changed({i})
  /\ UNCHANGED <<sat, bans, ban, priority, ticking, life>>

Reweight(h, w) ==
  /\ need[h] # NoNeed
  /\ need' = [need EXCEPT ![h].weight = w]
  /\ Changed({need[h].id})
  /\ UNCHANGED <<elements, sat, bans, ban, priority, ticking, life>>

(* The holder lets go: involvedChanged of the NeedHolder.                    *)
DropNeed(h) ==
  /\ need[h] # NoNeed
  /\ need' = [need EXCEPT ![h] = NoNeed]
  /\ Changed({need[h].id})
  /\ UNCHANGED <<elements, sat, bans, ban, priority, ticking, life>>

(* SatisfactionHolder::fail: a ban; it starts the flush timer, too.          *)
Fail(i) ==
  /\ sat[i] > 0 /\ bans[i] < MaxBans
  /\ bans' = [bans EXCEPT ![i] = @ + 1]
  /\ ban' = ban \cup {i}
  /\ flush' = (flush \/ i \notin ban)
  /\ UNCHANGED <<elements, need, sat, changed, priority, ticking, life>>

(* Satisfactions are let go until only these are held: involvedChanged of    *)
(* the SatisfactionHolders.                                                  *)
Release(held) == sat' = held /\ Changed({i \in Ids : held[i] # sat[i]})

(* flushChanges, the one-shot timer.                                         *)
FlushChanges ==
  /\ flush /\ flush' = FALSE
  /\ priority' = [i \in Ids |-> IF i \in changed THEN UpdatePriority(i) ELSE priority[i]]
  /\ changed' = {}
  /\ UNCHANGED <<elements, need, sat, bans, ban, ticking, life>>

(* makeSatisfies, the repeated timer: lift the bans that are over, so that   *)
(* these are left, draw and offer.  A peer that has all the satisfactions of *)
(* the bound is offered and let go at once.                                  *)
MakeSatisfies(i, left) ==
  /\ ticking /\ i \in Sample
  /\ \A k \in Ids : left[k] <= bans[k]
  /\ bans' = left /\ ban' = {k \in ban : left[k] > 0}
  /\ sat' = [k \in Ids |-> IF k = i /\ sat[k] < MaxSats THEN sat[k] + 1 ELSE sat[k]]
  /\ Changed({k \in ban : left[k] = 0} \cup ({i} \ {Nobody}))
  /\ UNCHANGED <<elements, need, priority, ticking, life>>

(* Registry::start, from the node's signal.                                  *)
DemandStart ==
  /\ life = "setup"
  /\ life' = "started" /\ ticking' = TRUE
  /\ UNCHANGED <<elements, need, sat, bans, ban, changed, priority, flush>>

-----------------------------------------------------------------------------
(* Priorities follow demand: an element that is not waiting to be recomputed *)
(* has the priority that its needs, satisfactions and bans call for, while   *)
(* the node runs the timer is started that will recompute the others, and    *)
(* an element with bans is among those that makeSatisfies looks at.  A ban   *)
(* counts on the satisfaction of the peer, which keeps it from being drawn   *)
(* until its end is a change.                                                *)
PrioritiesFollow ==
  /\ \A i \in elements \ changed : priority[i] = UpdatePriority(i)
  /\ changed # {} /\ life # "stopped" => flush
  /\ \A i \in Ids : bans[i] > 0 <=> i \in ban

(* There is demand for the peer.                                             *)
Wanted(i) == life = "started" /\ \E h \in NeedOf(i) : need[h].weight > 0
==============================================================================
