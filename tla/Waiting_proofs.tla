--------------------------- MODULE Waiting_proofs ---------------------------
(***************************************************************************)
(* Proofs about waiters and waitables, for any sets of tasks, waitables,   *)
(* waits and programs.                                                     *)
(***************************************************************************)
EXTENDS Waiting, ListLemmas, FiniteSetTheorems

-----------------------------------------------------------------------------
(* The inductive invariant.                                                  *)

Walks  == {"offer", "withdraw"}
Places == {"mutex", "semaphore"}

OpRecords == [call : Walks \union {"none", "terminated"}, on : Objs \union {NoTask},
              rest : Seq(Tasks), hit : BOOLEAN]

Typed ==
  /\ run \in [Tasks -> {"ready", "work", "hold", "ended"}]
  /\ stop \in [Tasks -> BOOLEAN]
  /\ current \in Tasks \union {NoTask}
  /\ raised \in [Objs -> BOOLEAN]
  /\ counter \in [Objs -> Nat]
  /\ owner \in [Objs -> Tasks \union {NoTask}]
  /\ links \in [Objs -> Seq(Tasks)]
  /\ alive \in [Objs -> BOOLEAN]
  /\ wait \in [Tasks -> Waits \union {NotWaiting}]
  /\ won \in [Tasks -> SUBSET Objs]
  /\ held \in [Tasks -> [Objs -> Nat]]
  /\ op \in OpRecords
  /\ scene \in Scenes

(* An operation that is under way walks over the links of a waitable.        *)
OpTyped ==
  /\ op.call \in Walks => op.on \in Objs
  /\ op.call = "none" => op = Idle
  /\ op.call = "terminated" => op = Terminated

(* A waiter waits while its task is held or has just been woken.             *)
RunAgrees ==
  /\ \A t \in Tasks : run[t] = "work" <=> t = current
  /\ \A t \in Tasks : wait[t] # NotWaiting => run[t] \in {"hold", "ready"}

(* The waiters of o; while ~Waitable walks, those that it has yet to tell.   *)
Dying(o)   == op.call = "offer" /\ op.on = o /\ ~alive[o]
Waiters(o) == {t \in Tasks : alive[o] /\ o \in Range(wait[t].over)}
Linked ==
  op.call # "terminated" =>
    \A o \in Objs :
      /\ IsInjective(links[o])
      /\ Range(links[o]) = IF Dying(o) THEN Range(op.rest) ELSE Waiters(o)

(* A walk meets tasks that wait for its waitable, each once.                 *)
WalkMeetsWaiters ==
  op.call \in Walks =>
    /\ IsInjective(op.rest)
    /\ \A t \in Range(op.rest) : op.on \in Range(wait[t].over)
    /\ ~alive[op.on] => op.call = "offer"

(* Where one is to be woken the walk ends with the first that accepts.       *)
HitEnds == OneWoken => op.rest = <<>>

(* A mutex is a semaphore of one place, except that it stays locked while it *)
(* is offered.                                                               *)
Capacity(o) == IF Kind[o] = "mutex" THEN 1 ELSE Depth
Offered(o)  == op.call = "offer" /\ op.on = o
PlacesKept(o) ==
  /\ IsFiniteSet(Grants(o)) /\ Locked(o) <= counter[o] /\ counter[o] <= Capacity(o)
  /\ Kind[o] = "mutex" /\ Offered(o) /\ ~op.hit => Locked(o) = 0 /\ counter[o] = 1
  /\ Kind[o] = "semaphore" /\ Offered(o) /\ op.rest # <<>> => counter[o] < Depth
AllPlacesKept == \A o \in Objs : alive[o] /\ Kind[o] \in Places => PlacesKept(o)

Control    == Typed /\ OpTyped /\ RunAgrees /\ OnlyStoppedThrow
Walking    == Linked /\ WalkMeetsWaiters /\ HitEnds
WaitingInv == Control /\ Walking /\ AllPlacesKept

-----------------------------------------------------------------------------
(* What the operators of the model do.                                       *)

LEMMA CutFacts ==
  ASSUME NEW S, NEW l \in Seq(S), IsInjective(l), NEW t
  PROVE  Cut(l, t) \in Seq(S) /\ IsInjective(Cut(l, t)) /\ Range(Cut(l, t)) = Range(l) \ {t}
<1> DEFINE k == CHOOSE i \in DOMAIN l : l[i] = t
<1>1. CASE t \in Range(l)
  <2>1. k \in DOMAIN l /\ l[k] = t BY <1>1 DEF Range
  <2>2. Cut(l, t) = RemoveAt(l, k) BY <1>1 DEF Cut
  <2> HIDE DEF k
  <2> QED BY <2>1, <2>2, RemoveAtFacts
<1>2. CASE t \notin Range(l) BY <1>2 DEF Cut
<1> QED BY <1>1, <1>2

LEMMA UnlinkedFacts ==
  ASSUME Typed, \A o \in Objs : IsInjective(links[o]), NEW t
  PROVE  /\ Unlinked(t) \in [Objs -> Seq(Tasks)]
         /\ \A o \in Objs : /\ IsInjective(Unlinked(t)[o])
                            /\ Range(Unlinked(t)[o]) = Range(links[o]) \ {t}
<1>1. \A o \in Objs : links[o] \in Seq(Tasks) BY DEF Typed
<1>2. \A o \in Objs : /\ Cut(links[o], t) \in Seq(Tasks) /\ IsInjective(Cut(links[o], t))
                      /\ Range(Cut(links[o], t)) = Range(links[o]) \ {t}
  BY <1>1, CutFacts
<1> QED BY <1>2 DEF Unlinked

LEMMA IdleFacts ==
  /\ Idle \in OpRecords /\ Idle.call = "none" /\ Idle.rest = <<>> /\ ~Idle.hit
  /\ Terminated \in OpRecords /\ Terminated.call = "terminated" /\ Terminated.rest = <<>>
<1>1. <<>> \in Seq(Tasks) OBVIOUS
<1>2. Idle \in OpRecords /\ Idle.call = "none" /\ Idle.rest = <<>> /\ ~Idle.hit
  BY <1>1 DEF Idle, OpRecords
<1>3. Terminated \in OpRecords /\ Terminated.call = "terminated" /\ Terminated.rest = <<>>
  BY <1>1 DEF Terminated, OpRecords
<1> QED BY <1>2, <1>3

LEMMA OfferingFacts ==
  ASSUME Typed, NEW o \in Objs, NEW call \in Walks
  PROVE  /\ Offering(o, call) \in OpRecords
         /\ Offering(o, call).call = call /\ Offering(o, call).on = o
         /\ Offering(o, call).rest = links[o] /\ ~Offering(o, call).hit
BY DEF Typed, Offering, OpRecords

LEMMA NotWaitingFacts == NotWaiting.over = <<>> /\ Range(NotWaiting.over) = {}
BY DEF NotWaiting, Range

(* The k-th time that t has locked o: Grants for any state of the tasks.     *)
GrantsIn(h, w, o) == UNION {{t} \X {k \in 0..h[t][o] : k = 0 => o \in w[t]} : t \in Tasks}

LEMMA GrantsStates ==
  ASSUME NEW o
  PROVE  Grants(o) = GrantsIn(held, won, o) /\ Grants(o)' = GrantsIn(held', won', o)
BY DEF Grants, GrantsIn

LEMMA GrantsFacts ==
  ASSUME NEW h, NEW w, NEW o
  PROVE  /\ \A t, k : <<t, k>> \in GrantsIn(h, w, o)
                        <=> t \in Tasks /\ k \in 0..h[t][o] /\ (k = 0 => o \in w[t])
         /\ \A g \in GrantsIn(h, w, o) : \E t, k : g = <<t, k>>
<1> DEFINE Times(t) == {k \in 0..h[t][o] : k = 0 => o \in w[t]}
           G == GrantsIn(h, w, o)
<1>1. G = UNION {{t} \X Times(t) : t \in Tasks} BY DEF GrantsIn
<1>2. \A t, k : k \in Times(t) <=> k \in 0..h[t][o] /\ (k = 0 => o \in w[t]) OBVIOUS
<1> HIDE DEF Times, G
<1>3. \A g : g \in G <=> \E t \in Tasks : g \in {t} \X Times(t) BY <1>1, Zenon
<1>4. \A t, u, k : <<u, k>> \in {t} \X Times(t) <=> u = t /\ k \in Times(t) OBVIOUS
<1>5. \A t : \A g \in {t} \X Times(t) : \E u, k : g = <<u, k>> OBVIOUS
<1>6. ASSUME NEW t, NEW k PROVE <<t, k>> \in G <=> t \in Tasks /\ k \in Times(t)
  <2>1. <<t, k>> \in G <=> \E s \in Tasks : <<t, k>> \in {s} \X Times(s) BY <1>3, Zenon
  <2>2. \A s : <<t, k>> \in {s} \X Times(s) <=> t = s /\ k \in Times(s) BY <1>4
  <2> QED BY <2>1, <2>2, Zenon
<1>7. ASSUME NEW g \in G PROVE \E t, k : g = <<t, k>>
  <2>1. PICK t \in Tasks : g \in {t} \X Times(t) BY <1>3
  <2> QED BY <1>5, <2>1
<1> QED BY <1>2, <1>6, <1>7 DEF G

(* To bound the new grants it is enough to bound them pair by pair.          *)
LEMMA GrantsWithin ==
  ASSUME NEW h, NEW w, NEW o, NEW S,
         ASSUME NEW t \in Tasks, NEW k \in 0..h[t][o], k = 0 => o \in w[t]
         PROVE  <<t, k>> \in S
  PROVE  GrantsIn(h, w, o) \subseteq S
<1> SUFFICES ASSUME NEW g \in GrantsIn(h, w, o) PROVE g \in S OBVIOUS
<1>1. PICK t, k : g = <<t, k>> BY GrantsFacts
<1>2. t \in Tasks /\ k \in 0..h[t][o] /\ (k = 0 => o \in w[t]) BY <1>1, GrantsFacts
<1> QED BY <1>1, <1>2

LEMMA SetGrows ==
  ASSUME NEW A, IsFiniteSet(A), NEW x, NEW B, B \subseteq A \union {x}
  PROVE  IsFiniteSet(B) /\ Cardinality(B) \in Nat /\ Cardinality(A) \in Nat
         /\ Cardinality(B) <= Cardinality(A) + 1
<1>1. Cardinality(A) \in Nat BY FS_CardinalityType
<1>2. IsFiniteSet(A \union {x}) /\ Cardinality(A \union {x}) <= Cardinality(A) + 1
  <2>1. /\ IsFiniteSet(A \union {x})
        /\ Cardinality(A \union {x}) = IF x \in A THEN Cardinality(A) ELSE Cardinality(A) + 1
    BY FS_AddElement, Zenon
  <2> QED BY <1>1, <2>1
<1>3. IsFiniteSet(B) /\ Cardinality(B) <= Cardinality(A \union {x})
  BY <1>2, FS_Subset
<1>4. Cardinality(B) \in Nat /\ Cardinality(A \union {x}) \in Nat
  BY <1>2, <1>3, FS_CardinalityType
<1> QED BY <1>1, <1>2, <1>3, <1>4

LEMMA SetShrinks ==
  ASSUME NEW A, IsFiniteSet(A), NEW B, B \subseteq A
  PROVE  IsFiniteSet(B) /\ Cardinality(B) \in Nat /\ Cardinality(A) \in Nat
         /\ Cardinality(B) <= Cardinality(A)
BY FS_Subset, FS_CardinalityType

(* commit takes only what is alive and counts as available.                  *)
LEMMA ChosenFacts ==
  ASSUME NEW w \in Waits, NEW lit, lit \subseteq DOMAIN w.over, Satisfied(w, lit),
         NEW o \in Chosen(w, lit)
  PROVE  o \in Objs /\ alive[o] /\ \E i \in lit : w.over[i] = o
<1>1. w.mode \in {"all", "any", "expr"} /\ w.over \in Seq(Objs) BY WaitingAssumption
<1>2. o \in Objs /\ alive[o] BY DEF Chosen
<1>3. PICK i \in (IF w.mode = "any" THEN {Min(lit)} ELSE lit) : w.over[i] = o BY DEF Chosen
<1>4. i \in lit
  <2>1. CASE w.mode = "any"
    <3>1. lit # {} BY <2>1 DEF Satisfied
    <3>2. lit \in SUBSET Nat BY <1>1
    <3> QED BY <1>3, <2>1, <3>1, <3>2, MinFacts
  <2>2. CASE w.mode # "any" BY <1>3, <2>2
  <2> QED BY <2>1, <2>2
<1> QED BY <1>2, <1>3, <1>4

(* A task that waits no more is no waiter of anything.                       *)
LEMMA WaiterGone ==
  ASSUME Typed, NEW t \in Tasks, wait' = [wait EXCEPT ![t] = NotWaiting], UNCHANGED alive, NEW o
  PROVE  Waiters(o)' = Waiters(o) \ {t}
<1>1. wait'[t] = NotWaiting /\ \A u \in Tasks : u # t => wait'[u] = wait[u] BY DEF Typed
<1>2. \A u : u \in Waiters(o)' <=> u \in Tasks /\ alive[o] /\ o \in Range(wait'[u].over)
  BY DEF Waiters
<1>3. \A u : u \in Waiters(o) <=> u \in Tasks /\ alive[o] /\ o \in Range(wait[u].over)
  BY DEF Waiters
<1> HIDE DEF Waiters
<1>4. t \notin Waiters(o)' BY <1>1, <1>2, NotWaitingFacts
<1>5. \A u : u # t => (u \in Waiters(o)' <=> u \in Waiters(o)) BY <1>1, <1>2, <1>3
<1> QED BY <1>4, <1>5

-----------------------------------------------------------------------------
(* Between operations.                                                       *)

LEMMA IdleState ==
  ASSUME WaitingInv, op = Idle
  PROVE  /\ op.call = "none" /\ op.rest = <<>>
         /\ \A o \in Objs : IsInjective(links[o]) /\ Range(links[o]) = Waiters(o)
         /\ \A o : ~Offered(o)
<1>1. op.call = "none" /\ op.rest = <<>> BY IdleFacts
<1> QED BY <1>1 DEF WaitingInv, Walking, Linked, Dying, Offered

(* Steps that leave places and what is known of them alone.                  *)
LEMMA PlacesUnmoved ==
  ASSUME WaitingInv, UNCHANGED <<held, won>>,
         \A o \in Objs : alive'[o] /\ Kind[o] \in Places =>
           /\ alive[o] /\ counter'[o] = counter[o]
           /\ Offered(o)' => /\ Offered(o) /\ op'.hit = op.hit
                             /\ op'.rest # <<>> => op.rest # <<>>
  PROVE  AllPlacesKept'
<1> SUFFICES ASSUME NEW o \in Objs, alive'[o], Kind[o] \in Places
             PROVE  PlacesKept(o)'
  BY DEF AllPlacesKept
<1>1. PlacesKept(o) BY DEF WaitingInv, AllPlacesKept
<1>2. Grants(o)' = Grants(o) /\ Locked(o)' = Locked(o) BY DEF Grants, Locked
<1> QED BY <1>1, <1>2 DEF PlacesKept, Capacity

(* The start of a walk over the links of o, which may just have died.        *)
LEMMA WalkStarts ==
  ASSUME WaitingInv, op = Idle, NEW o \in Objs, alive[o], NEW call \in Walks,
         op' = Offering(o, call),
         UNCHANGED <<run, stop, current, owner, links, wait, won, scene>>,
         raised' \in [Objs -> BOOLEAN], counter' \in [Objs -> Nat],
         held' \in [Tasks -> [Objs -> Nat]],
         alive' = alive \/ (call = "offer" /\ alive' = [alive EXCEPT ![o] = FALSE])
  PROVE  Control' /\ Walking'
<1>1. Typed /\ OpTyped /\ RunAgrees /\ OnlyStoppedThrow BY DEF WaitingInv, Control
<1>2. /\ op' \in OpRecords /\ op'.call = call /\ op'.on = o /\ op'.rest = links[o] /\ ~op'.hit
  BY <1>1, OfferingFacts
<1>3. alive' \in [Objs -> BOOLEAN] /\ \A p \in Objs : p # o => alive'[p] = alive[p]
  BY <1>1 DEF Typed
<1>4. \A p \in Objs : IsInjective(links[p]) /\ Range(links[p]) = Waiters(p) BY IdleState
<1>5. Typed' BY <1>1, <1>2, <1>3 DEF Typed
<1>6. OpTyped' /\ RunAgrees' /\ OnlyStoppedThrow'
  BY <1>1, <1>2 DEF OpTyped, RunAgrees, OnlyStoppedThrow, Walks
<1>7. Linked'
  <2> SUFFICES ASSUME NEW p \in Objs
               PROVE  /\ IsInjective(links[p])
                      /\ Range(links[p]) = IF Dying(p)' THEN Range(op'.rest) ELSE Waiters(p)'
    BY DEF Linked
  <2>1. CASE Dying(p)' BY <1>2, <1>4, <2>1 DEF Dying
  <2>2. CASE ~ Dying(p)'
    <3>1. alive'[p] = alive[p] BY <1>1, <1>2, <1>3, <2>2 DEF Dying, Typed
    <3>2. Waiters(p)' = Waiters(p) BY <3>1 DEF Waiters
    <3> QED BY <1>4, <2>2, <3>2
  <2> QED BY <2>1, <2>2
<1>8. WalkMeetsWaiters'
  <2>1. \A t \in Range(links[o]) : o \in Range(wait[t].over) BY <1>4 DEF Waiters
  <2> QED BY <1>2, <1>4, <2>1 DEF WalkMeetsWaiters
<1>9. HitEnds' BY <1>2 DEF HitEnds, OneWoken
<1> QED BY <1>5, <1>6, <1>7, <1>8, <1>9 DEF Control, Walking

LEMMA RaiseKeeps ==
  ASSUME WaitingInv, NEW o \in Objs, Raise(o) \/ Reset(o), UNCHANGED scene
  PROVE  WaitingInv'
<1>1. Typed BY DEF WaitingInv, Control
<1>2. PICK call \in Walks : op' = Offering(o, call) BY DEF Raise, Reset, Walks
<1>3. /\ op = Idle /\ alive[o] /\ Kind[o] \in Raisables
      /\ UNCHANGED <<run, stop, current, counter, owner, links, alive, wait, won, held>>
  BY DEF Raise, Reset, UserCode, Raisables, Resettable
<1>4. raised' \in [Objs -> BOOLEAN] BY <1>1 DEF Raise, Reset, Typed
<1>5. Control' /\ Walking' BY <1>1, <1>2, <1>3, <1>4, WalkStarts DEF Typed
<1>6. op'.on = o BY <1>1, <1>2, OfferingFacts
<1>7. AllPlacesKept'
  <2>1. \A p \in Objs : Kind[p] \in Places => ~Offered(p)'
    BY <1>3, <1>6 DEF Offered, Places, Raisables
  <2> QED BY <1>3, <2>1, PlacesUnmoved
<1> QED BY <1>5, <1>7 DEF WaitingInv

LEMMA DestroyKeeps ==
  ASSUME WaitingInv, NEW o \in Objs, Destroy(o), UNCHANGED scene
  PROVE  WaitingInv'
<1>1. Typed BY DEF WaitingInv, Control
<1>2. /\ op = Idle /\ alive[o] /\ alive' = [alive EXCEPT ![o] = FALSE] /\ op' = Offering(o, "offer")
      /\ UNCHANGED <<run, stop, current, raised, counter, owner, links, wait, won, held>>
  BY DEF Destroy, UserCode
<1>3. "offer" \in Walks BY DEF Walks
<1>4. Control' /\ Walking' BY <1>1, <1>2, <1>3, WalkStarts DEF Typed
<1>5. op'.on = o BY <1>1, <1>2, <1>3, OfferingFacts
<1>6. AllPlacesKept'
  <2>1. \A p \in Objs : alive'[p] => alive[p] /\ p # o BY <1>1, <1>2 DEF Typed
  <2>2. \A p \in Objs : alive'[p] => ~Offered(p)' BY <1>5, <2>1 DEF Offered
  <2> QED BY <1>2, <2>1, <2>2, PlacesUnmoved
<1> QED BY <1>4, <1>6 DEF WaitingInv

(* unlock frees a place and then offers it.  A mutex stays locked, by nobody. *)
LEMMA UnlockKeeps ==
  ASSUME WaitingInv, NEW o \in Objs, NEW h \in Tasks, Unlock(o, h), UNCHANGED scene
  PROVE  WaitingInv'
<1> DEFINE call == IF Kind[o] = "recursive" /\ counter[o] > 1 THEN "withdraw" ELSE "offer"
<1>1. Typed BY DEF WaitingInv, Control
<1>2. /\ op = Idle /\ alive[o] /\ held[h][o] > 0 /\ counter[o] > 0
      /\ held' = [held EXCEPT ![h][o] = @ - 1]
      /\ counter' = [counter EXCEPT ![o] = IF Kind[o] = "mutex" \/ (Kind[o] = "recursive" /\ @ = 1)
                                           THEN 1 ELSE @ - 1]
      /\ op' = Offering(o, call)
      /\ UNCHANGED <<run, stop, current, raised, owner, links, alive, wait, won>>
  BY DEF Unlock, UserCode
<1>3. call \in Walks BY DEF Walks
<1> HIDE DEF call
<1>4. held[h] \in [Objs -> Nat] /\ held[h][o] \in Nat /\ counter[o] \in Nat BY <1>1 DEF Typed
<1>5. /\ held' \in [Tasks -> [Objs -> Nat]]
      /\ \A t \in Tasks, p \in Objs :
           held'[t][p] = IF t = h /\ p = o THEN held[h][o] - 1 ELSE held[t][p]
  BY <1>1, <1>2, <1>4 DEF Typed
<1>6. /\ counter' \in [Objs -> Nat]
      /\ \A p \in Objs : p # o => counter'[p] = counter[p]
      /\ counter'[o] = IF Kind[o] = "mutex" \/ (Kind[o] = "recursive" /\ counter[o] = 1)
                       THEN 1 ELSE counter[o] - 1
  BY <1>1, <1>2, <1>4 DEF Typed
<1>7. Control' /\ Walking' BY <1>1, <1>2, <1>3, <1>5, <1>6, WalkStarts DEF Typed
<1>8. op'.on = o BY <1>1, <1>2, <1>3, OfferingFacts
<1>9. AllPlacesKept'
  <2> SUFFICES ASSUME NEW p \in Objs, alive[p], Kind[p] \in Places
               PROVE  PlacesKept(p)'
    BY <1>2 DEF AllPlacesKept
  <2>1. PlacesKept(p) BY DEF WaitingInv, AllPlacesKept
  <2>2. CASE p # o
    <3>1. Grants(p)' = Grants(p)
      BY <1>2, <1>5, <2>2 DEF Grants
    <3>2. ~Offered(p)' BY <1>8, <2>2 DEF Offered
    <3> QED BY <1>6, <2>1, <2>2, <3>1, <3>2 DEF PlacesKept, Capacity, Locked
  <2>3. CASE p = o
    <3>1. IsFiniteSet(Grants(o)) /\ Cardinality(Grants(o)) <= counter[o] /\ counter[o] <= Capacity(o)
      BY <2>1, <2>3 DEF PlacesKept, Locked
    <3> DEFINE g == <<h, held[h][o]>>
               G == GrantsIn(held, won, o)
               H == GrantsIn(held', won', o)
    <3>2. IsFiniteSet(G) /\ Cardinality(G) <= counter[o]
      BY <3>1, GrantsStates
    <3>3. g \in G BY <1>2, <1>4, GrantsFacts
    <3>4. H \subseteq G \ {g}
      <4>1. ASSUME NEW t \in Tasks, NEW k \in 0..held'[t][o], k = 0 => o \in won'[t]
            PROVE  <<t, k>> \in G \ {g}
        <5>1. held'[t][o] = IF t = h THEN held[h][o] - 1 ELSE held[t][o] BY <1>5
        <5>2. held[t][o] \in Nat BY <1>1 DEF Typed
        <5>3. k \in 0..held[t][o] /\ ~ (t = h /\ k = held[h][o]) BY <1>4, <5>1, <5>2
        <5>4. <<t, k>> \in G BY <1>2, <4>1, <5>3, GrantsFacts
        <5> QED BY <5>3, <5>4
      <4> HIDE DEF G, g
      <4> QED BY <4>1, GrantsWithin
    <3> HIDE DEF G, H, g
    <3>5. IsFiniteSet(G \ {g}) /\ Cardinality(G \ {g}) = Cardinality(G) - 1
      BY <3>2, <3>3, FS_RemoveElement
    <3>6. /\ IsFiniteSet(H) /\ Cardinality(H) \in Nat /\ Cardinality(G \ {g}) \in Nat
          /\ Cardinality(H) <= Cardinality(G \ {g})
      BY <3>4, <3>5, SetShrinks
    <3>7. Cardinality(G) \in Nat BY <3>2, FS_CardinalityType
    <3>8. Grants(o)' = H BY GrantsStates DEF H
    <3>9. CASE Kind[o] = "mutex"
      <4>1. counter[o] = 1 /\ counter'[o] = 1 /\ Capacity(o) = 1
        BY <1>2, <1>4, <1>6, <3>1, <3>9 DEF Capacity
      <4>2. Cardinality(H) = 0 BY <3>2, <3>5, <3>6, <3>7, <4>1
      <4> QED BY <2>3, <3>6, <3>8, <3>9, <4>1, <4>2 DEF PlacesKept, Locked, Capacity
    <3>10. CASE Kind[o] = "semaphore"
      <4>1. counter'[o] = counter[o] - 1 /\ Capacity(o) = Depth
        BY <1>6, <3>10 DEF Capacity
      <4>2. Depth \in Nat /\ counter[o] <= Depth BY <3>1, <4>1, WaitingAssumption
      <4> QED BY <1>4, <2>3, <3>2, <3>5, <3>6, <3>7, <3>8, <3>10, <4>1, <4>2
              DEF PlacesKept, Locked, Capacity
    <3> QED BY <2>3, <3>9, <3>10 DEF Places
  <2> QED BY <2>2, <2>3
<1> QED BY <1>7, <1>9 DEF WaitingInv

-----------------------------------------------------------------------------
(* Waiting.                                                                  *)

(* What counts as available between operations can be acquired.              *)
LEMMA OpenFacts ==
  ASSUME NEW w \in Waits, NEW ctr, NEW own, NEW me
  PROVE  /\ Open(w, ctr, own, me) \subseteq DOMAIN w.over
         /\ \A i \in Open(w, ctr, own, me) :
              w.over[i] \in Objs /\ (alive[w.over[i]] => Can(w.over[i], ctr, own, me))
BY WaitingAssumption DEF Open

(* What tryAcquire leaves behind.                                            *)
LEMMA AcquireTyped ==
  ASSUME Typed, NEW S, NEW ctr \in [Objs -> Nat], NEW own \in [Objs -> Tasks \union {NoTask}]
  PROVE  /\ RaisedAfter(S) \in [Objs -> BOOLEAN]
         /\ CounterAfter(ctr, S) \in [Objs -> Nat]
         /\ OwnerAfter(own, S) \in [Objs -> Tasks \union {NoTask}]
BY DEF Typed, RaisedAfter, CounterAfter, OwnerAfter

LEMMA TakeFacts ==
  ASSUME Typed, NEW t \in Tasks, NEW S
  PROVE  /\ Take(t, S) \in [Tasks -> [Objs -> Nat]]
         /\ \A u \in Tasks, o \in Objs :
              Take(t, S)[u][o] = IF u = t /\ o \in S /\ Kind[o] \in Lockables
                                 THEN held[u][o] + 1 ELSE held[u][o]
<1>1. held \in [Tasks -> [Objs -> Nat]] BY DEF Typed
<1> DEFINE h == [o \in Objs |-> IF o \in S /\ Kind[o] \in Lockables
                                THEN held[t][o] + 1 ELSE held[t][o]]
<1>2. Take(t, S) = [held EXCEPT ![t] = h] BY DEF Take
<1>3. h \in [Objs -> Nat] BY <1>1
<1>4. \A o \in Objs : h[o] = IF o \in S /\ Kind[o] \in Lockables
                             THEN held[t][o] + 1 ELSE held[t][o]
  OBVIOUS
<1> HIDE DEF h
<1> QED BY <1>1, <1>2, <1>3, <1>4

LEMMA WaitSatisfiedKeeps ==
  ASSUME WaitingInv, NEW w \in Waits, WaitSatisfied(w), UNCHANGED scene
  PROVE  WaitingInv'
<1> DEFINE lit == Open(w, counter, owner, current)
           S   == Chosen(w, lit)
<1>1. Typed /\ OpTyped /\ RunAgrees /\ OnlyStoppedThrow BY DEF WaitingInv, Control
<1>2. /\ op = Idle /\ current \in Tasks /\ Satisfied(w, lit)
      /\ raised' = RaisedAfter(S) /\ counter' = CounterAfter(counter, S)
      /\ owner' = OwnerAfter(owner, S) /\ held' = Take(current, S)
      /\ UNCHANGED <<run, stop, current, links, alive, wait, won, op>>
  BY <1>1 DEF WaitSatisfied, TaskCode, UserCode, Typed
<1>3. \A o \in S : alive[o] /\ Can(o, counter, owner, current)
  BY <1>2, OpenFacts, ChosenFacts
<1> HIDE DEF S, lit
<1>4. Typed' BY <1>1, <1>2, AcquireTyped, TakeFacts DEF Typed
<1>5. Control' BY <1>1, <1>2, <1>4 DEF Control, OpTyped, RunAgrees, OnlyStoppedThrow
<1>6. Walking'
  BY <1>2 DEF WaitingInv, Walking, Linked, Waiters, Dying, WalkMeetsWaiters, HitEnds, OneWoken
<1>7. AllPlacesKept'
  <2> SUFFICES ASSUME NEW o \in Objs, alive[o], Kind[o] \in Places
               PROVE  PlacesKept(o)'
    BY <1>2 DEF AllPlacesKept
  <2>1. PlacesKept(o) BY DEF WaitingInv, AllPlacesKept
  <2>2. ~Offered(o)' BY <1>2, IdleState DEF Offered
  <2>3. Kind[o] \in Lockables BY DEF Places, Lockables
  <2> DEFINE x == <<current, held[current][o] + 1>>
             G == GrantsIn(held, won, o)
             H == GrantsIn(held', won', o)
  <2>4. Grants(o) = G /\ Grants(o)' = H BY GrantsStates
  <2>5. CASE o \in S
    <3>1. \A t \in Tasks : held'[t][o] = IF t = current THEN held[t][o] + 1 ELSE held[t][o]
      BY <1>1, <1>2, <2>3, <2>5, TakeFacts
    <3>2. H \subseteq G \union {x}
      <4>1. ASSUME NEW t \in Tasks, NEW k \in 0..held'[t][o], k = 0 => o \in won'[t]
            PROVE  <<t, k>> \in G \union {x}
        <5>1. held[t][o] \in Nat BY <1>1 DEF Typed
        <5>2. CASE t = current /\ k = held[current][o] + 1 BY <5>2
        <5>3. CASE ~ (t = current /\ k = held[current][o] + 1)
          <6>1. k \in 0..held[t][o] BY <3>1, <5>1, <5>3
          <6>2. <<t, k>> \in G BY <1>2, <4>1, <6>1, GrantsFacts
          <6> QED BY <6>2
        <5> QED BY <5>2, <5>3
      <4> HIDE DEF G, x
      <4> QED BY <4>1, GrantsWithin
    <3> HIDE DEF G, H, x
    <3>3. IsFiniteSet(G) /\ Cardinality(G) <= counter[o] /\ counter[o] <= Capacity(o)
      BY <2>1, <2>4 DEF PlacesKept, Locked
    <3>4. /\ IsFiniteSet(H) /\ Cardinality(H) \in Nat /\ Cardinality(G) \in Nat
          /\ Cardinality(H) <= Cardinality(G) + 1
      BY <3>2, <3>3, SetGrows
    <3>5. counter[o] \in Nat /\ counter'[o] = counter[o] + 1
      BY <1>1, <1>2, <2>3, <2>5 DEF Typed, CounterAfter
    <3>6. counter[o] < Capacity(o) /\ Capacity(o) \in Nat
      BY <1>3, <2>5, WaitingAssumption DEF Can, Capacity, Places, Resettable
    <3> QED BY <2>2, <2>4, <3>3, <3>4, <3>5, <3>6 DEF PlacesKept, Locked, Capacity
  <2>6. CASE o \notin S
    <3>1. counter'[o] = counter[o] BY <1>1, <1>2, <2>6 DEF Typed, CounterAfter
    <3>2. \A t \in Tasks : held'[t][o] = held[t][o] BY <1>1, <1>2, <2>6, TakeFacts
    <3>3. G = H BY <1>2, <3>2 DEF GrantsIn
    <3> QED BY <2>1, <2>2, <2>4, <3>1, <3>3 DEF PlacesKept, Locked, Capacity
  <2> QED BY <2>5, <2>6
<1> QED BY <1>5, <1>6, <1>7 DEF WaitingInv

LEMMA WaitBlocksKeeps ==
  ASSUME WaitingInv, NEW w \in Waits, WaitBlocks(w), UNCHANGED scene
  PROVE  WaitingInv'
<1>1. Typed /\ OpTyped /\ RunAgrees /\ OnlyStoppedThrow BY DEF WaitingInv, Control
<1>2. /\ op = Idle /\ current \in Tasks
      /\ links' = [o \in Objs |-> IF alive[o] /\ o \in Range(w.over)
                                  THEN Append(links[o], current) ELSE links[o]]
      /\ wait' = [wait EXCEPT ![current] = w]
      /\ run' = [run EXCEPT ![current] = "hold"]
      /\ current' = NoTask
      /\ UNCHANGED <<stop, raised, counter, owner, alive, won, held, op>>
  BY <1>1 DEF WaitBlocks, TaskCode, UserCode, Typed
<1>3. run[current] = "work" /\ wait[current] = NotWaiting BY <1>1, <1>2 DEF RunAgrees
<1>4. \A o \in Objs : IsInjective(links[o]) /\ Range(links[o]) = Waiters(o) BY <1>2, IdleState
<1>5. \A o \in Objs : current \notin Waiters(o) BY <1>3, NotWaitingFacts DEF Waiters
<1>6. \A o \in Objs : links'[o] = IF alive[o] /\ o \in Range(w.over)
                                  THEN Append(links[o], current) ELSE links[o]
  BY <1>2
<1>7. \A o \in Objs : /\ links'[o] \in Seq(Tasks) /\ IsInjective(links'[o])
                      /\ Range(links'[o]) = IF alive[o] /\ o \in Range(w.over)
                                            THEN Waiters(o) \union {current} ELSE Waiters(o)
  <2> TAKE o \in Objs
  <2>1. links[o] \in Seq(Tasks) BY <1>1 DEF Typed
  <2>2. /\ Append(links[o], current) \in Seq(Tasks)
        /\ Range(Append(links[o], current)) = Range(links[o]) \union {current}
        /\ IsInjective(Append(links[o], current))
    BY <1>2, <1>4, <1>5, <2>1, AppendFacts
  <2> QED BY <1>4, <1>6, <2>1, <2>2
<1>8. \A o \in Objs : Waiters(o)' = IF alive[o] /\ o \in Range(w.over)
                                    THEN Waiters(o) \union {current} ELSE Waiters(o)
  <2> TAKE o \in Objs
  <2>1. wait'[current] = w /\ \A t \in Tasks : t # current => wait'[t] = wait[t]
    BY <1>1, <1>2 DEF Typed
  <2>2. \A t \in Tasks : t \in Waiters(o)' <=> alive[o] /\ o \in Range(wait'[t].over)
    BY <1>2 DEF Waiters
  <2>3. \A t \in Tasks : t \in Waiters(o) <=> alive[o] /\ o \in Range(wait[t].over)
    BY DEF Waiters
  <2>4. Waiters(o) \subseteq Tasks /\ Waiters(o)' \subseteq Tasks BY DEF Waiters
  <2> HIDE DEF Waiters
  <2> QED BY <1>2, <1>5, <2>1, <2>2, <2>3, <2>4
<1>9. Typed'
  <2>1. links' \in [Objs -> Seq(Tasks)] BY <1>2, <1>7
  <2>2. wait' \in [Tasks -> Waits \union {NotWaiting}] BY <1>1, <1>2 DEF Typed
  <2> QED BY <1>1, <1>2, <2>1, <2>2 DEF Typed
<1>10. RunAgrees' /\ OnlyStoppedThrow'
  BY <1>1, <1>2, WaitingAssumption DEF RunAgrees, OnlyStoppedThrow, Typed
<1>11. Linked'
  <2>1. \A o : ~Dying(o)' BY <1>2, IdleState DEF Dying
  <2> QED BY <1>7, <1>8, <2>1 DEF Linked
<1>12. WalkMeetsWaiters' /\ HitEnds'
  BY <1>2, IdleState DEF WalkMeetsWaiters, HitEnds, OneWoken, Walks
<1>13. AllPlacesKept' BY <1>2, PlacesUnmoved DEF Offered
<1> QED BY <1>1, <1>2, <1>9, <1>10, <1>11, <1>12, <1>13
        DEF WaitingInv, Control, Walking, OpTyped

LEMMA WaitKeeps ==
  ASSUME WaitingInv, NEW w \in Waits, Wait(w), UNCHANGED scene
  PROVE  WaitingInv'
BY WaitSatisfiedKeeps, WaitBlocksKeeps DEF Wait

-----------------------------------------------------------------------------
(* The steps of a walk.                                                      *)

(* A walk that is not over is about to ask a task that waits for op.on.      *)
LEMMA WalkStands ==
  ASSUME WaitingInv, op.rest # <<>>
  PROVE  /\ op.call \in Walks /\ op.on \in Objs
         /\ Head(op.rest) \in Tasks /\ Head(op.rest) \in Range(op.rest)
         /\ wait[Head(op.rest)] \in Waits
         /\ op.on \in Range(wait[Head(op.rest)].over)
         /\ Tail(op.rest) \in Seq(Tasks) /\ IsInjective(Tail(op.rest))
         /\ Range(Tail(op.rest)) = Range(op.rest) \ {Head(op.rest)}
         /\ \A o \in Objs : /\ IsInjective(links[o])
                            /\ Range(links[o]) = IF Dying(o) THEN Range(op.rest) ELSE Waiters(o)
<1>1. Typed /\ OpTyped /\ Linked /\ WalkMeetsWaiters BY DEF WaitingInv, Control, Walking
<1>2. op \in OpRecords BY <1>1 DEF Typed
<1>3. /\ op.call \in Walks \union {"none", "terminated"} /\ op.rest \in Seq(Tasks)
  BY <1>2 DEF OpRecords
<1>4. op.call \in Walks BY <1>1, <1>3, IdleFacts DEF OpTyped
<1>5. op.on \in Objs BY <1>1, <1>4 DEF OpTyped
<1>6. op.call # "terminated" BY <1>4 DEF Walks
<1>7. IsInjective(op.rest) /\ \A t \in Range(op.rest) : op.on \in Range(wait[t].over)
  BY <1>1, <1>4 DEF WalkMeetsWaiters
<1>8. /\ Head(op.rest) \in Tasks /\ Head(op.rest) \in Range(op.rest)
      /\ Tail(op.rest) \in Seq(Tasks) /\ IsInjective(Tail(op.rest))
      /\ Range(Tail(op.rest)) = Range(op.rest) \ {Head(op.rest)}
  BY <1>3, <1>7, TailFacts
<1>9. wait[Head(op.rest)] \in Waits \union {NotWaiting} BY <1>1, <1>8 DEF Typed
<1>10. wait[Head(op.rest)] # NotWaiting BY <1>7, <1>8, NotWaitingFacts
<1>11. \A o \in Objs : /\ IsInjective(links[o])
                       /\ Range(links[o]) = IF Dying(o) THEN Range(op.rest) ELSE Waiters(o)
  BY <1>1, <1>6 DEF Linked
<1> QED BY <1>4, <1>5, <1>7, <1>8, <1>9, <1>10, <1>11

LEMMA LentFacts ==
  ASSUME Typed, op.on \in Objs, NEW t \in Tasks
  PROVE  /\ LentCounter \in [Objs -> Nat] /\ LentOwner(t) \in [Objs -> Tasks \union {NoTask}]
         /\ \A o \in Objs : o # op.on => LentCounter[o] = counter[o]
         /\ LentCounter[op.on] = IF alive[op.on] /\ Kind[op.on] = "semaphore" /\ op.call = "offer"
                                 THEN counter[op.on] + 1 ELSE counter[op.on]
BY DEF Typed, LentCounter, LentOwner

(* What counts as available can be acquired, except for what is offered.     *)
LEMMA LitFacts ==
  ASSUME NEW t, wait[t] \in Waits, op.on \in Range(wait[t].over)
  PROVE  /\ Lit(t) \subseteq DOMAIN wait[t].over
         /\ \A i \in Lit(t) :
              \/ wait[t].over[i] = op.on /\ op.call = "offer"
              \/ alive[wait[t].over[i]] => Can(wait[t].over[i], LentCounter, LentOwner(t), current)
<1> DEFINE D    == {i \in DOMAIN wait[t].over : wait[t].over[i] = op.on}
           from == Min(D)
           free == Open(wait[t], LentCounter, LentOwner(t), current)
<1>1. wait[t].over \in Seq(Objs) BY WaitingAssumption
<1>2. D \in SUBSET Nat /\ D # {} BY <1>1 DEF Range
<1>3. from \in D BY <1>2, MinFacts
<1>4. Lit(t) = free \union (IF op.call = "offer" THEN {from} ELSE {}) BY DEF Lit
<1>5. /\ free \subseteq DOMAIN wait[t].over
      /\ \A i \in free : alive[wait[t].over[i]]
                           => Can(wait[t].over[i], LentCounter, LentOwner(t), current)
  BY OpenFacts
<1> HIDE DEF from, free
<1> QED BY <1>3, <1>4, <1>5

(* An accepted offer takes a place only where one is free.                   *)
LEMMA AcceptTakes ==
  ASSUME WaitingInv, op.rest # <<>>, Withdrawing, NEW t, t = Head(op.rest), Accepts(t),
         NEW o \in Chosen(wait[t], Lit(t)), Kind[o] \in Places
  PROVE  /\ o \in Objs /\ alive[o]
         /\ IF o = op.on THEN op.call = "offer" ELSE counter[o] < Capacity(o)
<1>1. Typed BY DEF WaitingInv, Control
<1>2. /\ t \in Tasks /\ op.on \in Objs /\ op.call \in Walks
      /\ wait[t] \in Waits /\ op.on \in Range(wait[t].over)
  BY WalkStands
<1>3. Lit(t) \subseteq DOMAIN wait[t].over BY <1>2, LitFacts
<1>4. o \in Objs /\ alive[o] /\ \E i \in Lit(t) : wait[t].over[i] = o
  BY <1>2, <1>3, ChosenFacts DEF Accepts
<1>5. (o = op.on /\ op.call = "offer") \/ Can(o, LentCounter, LentOwner(t), current)
  BY <1>2, <1>4, LitFacts
<1>6. CASE o = op.on
  <2>1. ASSUME op.call = "withdraw" PROVE FALSE
    <3>1. LentCounter[o] = counter[o] BY <1>1, <1>2, <1>6, <2>1, LentFacts
    <3>2. Can(o, LentCounter, LentOwner(t), current) BY <1>5, <2>1
    <3>3. Can(o, counter, owner, current) BY <3>1, <3>2 DEF Can, Places, Resettable
    <3> QED BY <1>6, <2>1, <3>3 DEF Withdrawing
  <2> QED BY <1>2, <1>4, <1>6, <2>1 DEF Walks
<1>7. CASE o # op.on
  <2>1. LentCounter[o] = counter[o] BY <1>1, <1>2, <1>4, <1>7, LentFacts
  <2>2. Can(o, LentCounter, LentOwner(t), current) BY <1>5, <1>7
  <2> QED BY <1>4, <1>7, <2>1, <2>2, WaitingAssumption DEF Can, Capacity, Places, Resettable
<1> QED BY <1>6, <1>7

LEMMA OfferAcceptedKeeps ==
  ASSUME WaitingInv, OfferAccepted, UNCHANGED scene
  PROVE  WaitingInv'
<1> DEFINE t == Head(op.rest)
           C == Chosen(wait[t], Lit(t))
<1>1. Typed /\ OpTyped /\ RunAgrees /\ OnlyStoppedThrow BY DEF WaitingInv, Control
<1>2. Linked /\ WalkMeetsWaiters /\ HitEnds BY DEF WaitingInv, Walking
<1>3. /\ op.rest # <<>> /\ Withdrawing /\ Accepts(t)
      /\ raised' = RaisedAfter(C \ {op.on})
      /\ counter' = CounterAfter(LentCounter, C \ {op.on})
      /\ owner' = OwnerAfter(LentOwner(t), C \ {op.on})
      /\ links' = Unlinked(t)
      /\ wait' = [wait EXCEPT ![t] = NotWaiting]
      /\ won' = [won EXCEPT ![t] = C]
      /\ run' = Woken(t)
      /\ op' = [op EXCEPT !.hit = TRUE,
                          !.rest = IF op.call = "withdraw" \/ GoesOn(LentCounter)
                                   THEN Tail(@) ELSE <<>>]
      /\ UNCHANGED <<stop, current, alive, held>>
  BY DEF OfferAccepted, Taken
<1>4. /\ op.call \in Walks /\ op.on \in Objs /\ t \in Tasks /\ t \in Range(op.rest)
      /\ wait[t] \in Waits /\ op.on \in Range(wait[t].over)
      /\ Tail(op.rest) \in Seq(Tasks) /\ IsInjective(Tail(op.rest))
      /\ Range(Tail(op.rest)) = Range(op.rest) \ {t}
      /\ \A o \in Objs : /\ IsInjective(links[o])
                         /\ Range(links[o]) = IF Dying(o) THEN Range(op.rest) ELSE Waiters(o)
  BY <1>3, WalkStands
<1>5. C \subseteq Objs BY DEF Chosen
<1>6. \A o \in C : Kind[o] \in Places =>
        /\ o \in Objs /\ alive[o]
        /\ IF o = op.on THEN op.call = "offer" ELSE counter[o] < Capacity(o)
  BY <1>3, AcceptTakes
<1> HIDE DEF t, C
<1>7. op \in OpRecords BY <1>1 DEF Typed
<1>8. /\ op' \in OpRecords /\ op'.call = op.call /\ op'.on = op.on /\ op'.hit = TRUE
      /\ op'.rest = IF op.call = "withdraw" \/ GoesOn(LentCounter) THEN Tail(op.rest) ELSE <<>>
  <2> DEFINE r == IF op.call = "withdraw" \/ GoesOn(LentCounter) THEN Tail(op.rest) ELSE <<>>
  <2>1. r \in Seq(Tasks) BY <1>4
  <2>2. op' = [op EXCEPT !.hit = TRUE, !.rest = r] BY <1>3
  <2> HIDE DEF r
  <2>3. op' \in OpRecords /\ op'.call = op.call /\ op'.on = op.on /\ op'.hit = TRUE /\ op'.rest = r
    BY <1>7, <2>1, <2>2 DEF OpRecords
  <2> QED BY <2>3 DEF r
<1>9. wait[t] # NotWaiting BY <1>4, NotWaitingFacts
<1>10. /\ wait' \in [Tasks -> Waits \union {NotWaiting}]
       /\ wait'[t] = NotWaiting /\ \A u \in Tasks : u # t => wait'[u] = wait[u]
  BY <1>1, <1>3, <1>4 DEF Typed
<1>11. /\ links' \in [Objs -> Seq(Tasks)]
       /\ \A o \in Objs : IsInjective(links'[o]) /\ Range(links'[o]) = Range(links[o]) \ {t}
  BY <1>1, <1>3, <1>4, UnlinkedFacts
<1>12. LentCounter \in [Objs -> Nat] /\ LentOwner(t) \in [Objs -> Tasks \union {NoTask}]
  BY <1>1, <1>4, LentFacts
<1>13. Typed'
  <2>1. run' \in [Tasks -> {"ready", "work", "hold", "ended"}]
    BY <1>1, <1>3, <1>4 DEF Typed, Woken
  <2>2. won' \in [Tasks -> SUBSET Objs] BY <1>1, <1>3, <1>5 DEF Typed
  <2>3. raised' \in [Objs -> BOOLEAN] /\ counter' \in [Objs -> Nat]
        /\ owner' \in [Objs -> Tasks \union {NoTask}]
    BY <1>1, <1>3, <1>12, AcquireTyped
  <2> QED BY <1>1, <1>3, <1>8, <1>10, <1>11, <2>1, <2>2, <2>3 DEF Typed
<1>14. OpTyped' BY <1>4, <1>8 DEF OpTyped, Walks
<1>15. RunAgrees' /\ OnlyStoppedThrow'
  <2>1. run[t] \in {"hold", "ready"} /\ t # current BY <1>1, <1>4, <1>9 DEF RunAgrees
  <2>2. run'[t] = "ready" /\ \A u \in Tasks : u # t => run'[u] = run[u]
    BY <1>1, <1>3, <1>4, <2>1 DEF Typed, Woken
  <2>3. RunAgrees' BY <1>1, <1>3, <1>10, <2>1, <2>2 DEF RunAgrees
  <2>4. OnlyStoppedThrow' BY <1>1, <1>3, <1>10, <2>2 DEF OnlyStoppedThrow
  <2> QED BY <2>3, <2>4
<1>16. Linked'
  <2> SUFFICES ASSUME NEW o \in Objs
               PROVE  Range(links'[o]) = IF Dying(o)' THEN Range(op'.rest) ELSE Waiters(o)'
    BY <1>11 DEF Linked
  <2>1. Dying(o)' = Dying(o) BY <1>3, <1>8 DEF Dying
  <2>2. CASE Dying(o)
    <3>1. op'.rest = Tail(op.rest) BY <1>8, <2>2 DEF Dying, GoesOn
    <3> QED BY <1>4, <1>11, <2>1, <2>2, <3>1
  <2>3. CASE ~Dying(o)
    <3>1. Waiters(o)' = Waiters(o) \ {t} BY <1>1, <1>3, <1>4, WaiterGone
    <3> QED BY <1>4, <1>11, <2>1, <2>3, <3>1
  <2> QED BY <2>2, <2>3
<1>17. WalkMeetsWaiters'
  <2>1. Range(<<>>) = {} /\ IsInjective(<<>>) BY DEF Range, IsInjective
  <2>2. IsInjective(op'.rest) /\ Range(op'.rest) \subseteq Range(op.rest) \ {t}
    BY <1>4, <1>8, <2>1
  <2>3. op.rest \in Seq(Tasks) BY <1>7 DEF OpRecords
  <2>4. Range(op.rest) \subseteq Tasks BY <2>3 DEF Range
  <2>5. \A u \in Range(op'.rest) : wait'[u] = wait[u] BY <1>10, <2>2, <2>4
  <2>6. \A u \in Range(op.rest) : op.on \in Range(wait[u].over)
    BY <1>2, <1>4 DEF WalkMeetsWaiters
  <2>7. \A u \in Range(op'.rest) : op'.on \in Range(wait'[u].over) BY <1>8, <2>2, <2>5, <2>6
  <2>8. ~alive[op.on] => op.call = "offer" BY <1>2, <1>4 DEF WalkMeetsWaiters
  <2> QED BY <1>3, <1>8, <2>2, <2>7, <2>8 DEF WalkMeetsWaiters
<1>18. HitEnds' BY <1>3, <1>8 DEF HitEnds, OneWoken, GoesOn
<1>19. AllPlacesKept'
  <2> SUFFICES ASSUME NEW o \in Objs, alive[o], Kind[o] \in Places
               PROVE  PlacesKept(o)'
    BY <1>3 DEF AllPlacesKept
  <2>1. PlacesKept(o) BY DEF WaitingInv, AllPlacesKept
  <2> DEFINE G == GrantsIn(held, won, o)
             H == GrantsIn(held', won', o)
  <2>2. Grants(o) = G /\ Grants(o)' = H BY GrantsStates
  <2>3. IsFiniteSet(G) /\ Cardinality(G) <= counter[o] /\ counter[o] <= Capacity(o)
    BY <2>1, <2>2 DEF PlacesKept, Locked
  <2>4. counter[o] \in Nat /\ Capacity(o) \in Nat BY <1>1, WaitingAssumption DEF Typed, Capacity
  <2>5. won'[t] = C /\ \A u \in Tasks : u # t => won'[u] = won[u]
    BY <1>1, <1>3, <1>4 DEF Typed
  <2>6. H \subseteq G \union {<<t, 0>>} /\ (o \notin C => H \subseteq G)
    <3>1. ASSUME NEW u \in Tasks, NEW k \in 0..held'[u][o], k = 0 => o \in won'[u]
          PROVE  <<u, k>> \in G \/ (o \in C /\ u = t /\ k = 0)
      <4>1. CASE u = t /\ k = 0 BY <2>5, <3>1, <4>1
      <4>2. CASE ~ (u = t /\ k = 0)
        <5>1. k \in 0..held[u][o] /\ (k = 0 => o \in won[u]) BY <1>3, <2>5, <3>1, <4>2
        <5> QED BY <5>1, GrantsFacts
      <4> QED BY <4>1, <4>2
    <3> HIDE DEF G
    <3>2. H \subseteq G \union {<<t, 0>>}
      <4>1. ASSUME NEW u \in Tasks, NEW k \in 0..held'[u][o], k = 0 => o \in won'[u]
            PROVE  <<u, k>> \in G \union {<<t, 0>>}
        BY <3>1, <4>1
      <4> QED BY <4>1, GrantsWithin
    <3>3. ASSUME o \notin C PROVE H \subseteq G
      <4>1. ASSUME NEW u \in Tasks, NEW k \in 0..held'[u][o], k = 0 => o \in won'[u]
            PROVE  <<u, k>> \in G
        BY <3>1, <3>3, <4>1
      <4> QED BY <4>1, GrantsWithin
    <3> QED BY <3>2, <3>3
  <2> HIDE DEF G, H
  <2>7. /\ IsFiniteSet(H) /\ Cardinality(H) \in Nat /\ Cardinality(G) \in Nat
        /\ Cardinality(H) <= Cardinality(G) + 1
        /\ o \notin C => Cardinality(H) <= Cardinality(G)
    BY <2>3, <2>6, SetGrows, SetShrinks
  <2>8. counter'[o] = IF o \in C \ {op.on} THEN LentCounter[o] + 1 ELSE LentCounter[o]
    BY <1>3 DEF CounterAfter, Places, Lockables
  <2>9. CASE o # op.on
    <3>1. LentCounter[o] = counter[o] BY <1>1, <1>4, <2>9, LentFacts
    <3>2. ~Offered(o)' BY <1>8, <2>9 DEF Offered
    <3>3. o \in C => counter[o] < Capacity(o) BY <1>6, <2>9
    <3>4. Cardinality(H) <= counter'[o] /\ counter'[o] <= Capacity(o)
      BY <2>3, <2>4, <2>7, <2>8, <2>9, <3>1, <3>3
    <3> QED BY <2>2, <2>7, <3>2, <3>4 DEF PlacesKept, Locked, Capacity
  <2>10. CASE o = op.on /\ op.call = "withdraw"
    <3>1. LentCounter[o] = counter[o] BY <1>1, <1>4, <2>10, LentFacts
    <3>2. ~Offered(o)' BY <1>8, <2>10 DEF Offered
    <3>3. o \notin C BY <1>6, <2>10
    <3>4. Cardinality(H) <= counter'[o] /\ counter'[o] <= Capacity(o)
      BY <2>3, <2>4, <2>7, <2>8, <3>1, <3>3
    <3> QED BY <2>2, <2>7, <3>2, <3>4 DEF PlacesKept, Locked, Capacity
  <2>11. CASE o = op.on /\ op.call = "offer" /\ Kind[o] = "mutex"
    <3>1. LentCounter[o] = counter[o] BY <1>1, <1>4, <2>11, LentFacts
    <3>2. ~op.hit BY <1>2, <1>3, <2>11 DEF HitEnds, OneWoken
    <3>3. Cardinality(G) = 0 /\ counter[o] = 1
      BY <2>1, <2>2, <2>11, <3>2 DEF PlacesKept, Offered, Locked
    <3>4. counter'[o] = 1 /\ Cardinality(H) <= 1 /\ Capacity(o) = 1
      BY <2>7, <2>8, <2>11, <3>1, <3>3 DEF Capacity
    <3> QED BY <1>8, <2>2, <2>7, <2>11, <3>4 DEF PlacesKept, Locked, Capacity
  <2>12. CASE o = op.on /\ op.call = "offer" /\ Kind[o] = "semaphore"
    <3>1. LentCounter[o] = counter[o] + 1 BY <1>1, <1>4, <2>12, LentFacts
    <3>2. counter[o] < Depth /\ Capacity(o) = Depth /\ Depth \in Nat
      BY <1>3, <2>1, <2>12, WaitingAssumption DEF PlacesKept, Offered, Capacity
    <3>3. counter'[o] = counter[o] + 1 BY <2>8, <2>12, <3>1
    <3>4. op'.rest # <<>> => counter'[o] < Depth
      BY <1>8, <2>12, <3>1, <3>3 DEF GoesOn
    <3>5. Cardinality(H) <= counter'[o] /\ counter'[o] <= Depth
      BY <2>3, <2>4, <2>7, <3>2, <3>3
    <3> QED BY <2>2, <2>7, <2>12, <3>4, <3>5 DEF PlacesKept, Locked, Capacity
  <2> QED BY <1>4, <2>9, <2>10, <2>11, <2>12 DEF Walks, Places
<1> QED BY <1>13, <1>14, <1>15, <1>16, <1>17, <1>18, <1>19 DEF WaitingInv, Control, Walking

LEMMA OfferRefusedKeeps ==
  ASSUME WaitingInv, OfferRefused, UNCHANGED scene
  PROVE  WaitingInv'
<1> DEFINE t == Head(op.rest)
<1>1. Typed /\ OpTyped /\ RunAgrees /\ OnlyStoppedThrow BY DEF WaitingInv, Control
<1>2. Linked /\ WalkMeetsWaiters /\ HitEnds BY DEF WaitingInv, Walking
<1>3. /\ op.rest # <<>> /\ owner' = LentOwner(t)
      /\ links' = IF alive[op.on] THEN links ELSE [links EXCEPT ![op.on] = Cut(@, t)]
      /\ op' = [op EXCEPT !.rest = Tail(op.rest)]
      /\ UNCHANGED <<run, stop, current, raised, counter, alive, wait, won, held>>
  BY DEF OfferRefused
<1>4. /\ op.call \in Walks /\ op.on \in Objs /\ t \in Tasks
      /\ Tail(op.rest) \in Seq(Tasks) /\ IsInjective(Tail(op.rest))
      /\ Range(Tail(op.rest)) = Range(op.rest) \ {t}
      /\ \A o \in Objs : /\ IsInjective(links[o])
                         /\ Range(links[o]) = IF Dying(o) THEN Range(op.rest) ELSE Waiters(o)
  BY <1>3, WalkStands
<1> HIDE DEF t
<1>5. op \in OpRecords BY <1>1 DEF Typed
<1>6. /\ op' \in OpRecords /\ op'.call = op.call /\ op'.on = op.on /\ op'.hit = op.hit
      /\ op'.rest = Tail(op.rest)
  BY <1>3, <1>4, <1>5 DEF OpRecords
<1>7. owner' \in [Objs -> Tasks \union {NoTask}] BY <1>1, <1>3, <1>4, LentFacts
<1>8. ~alive[op.on] => Dying(op.on) BY <1>2, <1>4 DEF WalkMeetsWaiters, Dying
<1>9. \A o \in Objs : /\ links'[o] \in Seq(Tasks) /\ IsInjective(links'[o])
                      /\ Range(links'[o]) = IF Dying(o) THEN Range(links[o]) \ {t}
                                            ELSE Range(links[o])
  <2> TAKE o \in Objs
  <2>1. links[o] \in Seq(Tasks) BY <1>1 DEF Typed
  <2>2. links'[o] = IF Dying(o) THEN Cut(links[o], t) ELSE links[o]
    BY <1>1, <1>3, <1>4, <1>8 DEF Typed, Dying
  <2>3. /\ Cut(links[o], t) \in Seq(Tasks) /\ IsInjective(Cut(links[o], t))
        /\ Range(Cut(links[o], t)) = Range(links[o]) \ {t}
    BY <1>4, <2>1, CutFacts
  <2> QED BY <1>4, <2>1, <2>2, <2>3
<1>10. links' \in [Objs -> Seq(Tasks)]
  <2>1. links' \in [Objs -> Seq(Tasks)] <=> \A o \in Objs : links'[o] \in Seq(Tasks)
    <3>1. links \in [Objs -> Seq(Tasks)] BY <1>1 DEF Typed
    <3> QED BY <1>3, <3>1
  <2> QED BY <1>9, <2>1
<1>11. Control'
  BY <1>1, <1>3, <1>4, <1>6, <1>7, <1>10
  DEF Control, Typed, OpTyped, RunAgrees, OnlyStoppedThrow, Walks
<1>12. Linked'
  <2> SUFFICES ASSUME NEW o \in Objs
               PROVE  Range(links'[o]) = IF Dying(o)' THEN Range(op'.rest) ELSE Waiters(o)'
    BY <1>9 DEF Linked
  <2>1. Dying(o)' = Dying(o) /\ Waiters(o)' = Waiters(o) BY <1>3, <1>6 DEF Dying, Waiters
  <2> QED BY <1>4, <1>6, <1>9, <2>1
<1>13. WalkMeetsWaiters' /\ HitEnds'
  BY <1>2, <1>3, <1>4, <1>6 DEF WalkMeetsWaiters, HitEnds, OneWoken
<1>14. AllPlacesKept' BY <1>3, <1>6, PlacesUnmoved DEF Offered
<1> QED BY <1>11, <1>12, <1>13, <1>14 DEF WaitingInv, Walking

LEMMA OfferThrowsKeeps ==
  ASSUME WaitingInv, OfferThrows, UNCHANGED scene
  PROVE  WaitingInv'
<1> DEFINE t == Head(op.rest)
<1>1. Typed /\ OpTyped /\ RunAgrees /\ OnlyStoppedThrow BY DEF WaitingInv, Control
<1>2. /\ op.rest # <<>> /\ counter' = LentCounter /\ owner' = LentOwner(t)
      /\ op' = IF alive[op.on] THEN Idle ELSE Terminated
      /\ UNCHANGED <<run, stop, current, raised, links, alive, wait, won, held>>
  BY DEF OfferThrows
<1>3. /\ op.call \in Walks /\ op.on \in Objs /\ t \in Tasks
      /\ \A o \in Objs : /\ IsInjective(links[o])
                         /\ Range(links[o]) = IF Dying(o) THEN Range(op.rest) ELSE Waiters(o)
  BY <1>2, WalkStands
<1> HIDE DEF t
<1>4. /\ counter' \in [Objs -> Nat] /\ owner' \in [Objs -> Tasks \union {NoTask}]
      /\ \A o \in Objs : o # op.on => counter'[o] = counter[o]
      /\ counter'[op.on] = IF alive[op.on] /\ Kind[op.on] = "semaphore" /\ op.call = "offer"
                           THEN counter[op.on] + 1 ELSE counter[op.on]
  BY <1>1, <1>2, <1>3, LentFacts
<1>5. op' \in OpRecords /\ op'.call \notin Walks /\ op'.call = IF alive[op.on] THEN "none" ELSE "terminated"
  BY <1>2, IdleFacts DEF Walks
<1>6. OpTyped' BY <1>2, <1>5, IdleFacts DEF OpTyped
<1>7. Control' BY <1>1, <1>2, <1>4, <1>5, <1>6 DEF Control, Typed, RunAgrees, OnlyStoppedThrow
<1>8. Linked'
  <2> SUFFICES ASSUME alive[op.on], NEW o \in Objs
               PROVE  Range(links'[o]) = IF Dying(o)' THEN Range(op'.rest) ELSE Waiters(o)'
    BY <1>2, <1>3, <1>5 DEF Linked
  <2>1. ~Dying(o) BY DEF Dying
  <2>2. ~Dying(o)' BY <1>5 DEF Dying
  <2>3. Waiters(o)' = Waiters(o) BY <1>2 DEF Waiters
  <2> QED BY <1>2, <1>3, <2>1, <2>2, <2>3
<1>9. WalkMeetsWaiters' /\ HitEnds'
  BY <1>5 DEF WalkMeetsWaiters, HitEnds, OneWoken, Walks
<1>10. AllPlacesKept'
  <2> SUFFICES ASSUME NEW o \in Objs, alive[o], Kind[o] \in Places
               PROVE  PlacesKept(o)'
    BY <1>2 DEF AllPlacesKept
  <2>1. PlacesKept(o) BY DEF WaitingInv, AllPlacesKept
  <2>2. ~Offered(o)' BY <1>5 DEF Offered, Walks
  <2>3. Grants(o)' = Grants(o) /\ Locked(o)' = Locked(o) BY <1>2 DEF Grants, Locked
  <2>4. CASE o = op.on /\ op.call = "offer" /\ Kind[o] = "semaphore"
    <3>1. counter[o] < Depth /\ Locked(o) <= counter[o] /\ IsFiniteSet(Grants(o))
      BY <1>2, <2>1, <2>4 DEF PlacesKept, Offered
    <3>2. counter[o] \in Nat /\ Depth \in Nat /\ Locked(o) \in Nat
      BY <1>1, <3>1, WaitingAssumption, FS_CardinalityType DEF Typed, Locked
    <3>3. counter'[o] = counter[o] + 1 BY <1>4, <2>4
    <3> QED BY <2>2, <2>3, <2>4, <3>1, <3>2, <3>3 DEF PlacesKept, Capacity
  <2>5. CASE ~ (o = op.on /\ op.call = "offer" /\ Kind[o] = "semaphore")
    <3>1. counter'[o] = counter[o] BY <1>4, <2>5
    <3> QED BY <2>1, <2>2, <2>3, <3>1 DEF PlacesKept, Capacity
  <2> QED BY <2>4, <2>5
<1> QED BY <1>7, <1>8, <1>9, <1>10 DEF WaitingInv, Walking

LEMMA WalkEndsKeeps ==
  ASSUME WaitingInv, WalkEnds, UNCHANGED scene
  PROVE  WaitingInv'
<1> DEFINE o == op.on
           offered == op.call = "offer" /\ alive[o]
           again == offered /\ Kind[o] = "semaphore"
<1>1. Typed /\ OpTyped /\ RunAgrees /\ OnlyStoppedThrow BY DEF WaitingInv, Control
<1>2. Linked /\ WalkMeetsWaiters /\ HitEnds BY DEF WaitingInv, Walking
<1>3. /\ op.call \in Walks /\ (op.rest = <<>> \/ ~Withdrawing)
      /\ raised' = [raised EXCEPT ![o] = IF offered /\ Kind[o] \in {"notifierOne", "notifierAll"}
                                         THEN ~op.hit ELSE @]
      /\ counter' = [counter EXCEPT ![o] = IF offered /\ Kind[o] \in {"mutex", "recursive"} /\ ~op.hit
                                           THEN 0 ELSE @]
      /\ owner' = [owner EXCEPT ![o] = IF offered /\ Kind[o] = "recursive" /\ ~op.hit
                                       THEN NoTask ELSE @]
      /\ op' = IF again THEN Offering(o, "withdraw") ELSE Idle
      /\ UNCHANGED <<run, stop, current, links, alive, wait, won, held>>
  BY DEF WalkEnds, Walks
<1>4. o \in Objs BY <1>1, <1>3 DEF OpTyped
<1>5. op \in OpRecords BY <1>1 DEF Typed
<1>6. op.hit \in BOOLEAN BY <1>5 DEF OpRecords
<1>7. /\ raised' \in [Objs -> BOOLEAN] /\ counter' \in [Objs -> Nat]
      /\ owner' \in [Objs -> Tasks \union {NoTask}]
      /\ \A p \in Objs : p # o => counter'[p] = counter[p]
      /\ counter'[o] = IF offered /\ Kind[o] \in {"mutex", "recursive"} /\ ~op.hit
                       THEN 0 ELSE counter[o]
  <2> HIDE DEF o, offered, again
  <2> QED BY <1>1, <1>3, <1>4, <1>6 DEF Typed
<1>8. /\ op' \in OpRecords /\ op'.call \in {"withdraw", "none"} /\ ~op'.hit
      /\ again => op'.call = "withdraw" /\ op'.on = o /\ op'.rest = links[o]
      /\ ~again => op' = Idle /\ op'.call = "none"
  <2> HIDE DEF o, offered, again
  <2>1. "withdraw" \in Walks BY DEF Walks
  <2> QED BY <1>1, <1>3, <1>4, <2>1, IdleFacts, OfferingFacts
<1>9. \A p \in Objs : /\ IsInjective(links[p])
                      /\ Range(links[p]) = IF Dying(p) THEN Range(op.rest) ELSE Waiters(p)
  BY <1>2, <1>3 DEF Linked, Walks
<1>10. \A p \in Objs : Range(links[p]) = Waiters(p)
  <2> TAKE p \in Objs
  <2>1. CASE Dying(p)
    <3>1. op.rest = <<>> BY <1>3, <2>1 DEF Dying, Withdrawing
    <3>2. Range(op.rest) = {} BY <3>1 DEF Range
    <3>3. Waiters(p) = {} BY <2>1 DEF Waiters, Dying
    <3> QED BY <1>9, <2>1, <3>2, <3>3
  <2> QED BY <1>9, <2>1
<1>11. OpTyped'
  <2> HIDE DEF o, offered, again
  <2> QED BY <1>4, <1>8 DEF OpTyped, Walks
<1>12. Control'
  <2> HIDE DEF o, offered, again
  <2> QED BY <1>1, <1>3, <1>7, <1>8, <1>11 DEF Control, Typed, RunAgrees, OnlyStoppedThrow
<1>13. Linked'
  <2>1. \A p \in Objs : ~Dying(p)' BY <1>8 DEF Dying
  <2>2. \A p \in Objs : Waiters(p)' = Waiters(p) BY <1>3 DEF Waiters
  <2> QED BY <1>3, <1>9, <1>10, <2>1, <2>2 DEF Linked
<1>14. WalkMeetsWaiters'
  <2>1. CASE again
    <3>1. \A t \in Range(links[o]) : o \in Range(wait[t].over) BY <1>4, <1>10 DEF Waiters
    <3>2. alive[o] BY <2>1
    <3> HIDE DEF o, offered, again
    <3> QED BY <1>3, <1>4, <1>8, <1>9, <2>1, <3>1, <3>2 DEF WalkMeetsWaiters
  <2>2. CASE ~again BY <1>8, <2>2 DEF WalkMeetsWaiters, Walks
  <2> QED BY <2>1, <2>2
<1>15. HitEnds' BY <1>8 DEF HitEnds, OneWoken
<1>16. AllPlacesKept'
  <2> SUFFICES ASSUME NEW p \in Objs, alive[p], Kind[p] \in Places
               PROVE  PlacesKept(p)'
    BY <1>3 DEF AllPlacesKept
  <2>1. PlacesKept(p) BY DEF WaitingInv, AllPlacesKept
  <2>2. ~Offered(p)' BY <1>8 DEF Offered
  <2>3. Grants(p)' = Grants(p) /\ Locked(p)' = Locked(p) BY <1>3 DEF Grants, Locked
  <2>4. CASE p = o /\ offered /\ Kind[p] = "mutex" /\ ~op.hit
    <3>1. Locked(p) = 0 /\ IsFiniteSet(Grants(p)) BY <2>1, <2>4 DEF PlacesKept, Offered
    <3>2. counter'[p] = 0 BY <1>7, <2>4
    <3> QED BY <2>2, <2>3, <2>4, <3>1, <3>2 DEF PlacesKept, Capacity
  <2>5. CASE ~ (p = o /\ offered /\ Kind[p] = "mutex" /\ ~op.hit)
    <3>1. counter'[p] = counter[p] BY <1>7, <2>5 DEF Places
    <3> QED BY <2>1, <2>2, <2>3, <3>1 DEF PlacesKept, Capacity
  <2> QED BY <2>4, <2>5
<1> QED BY <1>12, <1>13, <1>14, <1>15, <1>16 DEF WaitingInv, Walking

-----------------------------------------------------------------------------
(* Scheduling.                                                               *)

LEMMA StopTaskKeeps ==
  ASSUME WaitingInv, NEW t \in Tasks, StopTask(t), UNCHANGED scene
  PROVE  WaitingInv'
<1>1. Typed /\ OpTyped /\ RunAgrees /\ OnlyStoppedThrow BY DEF WaitingInv, Control
<1>2. /\ stop' = [stop EXCEPT ![t] = TRUE] /\ run' = Woken(t)
      /\ UNCHANGED <<current, raised, counter, owner, links, alive, wait, won, held, op>>
  BY DEF StopTask
<1>3. /\ stop' \in [Tasks -> BOOLEAN] /\ stop'[t]
      /\ \A u \in Tasks : u # t => stop'[u] = stop[u]
  BY <1>1, <1>2 DEF Typed
<1>4. /\ run' \in [Tasks -> {"ready", "work", "hold", "ended"}]
      /\ run'[t] = IF run[t] = "hold" THEN "ready" ELSE run[t]
      /\ \A u \in Tasks : u # t => run'[u] = run[u]
  BY <1>1, <1>2 DEF Typed, Woken
<1>5. Typed' /\ OpTyped' BY <1>1, <1>2, <1>3, <1>4 DEF Typed, OpTyped
<1>6. RunAgrees' BY <1>1, <1>2, <1>4 DEF RunAgrees
<1>7. OnlyStoppedThrow' BY <1>1, <1>2, <1>3, <1>4 DEF OnlyStoppedThrow
<1>8. Walking'
  BY <1>2 DEF WaitingInv, Walking, Linked, Waiters, Dying, WalkMeetsWaiters, HitEnds, OneWoken
<1>9. AllPlacesKept' BY <1>2, PlacesUnmoved DEF Offered
<1> QED BY <1>5, <1>6, <1>7, <1>8, <1>9 DEF WaitingInv, Control

LEMMA LeaveKeeps ==
  ASSUME WaitingInv, NEW st \in {"ready", "ended"}, Leave(st), UNCHANGED scene
  PROVE  WaitingInv'
<1>1. Typed /\ OpTyped /\ RunAgrees /\ OnlyStoppedThrow BY DEF WaitingInv, Control
<1>2. /\ current \in Tasks /\ run' = [run EXCEPT ![current] = st] /\ current' = NoTask
      /\ UNCHANGED <<stop, raised, counter, owner, links, alive, wait, won, held, op>>
  BY <1>1 DEF Leave, TaskCode, Typed
<1>3. run[current] = "work" /\ wait[current] = NotWaiting BY <1>1, <1>2 DEF RunAgrees
<1>4. /\ run' \in [Tasks -> {"ready", "work", "hold", "ended"}]
      /\ run'[current] = st /\ \A u \in Tasks : u # current => run'[u] = run[u]
  BY <1>1, <1>2 DEF Typed
<1>5. Typed' /\ OpTyped' BY <1>1, <1>2, <1>4 DEF Typed, OpTyped
<1>6. RunAgrees' BY <1>1, <1>2, <1>3, <1>4, WaitingAssumption DEF RunAgrees
<1>7. OnlyStoppedThrow' BY <1>1, <1>2, <1>3, <1>4 DEF OnlyStoppedThrow
<1>8. Walking'
  BY <1>2 DEF WaitingInv, Walking, Linked, Waiters, Dying, WalkMeetsWaiters, HitEnds, OneWoken
<1>9. AllPlacesKept' BY <1>2, PlacesUnmoved DEF Offered
<1> QED BY <1>5, <1>6, <1>7, <1>8, <1>9 DEF WaitingInv, Control

(* A task that comes back takes over what was granted it in its sleep, or    *)
(* drops it if it has to stop; neither makes more grants than there were.    *)
LEMMA ResumeKeeps ==
  ASSUME WaitingInv, NEW t \in Tasks, Resume(t), UNCHANGED scene
  PROVE  WaitingInv'
<1>1. Typed /\ OpTyped /\ RunAgrees /\ OnlyStoppedThrow BY DEF WaitingInv, Control
<1>2. /\ op = Idle /\ current = NoTask /\ run[t] = "ready"
      /\ current' = t /\ run' = [run EXCEPT ![t] = "work"]
      /\ links' = Unlinked(t) /\ wait' = [wait EXCEPT ![t] = NotWaiting]
      /\ held' = (IF stop[t] THEN held ELSE Take(t, won[t]))
      /\ won' = [won EXCEPT ![t] = {}]
      /\ UNCHANGED <<stop, raised, counter, owner, alive, op>>
  BY DEF Resume, UserCode
<1>3. \A o \in Objs : IsInjective(links[o]) /\ Range(links[o]) = Waiters(o) BY <1>2, IdleState
<1>4. /\ links' \in [Objs -> Seq(Tasks)]
      /\ \A o \in Objs : IsInjective(links'[o]) /\ Range(links'[o]) = Range(links[o]) \ {t}
  BY <1>1, <1>2, <1>3, UnlinkedFacts
<1>5. /\ wait' \in [Tasks -> Waits \union {NotWaiting}]
      /\ wait'[t] = NotWaiting /\ \A u \in Tasks : u # t => wait'[u] = wait[u]
  BY <1>1, <1>2 DEF Typed
<1>6. /\ run' \in [Tasks -> {"ready", "work", "hold", "ended"}]
      /\ run'[t] = "work" /\ \A u \in Tasks : u # t => run'[u] = run[u]
  BY <1>1, <1>2 DEF Typed
<1>7. /\ won' \in [Tasks -> SUBSET Objs]
      /\ won'[t] = {} /\ \A u \in Tasks : u # t => won'[u] = won[u]
  BY <1>1, <1>2 DEF Typed
<1>8. /\ held' \in [Tasks -> [Objs -> Nat]]
      /\ \A u \in Tasks, o \in Objs :
           held'[u][o] = IF u = t /\ ~stop[t] /\ o \in won[t] /\ Kind[o] \in Lockables
                         THEN held[u][o] + 1 ELSE held[u][o]
  BY <1>1, <1>2, TakeFacts DEF Typed
<1>9. Typed' /\ OpTyped' BY <1>1, <1>2, <1>4, <1>5, <1>6, <1>7, <1>8 DEF Typed, OpTyped
<1>10. RunAgrees' /\ OnlyStoppedThrow'
  BY <1>1, <1>2, <1>5, <1>6, WaitingAssumption DEF RunAgrees, OnlyStoppedThrow
<1>11. Linked'
  <2> SUFFICES ASSUME NEW o \in Objs PROVE Range(links'[o]) = Waiters(o)'
    BY <1>2, <1>4, IdleState DEF Linked, Dying
  <2>1. Waiters(o)' = Waiters(o) \ {t} BY <1>1, <1>2, WaiterGone
  <2> QED BY <1>3, <1>4, <2>1
<1>12. WalkMeetsWaiters' /\ HitEnds'
  BY <1>2, IdleState DEF WalkMeetsWaiters, HitEnds, OneWoken, Walks
<1>13. AllPlacesKept'
  <2> SUFFICES ASSUME NEW o \in Objs, alive[o], Kind[o] \in Places
               PROVE  PlacesKept(o)'
    BY <1>2 DEF AllPlacesKept
  <2>1. PlacesKept(o) BY DEF WaitingInv, AllPlacesKept
  <2>2. ~Offered(o)' BY <1>2, IdleState DEF Offered
  <2>3. Kind[o] \in Lockables BY DEF Places, Lockables
  <2> DEFINE x == <<t, held[t][o] + 1>>
             y == <<t, 0>>
             G == GrantsIn(held, won, o)
             H == GrantsIn(held', won', o)
  <2>4. Grants(o) = G /\ Grants(o)' = H BY GrantsStates
  <2>5. IsFiniteSet(G) /\ Cardinality(G) <= counter[o] BY <2>1, <2>4 DEF PlacesKept, Locked
  <2>6. IsFiniteSet(H) /\ Cardinality(H) <= Cardinality(G)
    <3>1. CASE ~stop[t] /\ o \in won[t]
      <4>1. y \in G
        <5>1. held[t][o] \in Nat BY <1>1 DEF Typed
        <5>2. 0 \in 0..held[t][o] BY <5>1
        <5> QED BY <3>1, <5>2, GrantsFacts
      <4>2. H \subseteq (G \ {y}) \union {x}
        <5>1. ASSUME NEW u \in Tasks, NEW k \in 0..held'[u][o], k = 0 => o \in won'[u]
              PROVE  <<u, k>> \in (G \ {y}) \union {x}
          <6>1. held[u][o] \in Nat BY <1>1 DEF Typed
          <6>2. held'[u][o] = IF u = t THEN held[u][o] + 1 ELSE held[u][o]
            BY <1>8, <2>3, <3>1
          <6>3. CASE u = t /\ k = held[t][o] + 1 BY <6>3
          <6>4. CASE ~ (u = t /\ k = held[t][o] + 1)
            <7>1. k \in 0..held[u][o] /\ (k = 0 => o \in won[u]) /\ ~ (u = t /\ k = 0)
              BY <1>7, <5>1, <6>1, <6>2, <6>4
            <7>2. <<u, k>> \in G BY <7>1, GrantsFacts
            <7> QED BY <7>1, <7>2
          <6> QED BY <6>3, <6>4
        <5> HIDE DEF G, x, y
        <5> QED BY <5>1, GrantsWithin
      <4> HIDE DEF G, H, x, y
      <4>3. IsFiniteSet(G \ {y}) /\ Cardinality(G \ {y}) = Cardinality(G) - 1
        BY <2>5, <4>1, FS_RemoveElement
      <4>4. IsFiniteSet(H) /\ Cardinality(H) <= Cardinality(G \ {y}) + 1
        BY <4>2, <4>3, SetGrows
      <4>5. Cardinality(G) \in Nat BY <2>5, FS_CardinalityType
      <4> QED BY <4>3, <4>4, <4>5
    <3>2. CASE ~ (~stop[t] /\ o \in won[t])
      <4>1. ASSUME NEW u \in Tasks, NEW k \in 0..held'[u][o], k = 0 => o \in won'[u]
            PROVE  <<u, k>> \in G
        <5>1. k \in 0..held[u][o] /\ (k = 0 => o \in won[u]) BY <1>7, <1>8, <3>2, <4>1
        <5> QED BY <5>1, GrantsFacts
      <4> HIDE DEF G
      <4>2. H \subseteq G BY <4>1, GrantsWithin
      <4> HIDE DEF H
      <4> QED BY <2>5, <4>2, SetShrinks
    <3> QED BY <3>1, <3>2
  <2> HIDE DEF G, H
  <2>7. Cardinality(G) \in Nat /\ Cardinality(H) \in Nat /\ counter[o] \in Nat
    BY <1>1, <2>5, <2>6, FS_CardinalityType DEF Typed
  <2>8. Cardinality(H) <= counter[o] BY <2>5, <2>6, <2>7
  <2> QED BY <1>2, <2>1, <2>2, <2>4, <2>6, <2>8 DEF PlacesKept, Locked, Capacity
<1> QED BY <1>9, <1>10, <1>11, <1>12, <1>13 DEF WaitingInv, Control, Walking

-----------------------------------------------------------------------------
(* The invariant holds.                                                      *)

LEMMA InitInv == Init => WaitingInv
<1> SUFFICES ASSUME Init PROVE WaitingInv OBVIOUS
<1>1. <<>> \in Seq(Tasks) /\ IsInjective(<<>>) /\ Range(<<>>) = {} BY DEF IsInjective, Range
<1>2. Typed BY <1>1, IdleFacts DEF Init, Typed
<1>3. op = Idle /\ op.call = "none" BY IdleFacts DEF Init
<1>4. OpTyped /\ RunAgrees /\ OnlyStoppedThrow
  BY <1>3, WaitingAssumption DEF Init, OpTyped, RunAgrees, OnlyStoppedThrow, Walks
<1>5. Linked
  <2> SUFFICES ASSUME NEW o \in Objs PROVE Waiters(o) = {}
    BY <1>1, <1>3 DEF Linked, Init, Dying
  <2>1. \A t \in Tasks : wait[t] = NotWaiting BY DEF Init
  <2> QED BY <2>1, NotWaitingFacts DEF Waiters
<1>6. WalkMeetsWaiters /\ HitEnds BY <1>3 DEF WalkMeetsWaiters, HitEnds, OneWoken, Walks
<1>7. AllPlacesKept
  <2> SUFFICES ASSUME NEW o \in Objs PROVE PlacesKept(o) BY DEF AllPlacesKept
  <2> DEFINE none == {}
  <2>1. GrantsIn(held, won, o) \subseteq none
    <3>1. ASSUME NEW t \in Tasks, NEW k \in 0..held[t][o], k = 0 => o \in won[t]
          PROVE  <<t, k>> \in none
      BY <3>1 DEF Init
    <3> HIDE DEF none
    <3> QED BY <3>1, GrantsWithin
  <2>2. Grants(o) = {} BY <2>1, GrantsStates
  <2>3. IsFiniteSet(Grants(o)) /\ Locked(o) = 0 BY <2>2, FS_EmptySet DEF Locked
  <2>4. counter[o] = 0 BY DEF Init
  <2> QED BY <1>3, <2>3, <2>4, WaitingAssumption DEF PlacesKept, Capacity, Offered
<1> QED BY <1>2, <1>4, <1>5, <1>6, <1>7 DEF WaitingInv, Control, Walking

LEMMA NextKeeps == WaitingInv /\ [Next]_vars => WaitingInv'
<1> SUFFICES ASSUME WaitingInv, [Next]_vars PROVE WaitingInv' OBVIOUS
<1>1. CASE UNCHANGED vars
  <2>1. Control' BY <1>1 DEF vars, WaitingInv, Control, Typed, OpTyped, RunAgrees, OnlyStoppedThrow
  <2>2. Walking'
    BY <1>1 DEF vars, WaitingInv, Walking, Linked, Waiters, Dying, WalkMeetsWaiters, HitEnds, OneWoken
  <2>3. AllPlacesKept' BY <1>1, PlacesUnmoved DEF vars, Offered
  <2> QED BY <2>1, <2>2, <2>3 DEF WaitingInv
<1>2. CASE Next
  <2>0. UNCHANGED scene BY <1>2 DEF Next
  <2>1. ASSUME NEW w \in Waits, Wait(w) PROVE WaitingInv' BY <2>0, <2>1, WaitKeeps
  <2>2. ASSUME NEW o \in Objs, Raise(o) \/ Reset(o) PROVE WaitingInv' BY <2>0, <2>2, RaiseKeeps
  <2>3. ASSUME NEW o \in Objs, Destroy(o) PROVE WaitingInv' BY <2>0, <2>3, DestroyKeeps
  <2>4. ASSUME NEW o \in Objs, NEW h \in Tasks, Unlock(o, h) PROVE WaitingInv'
    BY <2>0, <2>4, UnlockKeeps
  <2>5. CASE OfferAccepted BY <2>0, <2>5, OfferAcceptedKeeps
  <2>6. CASE OfferRefused BY <2>0, <2>6, OfferRefusedKeeps
  <2>7. CASE OfferThrows BY <2>0, <2>7, OfferThrowsKeeps
  <2>8. CASE WalkEnds BY <2>0, <2>8, WalkEndsKeeps
  <2>9. ASSUME NEW t \in Tasks, StopTask(t) PROVE WaitingInv' BY <2>0, <2>9, StopTaskKeeps
  <2>10. ASSUME NEW t \in Tasks, Resume(t) PROVE WaitingInv' BY <2>0, <2>10, ResumeKeeps
  <2>11. CASE Yield \/ End BY <2>0, <2>11, LeaveKeeps DEF Yield, End
  <2> QED BY <1>2, <2>1, <2>2, <2>3, <2>4, <2>5, <2>6, <2>7, <2>8, <2>9, <2>10, <2>11 DEF Next
<1> QED BY <1>1, <1>2

LEMMA AlwaysInv == Spec => []WaitingInv
BY InitInv, NextKeeps, PTL DEF Spec

(* The lists, the counters and the records of waits keep their types: no     *)
(* unlock takes a counter below zero.                                        *)
THEOREM WaitingTypeCorrect == Spec => []TypeOK
<1>1. WaitingInv => TypeOK
  <2> SUFFICES ASSUME WaitingInv PROVE TypeOK OBVIOUS
  <2>1. Typed BY DEF WaitingInv, Control
  <2>2. \A o \in Objs : links[o] \in Seq(Tasks) BY <2>1 DEF Typed
  <2> QED BY <2>1, <2>2 DEF TypeOK, Typed
<1> QED BY <1>1, AlwaysInv, PTL

(* A live mutex has one holder and a semaphore no more than its places, the  *)
(* ones that unlock granted to sleepers and the ones that Waiter::exec took  *)
(* included, whatever the waits combine, whoever is stopped in between and   *)
(* whatever else is destroyed.                                               *)
THEOREM AlwaysExclusive == Spec => []Exclusive
<1>1. WaitingInv => Exclusive
  <2> SUFFICES ASSUME WaitingInv, NEW o \in Objs, alive[o]
               PROVE  /\ Kind[o] = "mutex" => Cardinality(Holders(o)) <= 1
                      /\ Kind[o] = "semaphore" => Locked(o) <= Depth
    BY DEF Exclusive
  <2>1. Typed BY DEF WaitingInv, Control
  <2>2. counter[o] \in Nat BY <2>1 DEF Typed
  <2>3. CASE Kind[o] = "semaphore"
    <3>1. /\ IsFiniteSet(Grants(o)) /\ Locked(o) <= counter[o] /\ counter[o] <= Depth
      BY <2>3 DEF WaitingInv, AllPlacesKept, PlacesKept, Places, Capacity
    <3>2. Locked(o) \in Nat /\ Depth \in Nat
      BY <3>1, FS_CardinalityType, WaitingAssumption DEF Locked
    <3> QED BY <2>2, <2>3, <3>1, <3>2
  <2>4. CASE Kind[o] = "mutex"
    <3>1. /\ IsFiniteSet(Grants(o)) /\ Cardinality(Grants(o)) <= counter[o] /\ counter[o] <= 1
      BY <2>4 DEF WaitingInv, AllPlacesKept, PlacesKept, Places, Capacity, Locked
    <3> DEFINE G == Grants(o)
               f == [t \in Holders(o) |-> <<t, IF o \in won[t] THEN 0 ELSE held[t][o]>>]
    <3>2. f \in Injection(Holders(o), G)
      <4>1. ASSUME NEW t \in Holders(o) PROVE f[t] \in G
        <5>1. t \in Tasks /\ held[t][o] \in Nat /\ (held[t][o] > 0 \/ o \in won[t])
          BY <2>1 DEF Holders, Typed
        <5>2. G = GrantsIn(held, won, o) BY GrantsStates
        <5>3. <<t, IF o \in won[t] THEN 0 ELSE held[t][o]>> \in GrantsIn(held, won, o)
          BY <5>1, GrantsFacts
        <5> QED BY <5>2, <5>3
      <4>2. f \in [Holders(o) -> G]
        <5> HIDE DEF G
        <5> QED BY <4>1
      <4>3. IsInjective(f) BY DEF IsInjective
      <4> HIDE DEF f, G
      <4> QED BY <4>2, <4>3 DEF Injection
    <3> HIDE DEF f
    <3>3. IsFiniteSet(Holders(o)) /\ Cardinality(Holders(o)) <= Cardinality(G)
      BY <3>1, <3>2, FS_Injection
    <3>4. Cardinality(Holders(o)) \in Nat /\ Cardinality(G) \in Nat
      BY <3>1, <3>3, FS_CardinalityType
    <3> QED BY <2>2, <2>4, <3>1, <3>3, <3>4
  <2> QED BY <2>3, <2>4
<1> QED BY <1>1, AlwaysInv, PTL

(* Unless ~Waitable was left by an exception, every list holds exactly the   *)
(* tasks whose waiters wait for its object, each once: Waiter::endAcquire    *)
(* leaves no link to a waiter on a stack that is gone.                       *)
THEOREM LinksAlwaysMatchWaiters == Spec => []LinksMatchWaiters
<1>1. WaitingInv => LinksMatchWaiters
  <2> SUFFICES ASSUME WaitingInv, op # Terminated, NEW o \in Objs
               PROVE  /\ IsInjective(links[o])
                      /\ op.on # o => Range(links[o]) = {t \in Tasks : alive[o] /\ o \in Range(wait[t].over)}
    BY DEF LinksMatchWaiters
  <2>1. op.call # "terminated" BY DEF WaitingInv, Control, OpTyped
  <2> QED BY <2>1 DEF WaitingInv, Walking, Linked, Dying, Waiters
<1> QED BY <1>1, AlwaysInv, PTL

(* A task that is queued while its waiter still waits has been stopped: no   *)
(* wait returns without what it waited for, it throws.                       *)
THEOREM OnlyStoppedEverThrow == Spec => []OnlyStoppedThrow
<1>1. WaitingInv => OnlyStoppedThrow BY DEF WaitingInv, Control
<1> QED BY <1>1, AlwaysInv, PTL

(* An unlocked mutex, or a notifier or pulser raised in wake mode one, wakes *)
(* nobody after the first waiter that accepts.                               *)
THEOREM OneIsEnough == Spec => WakesOne
<1>1. ASSUME WaitingInv, [Next]_vars, OneWoken PROVE run' = run
  <2>1. op.call = "offer" /\ op.rest = <<>> BY <1>1 DEF WaitingInv, Walking, HitEnds, OneWoken
  <2>2. op # Idle BY <2>1, IdleFacts
  <2>3. CASE UNCHANGED vars BY <2>3 DEF vars
  <2>4. CASE Next
    BY <2>1, <2>2, <2>4
    DEF Next, Wait, TaskCode, UserCode, Raise, Reset, Destroy, Unlock, OfferAccepted, OfferRefused,
        OfferThrows, WalkEnds, StopTask, Resume, Yield, End, Leave
  <2> QED BY <1>1, <2>3, <2>4
<1>2. WaitingInv /\ [Next]_vars => [OneWoken => run' = run]_vars BY <1>1
<1> QED BY <1>2, AlwaysInv, PTL DEF Spec, WakesOne

-----------------------------------------------------------------------------
(* That nothing is lost.  The invariant has to speak of what happens in the  *)
(* middle of a walk: Avail says what waiters will find of a waitable once    *)
(* the operation on it is over, if no other waiter takes it before.          *)
Avail(o, t) ==
  IF Offered(o) /\ alive[o]
  THEN \/ Kind[o] \in {"notifierOne", "notifierAll", "mutex"} /\ ~op.hit
       \/ Kind[o] = "semaphore" /\ counter[o] < Depth
       \/ Kind[o] = "event"
  ELSE ~alive[o] \/ Can(o, counter, owner, t)
Prospect(t) == {i \in DOMAIN wait[t].over : Avail(wait[t].over[i], t)}
Others(t)   == {i \in Prospect(t) : wait[t].over[i] # op.on}

(* A waiter cannot be satisfied, but for those whom the walk has yet to ask: *)
(* they have nothing else to be satisfied with than what is offered.  Only   *)
(* an expression over an event may come true by itself, when the event is    *)
(* raised or reset, and then its waiter is asked.                            *)
Patient(t) ==
  IF op.call \in Walks /\ t \in Range(op.rest)
  THEN IF op.call = "offer"
       THEN Kind[op.on] # "event" \/ wait[t].mode # "expr" => ~ Satisfied(wait[t], Others(t))
       ELSE Kind[op.on] # "event" \/ wait[t].mode # "expr" => ~ Satisfied(wait[t], Prospect(t))
  ELSE ~ Satisfied(wait[t], Prospect(t))
AllPatient == \A t \in Tasks : wait[t] # NotWaiting => Patient(t)

(* What is on offer is in the state that the operation gave it.  Nobody      *)
(* refuses a recursive mutex, so that nobody is left whom it was lent to.    *)
OnTheWay ==
  op.call \in Walks =>
    /\ Kind[op.on] = "event" /\ alive[op.on] => (raised[op.on] <=> op.call = "offer")
    /\ Kind[op.on] = "mutex" /\ op.call = "offer" /\ alive[op.on] => counter[op.on] = 1
    /\ Kind[op.on] = "recursive" /\ op.call = "offer" =>
         \A t \in Tasks : op.on \in Range(wait[t].over) => t \in Range(op.rest)

(* Only a woken task has a grant that it does not know of.                   *)
Told ==
  \A t \in Tasks : /\ won[t] # {} => run[t] = "ready" /\ wait[t] = NotWaiting
                   /\ run[t] = "hold" => wait[t] # NotWaiting

(* Counters are what the tasks hold, and a mutex on offer is locked by       *)
(* nobody until somebody accepts.                                            *)
Exact(o) ==
  counter[o] = Locked(o) + IF Kind[o] = "mutex" /\ Offered(o) /\ ~op.hit THEN 1 ELSE 0
AllExact == \A o \in Objs : alive[o] /\ Kind[o] \in Places => Exact(o)

(* Once a task was stopped this is not promised any more.                    *)
Attentive == OnTheWay /\ AllPatient /\ AllExact
Steady    == Told /\ (NobodyStopped => Attentive)

-----------------------------------------------------------------------------
(* More that is available satisfies more, except for events.                 *)
LEMMA SatMore ==
  ASSUME PlainWaits, NEW w \in Waits, NEW L, NEW M, L \subseteq M, M \subseteq DOMAIN w.over,
         w.mode # "expr" \/ \A i \in M \ L : Kind[w.over[i]] # "event",
         Satisfied(w, L)
  PROVE  Satisfied(w, M)
<1>1. w.mode \in {"all", "any", "expr"} BY WaitingAssumption
<1>2. CASE w.mode = "expr"
  <2>1. L \in w.sat BY <1>2 DEF Satisfied
  <2>2. M \in w.sat BY <1>2, <2>1 DEF PlainWaits
  <2> QED BY <1>2, <2>2 DEF Satisfied
<1>3. CASE w.mode = "all" BY <1>3 DEF Satisfied
<1>4. CASE w.mode = "any" BY <1>4 DEF Satisfied
<1> QED BY <1>1, <1>2, <1>3, <1>4

(* The grants in the state g, v are those in h, w and the n-th of task u.     *)
OneMore(g, v, h, w, o, u, n) ==
  /\ \A t \in Tasks : \A k : k \in 0..g[t][o] /\ (k = 0 => o \in v[t])
       <=> (k \in 0..h[t][o] /\ (k = 0 => o \in w[t])) \/ (t = u /\ k = n)
  /\ ~ (n \in 0..h[u][o] /\ (n = 0 => o \in w[u]))

(* One more grant is counted once more.                                      *)
LEMMA GrantsMore ==
  ASSUME NEW h, NEW w, NEW g, NEW v, NEW o, NEW u \in Tasks, NEW n,
         OneMore(g, v, h, w, o, u, n),
         IsFiniteSet(GrantsIn(g, v, o)) \/ IsFiniteSet(GrantsIn(h, w, o))
  PROVE  /\ Cardinality(GrantsIn(g, v, o)) = Cardinality(GrantsIn(h, w, o)) + 1
         /\ Cardinality(GrantsIn(h, w, o)) \in Nat
         /\ IsFiniteSet(GrantsIn(g, v, o)) /\ IsFiniteSet(GrantsIn(h, w, o))
<1> DEFINE G == GrantsIn(h, w, o)
           H == GrantsIn(g, v, o)
           P(t, k) == k \in 0..h[t][o] /\ (k = 0 => o \in w[t])
           Q(t, k) == k \in 0..g[t][o] /\ (k = 0 => o \in v[t])
<1>1. \A t, k : <<t, k>> \in G <=> t \in Tasks /\ P(t, k) BY GrantsFacts
<1>2. \A t, k : <<t, k>> \in H <=> t \in Tasks /\ Q(t, k) BY GrantsFacts
<1>3. (\A x \in G : \E t, k : x = <<t, k>>) /\ (\A x \in H : \E t, k : x = <<t, k>>)
  BY GrantsFacts
<1>0. IsFiniteSet(H) \/ IsFiniteSet(G) OBVIOUS
<1>10. \A t \in Tasks : \A k : Q(t, k) <=> P(t, k) \/ (t = u /\ k = n) BY DEF OneMore
<1>11. ~ P(u, n) BY DEF OneMore
<1> HIDE DEF G, H, P, Q
<1>4. \A t, k : <<t, k>> \in H <=> <<t, k>> \in G \/ (t = u /\ k = n) BY <1>1, <1>2, <1>10, Zenon
<1>5. <<u, n>> \notin G BY <1>1, <1>11
<1>6. H = G \union {<<u, n>>}
  <2>1. ASSUME NEW x PROVE x \in H <=> x \in G \union {<<u, n>>}
    <3>1. CASE \E t, k : x = <<t, k>>
      <4>1. PICK t, k : x = <<t, k>> BY <3>1
      <4> QED BY <1>4, <4>1
    <3>2. CASE ~ \E t, k : x = <<t, k>> BY <1>3, <3>2
    <3> QED BY <3>1, <3>2
  <2> QED BY <2>1
<1>7. IsFiniteSet(G)
  <2>1. G \subseteq H BY <1>6
  <2> QED BY <1>0, <2>1, FS_Subset
<1>8. Cardinality(G) \in Nat BY <1>7, FS_CardinalityType
<1>9. IsFiniteSet(H) /\ Cardinality(H) = Cardinality(G) + 1
  <2>1. PICK x : x = <<u, n>> OBVIOUS
  <2>2. H = G \union {x} /\ x \notin G BY <1>5, <1>6, <2>1
  <2>3. /\ IsFiniteSet(G \union {x})
        /\ Cardinality(G \union {x}) = IF x \in G THEN Cardinality(G) ELSE Cardinality(G) + 1
    BY <1>7, FS_AddElement, Zenon
  <2> QED BY <2>2, <2>3
<1> QED BY <1>7, <1>8, <1>9 DEF G, H

-----------------------------------------------------------------------------
(* What is known of a task that waits.                                       *)
LEMMA WaitFacts ==
  ASSUME Typed, NEW t \in Tasks, wait[t] # NotWaiting
  PROVE  /\ wait[t] \in Waits /\ wait[t].over \in Seq(Objs)
         /\ \A i \in DOMAIN wait[t].over : wait[t].over[i] \in Objs /\ wait[t].over[i] \in Range(wait[t].over)
         /\ Prospect(t) \subseteq DOMAIN wait[t].over
         /\ Others(t) \subseteq Prospect(t)
<1>1. wait[t] \in Waits BY DEF Typed
<1>2. wait[t].over \in Seq(Objs) BY <1>1, WaitingAssumption
<1> QED BY <1>1, <1>2 DEF Prospect, Others, Range

(* Waiters and grants are told, whatever happens.                            *)
LEMMA ToldStep ==
  ASSUME WaitingInv, Told, [Next]_vars
  PROVE  Told'
<1>1. Typed /\ RunAgrees BY DEF WaitingInv, Control
<1>2. \A t \in Tasks : wait[t] # NotWaiting => run[t] \in {"hold", "ready"} BY <1>1 DEF RunAgrees
<1>3. ASSUME UNCHANGED <<run, wait, won>> PROVE Told' BY <1>3 DEF Told
<1>4. ASSUME NEW w \in Waits, Wait(w) PROVE Told'
  <2>1. CASE WaitSatisfied(w) BY <1>3, <2>1 DEF WaitSatisfied
  <2>2. CASE WaitBlocks(w)
    <3>1. /\ current \in Tasks /\ run' = [run EXCEPT ![current] = "hold"]
          /\ wait' = [wait EXCEPT ![current] = w] /\ won' = won
      BY <1>1, <2>2 DEF WaitBlocks, TaskCode, Typed
    <3>2. run[current] = "work" BY <1>1, <3>1 DEF RunAgrees
    <3>3. w # NotWaiting
      <4>1. w.mode \in {"all", "any", "expr"} BY WaitingAssumption
      <4>2. NotWaiting.mode = "null" BY DEF NotWaiting
      <4> QED BY <4>1, <4>2
    <3>4. won[current] = {} BY <3>1, <3>2 DEF Told
    <3> QED BY <1>1, <3>1, <3>3, <3>4 DEF Told, Typed
  <2> QED BY <1>4, <2>1, <2>2 DEF Wait
<1>5. ASSUME NEW o \in Objs, Raise(o) \/ Reset(o) \/ Destroy(o) \/ \E h \in Tasks : Unlock(o, h)
      PROVE  Told'
  BY <1>3, <1>5 DEF Raise, Reset, Destroy, Unlock
<1>6. CASE OfferRefused \/ OfferThrows \/ WalkEnds
  BY <1>3, <1>6 DEF OfferRefused, OfferThrows, WalkEnds
<1>7. CASE OfferAccepted
  <2>1. PICK t \in Tasks : /\ t = Head(op.rest) /\ wait[t] # NotWaiting /\ run' = Woken(t)
                           /\ wait' = [wait EXCEPT ![t] = NotWaiting]
                           /\ \E C : won' = [won EXCEPT ![t] = C]
    <3>1. op.rest # <<>> BY <1>7 DEF OfferAccepted
    <3>2. Head(op.rest) \in Tasks /\ op.on \in Range(wait[Head(op.rest)].over) BY <3>1, WalkStands
    <3>3. wait[Head(op.rest)] # NotWaiting BY <3>2, NotWaitingFacts
    <3> QED BY <1>7, <3>2, <3>3 DEF OfferAccepted
  <2>2. run[t] \in {"hold", "ready"} BY <1>2, <2>1
  <2>3. run'[t] = "ready" /\ \A u \in Tasks : u # t => run'[u] = run[u]
    BY <1>1, <2>1, <2>2 DEF Woken, Typed
  <2>4. /\ wait'[t] = NotWaiting
        /\ \A u \in Tasks : u # t => wait'[u] = wait[u] /\ won'[u] = won[u]
    BY <1>1, <2>1 DEF Typed
  <2> QED BY <2>3, <2>4 DEF Told
<1>8. ASSUME NEW t \in Tasks, StopTask(t) PROVE Told'
  <2>1. run' = Woken(t) /\ wait' = wait /\ won' = won BY <1>8 DEF StopTask
  <2>2. \A u \in Tasks : run'[u] = IF u = t /\ run[t] = "hold" THEN "ready" ELSE run[u]
    BY <1>1, <2>1 DEF Woken, Typed
  <2> QED BY <2>1, <2>2 DEF Told
<1>9. ASSUME NEW t \in Tasks, Resume(t) PROVE Told'
  <2>1. /\ run' = [run EXCEPT ![t] = "work"] /\ wait' = [wait EXCEPT ![t] = NotWaiting]
        /\ won' = [won EXCEPT ![t] = {}]
    BY <1>9 DEF Resume
  <2> QED BY <1>1, <2>1 DEF Told, Typed
<1>10. ASSUME NEW st \in {"ready", "ended"}, Leave(st) PROVE Told'
  <2>1. /\ current \in Tasks /\ run' = [run EXCEPT ![current] = st] /\ wait' = wait /\ won' = won
    BY <1>1, <1>10 DEF Leave, TaskCode, Typed
  <2>2. run[current] = "work" BY <1>1, <2>1 DEF RunAgrees
  <2> QED BY <1>1, <2>1, <2>2 DEF Told, Typed
<1>11. CASE Yield \/ End BY <1>10, <1>11 DEF Yield, End
<1>12. CASE UNCHANGED vars BY <1>3, <1>12 DEF vars
<1> QED BY <1>4, <1>5, <1>6, <1>7, <1>8, <1>9, <1>11, <1>12 DEF Next

-----------------------------------------------------------------------------
(* The prospects of a wait w, before and after a step that leaves it alone.  *)
LEMMA Rigid ==
  ASSUME NEW t \in Tasks, NEW w, wait[t] = w
  PROVE  /\ Prospect(t) = {i \in DOMAIN w.over : Avail(w.over[i], t)}
         /\ Others(t) = {i \in DOMAIN w.over : Avail(w.over[i], t) /\ w.over[i] # op.on}
         /\ (wait'[t] = w => /\ Prospect(t)' = {i \in DOMAIN w.over : Avail(w.over[i], t)'}
                             /\ Others(t)' = {i \in DOMAIN w.over : Avail(w.over[i], t)' /\ w.over[i] # op'.on})
<1>1. Prospect(t) = {i \in DOMAIN w.over : Avail(w.over[i], t)} BY DEF Prospect
<1>2. Others(t) = {i \in DOMAIN w.over : Avail(w.over[i], t) /\ w.over[i] # op.on} BY <1>1 DEF Others
<1>3. ASSUME wait'[t] = w PROVE Prospect(t)' = {i \in DOMAIN w.over : Avail(w.over[i], t)'}
  BY <1>3 DEF Prospect, Avail
<1>4. ASSUME wait'[t] = w
      PROVE  Others(t)' = {i \in DOMAIN w.over : Avail(w.over[i], t)' /\ w.over[i] # op'.on}
  BY <1>3, <1>4 DEF Others
<1> QED BY <1>1, <1>2, <1>3, <1>4

(* A wait that nothing more became available for stays unsatisfied.          *)
LEMMA LessStays ==
  ASSUME PlainWaits, NEW w \in Waits, NEW L, NEW M, L \subseteq M, M \subseteq DOMAIN w.over,
         w.mode # "expr" \/ \A i \in M \ L : Kind[w.over[i]] # "event",
         ~ Satisfied(w, M)
  PROVE  ~ Satisfied(w, L)
BY SatMore

(* Where less is available, and the same events, a waiter stays patient.     *)
LEMMA PatientKept ==
  ASSUME PlainWaits, Typed, NEW t \in Tasks, wait[t] # NotWaiting, wait'[t] = wait[t],
         op'.call = op.call, op'.on = op.on,
         t \in Range(op'.rest) <=> t \in Range(op.rest),
         \A o \in Objs :
           o \in Range(wait[t].over) /\ (op.on # o \/ op.call # "offer" \/ t \notin Range(op.rest)) =>
             /\ Avail(o, t)' => Avail(o, t)
             /\ Kind[o] = "event" => (Avail(o, t) => Avail(o, t)'),
         Patient(t)
  PROVE  Patient(t)'
<1>1. PICK w \in Waits : wait[t] = w /\ wait'[t] = w BY DEF Typed
<1>2. \A i \in DOMAIN w.over : w.over[i] \in Objs /\ w.over[i] \in Range(w.over)
  BY <1>1, WaitFacts
<1>3. /\ Prospect(t) = {i \in DOMAIN w.over : Avail(w.over[i], t)}
      /\ Others(t) = {i \in DOMAIN w.over : Avail(w.over[i], t) /\ w.over[i] # op.on}
      /\ Prospect(t)' = {i \in DOMAIN w.over : Avail(w.over[i], t)'}
      /\ Others(t)' = {i \in DOMAIN w.over : Avail(w.over[i], t)' /\ w.over[i] # op'.on}
  BY <1>1, Rigid
<1>4. ~ Satisfied(w, Others(t)) => ~ Satisfied(w, Others(t)')
  <2>1. Others(t)' \subseteq Others(t) BY <1>1, <1>2, <1>3
  <2>2. \A i \in Others(t) \ Others(t)' : Kind[w.over[i]] # "event" BY <1>1, <1>2, <1>3
  <2>3. Others(t) \subseteq DOMAIN w.over BY <1>3
  <2> QED BY <2>1, <2>2, <2>3, LessStays
<1>5. ASSUME op.call # "offer" \/ t \notin Range(op.rest)
      PROVE  ~ Satisfied(w, Prospect(t)) => ~ Satisfied(w, Prospect(t)')
  <2>1. Prospect(t)' \subseteq Prospect(t) BY <1>1, <1>2, <1>3, <1>5
  <2>2. \A i \in Prospect(t) \ Prospect(t)' : Kind[w.over[i]] # "event" BY <1>1, <1>2, <1>3, <1>5
  <2>3. Prospect(t) \subseteq DOMAIN w.over BY <1>3
  <2> QED BY <2>1, <2>2, <2>3, LessStays
<1>6. CASE op.call \in Walks /\ t \in Range(op.rest)
  <2>1. CASE op.call = "offer" BY <1>1, <1>4, <1>6, <2>1 DEF Patient
  <2>2. CASE op.call = "withdraw" BY <1>1, <1>5, <1>6, <2>2 DEF Patient
  <2> QED BY <1>6, <2>1, <2>2 DEF Walks
<1>7. CASE ~ (op.call \in Walks /\ t \in Range(op.rest))
  <2>1. op.call # "offer" \/ t \notin Range(op.rest) BY <1>7 DEF Walks
  <2> QED BY <1>1, <1>5, <1>7, <2>1 DEF Patient
<1> QED BY <1>6, <1>7

(* What is available while o is not being offered.                           *)
LEMMA AvailElsewhere ==
  ASSUME NEW o \in Objs, NEW t
  PROVE  /\ ~ (Offered(o) /\ alive[o]) =>
              (Avail(o, t) <=> \/ ~alive[o]
                               \/ Kind[o] \in Resettable /\ raised[o]
                               \/ Kind[o] = "semaphore" /\ counter[o] < Depth
                               \/ Kind[o] = "mutex" /\ counter[o] = 0
                               \/ Kind[o] = "recursive" /\ owner[o] \in {NoTask, t})
         /\ ~ (Offered(o) /\ alive[o])' =>
              (Avail(o, t)' <=> \/ ~alive'[o]
                                \/ Kind[o] \in Resettable /\ raised'[o]
                                \/ Kind[o] = "semaphore" /\ counter'[o] < Depth
                                \/ Kind[o] = "mutex" /\ counter'[o] = 0
                                \/ Kind[o] = "recursive" /\ owner'[o] \in {NoTask, t})
BY DEF Avail, Can, Resettable

(* What will be available once o has been offered to everybody.              *)
LEMMA AvailOffered ==
  ASSUME NEW o \in Objs, NEW t
  PROVE  /\ Offered(o) /\ alive[o] =>
              (Avail(o, t) <=> \/ Kind[o] \in {"notifierOne", "notifierAll", "mutex"} /\ ~op.hit
                               \/ Kind[o] = "semaphore" /\ counter[o] < Depth
                               \/ Kind[o] = "event")
         /\ (Offered(o) /\ alive[o])' =>
              (Avail(o, t)' <=> \/ Kind[o] \in {"notifierOne", "notifierAll", "mutex"} /\ ~op'.hit
                                \/ Kind[o] = "semaphore" /\ counter'[o] < Depth
                                \/ Kind[o] = "event")
BY DEF Avail

(* A walk over the links of o begins: those who wait for it are asked, and   *)
(* the others do not care.                                                   *)
LEMMA PatientAsked ==
  ASSUME PlainWaits, WaitingInv, op = Idle, NEW o \in Objs, alive[o], NEW call \in Walks,
         op' = Offering(o, call), UNCHANGED <<wait, owner>>,
         \A p \in Objs : p # o => /\ alive'[p] = alive[p] /\ raised'[p] = raised[p]
                                  /\ counter'[p] = counter[p],
         call = "withdraw" => \A t \in Tasks : Avail(o, t)' => Avail(o, t),
         AllPatient
  PROVE  AllPatient'
<1> SUFFICES ASSUME NEW t \in Tasks, wait[t] # NotWaiting PROVE Patient(t)' BY DEF AllPatient
<1>1. Typed BY DEF WaitingInv, Control
<1>2. PICK w \in Waits : wait[t] = w /\ wait'[t] = w BY <1>1 DEF Typed
<1>3. \A i \in DOMAIN w.over : w.over[i] \in Objs /\ w.over[i] \in Range(w.over)
  BY <1>1, <1>2, WaitFacts
<1>4. /\ Prospect(t) = {i \in DOMAIN w.over : Avail(w.over[i], t)}
      /\ Prospect(t)' = {i \in DOMAIN w.over : Avail(w.over[i], t)'}
      /\ Others(t)' = {i \in DOMAIN w.over : Avail(w.over[i], t)' /\ w.over[i] # op'.on}
  BY <1>2, Rigid
<1>5. op'.call = call /\ op'.on = o /\ op'.rest = links[o] BY <1>1, OfferingFacts
<1>6. ~ Satisfied(w, Prospect(t))
  <2>1. Patient(t) BY DEF AllPatient
  <2>2. op.call \notin Walks BY IdleState DEF Walks
  <2> QED BY <1>2, <2>1, <2>2 DEF Patient
<1>7. \A p \in Objs : p # o => (Avail(p, t)' <=> Avail(p, t))
  <2>1. \A p : ~Offered(p) BY IdleState
  <2>2. \A p : p # o => ~Offered(p)' BY <1>5 DEF Offered
  <2> QED BY <2>1, <2>2, AvailElsewhere
<1>8. t \in Range(links[o]) <=> o \in Range(w.over) BY <1>2, IdleState DEF Waiters
<1>9. Prospect(t) \subseteq DOMAIN w.over BY <1>4
<1>10. CASE t \notin Range(links[o])
  <2>1. Prospect(t)' = Prospect(t) BY <1>3, <1>4, <1>7, <1>8, <1>10
  <2> QED BY <1>2, <1>5, <1>6, <1>10, <2>1 DEF Patient
<1>11. CASE t \in Range(links[o]) /\ call = "offer"
  <2>1. Others(t)' \subseteq Prospect(t) BY <1>3, <1>4, <1>5, <1>7
  <2>2. \A i \in Prospect(t) \ Others(t)' : w.over[i] = o BY <1>3, <1>4, <1>5, <1>7
  <2>3. Kind[o] # "event" \/ w.mode # "expr" => ~ Satisfied(w, Others(t)')
    BY <1>6, <1>9, <2>1, <2>2, LessStays
  <2> QED BY <1>2, <1>5, <1>11, <2>3 DEF Patient
<1>12. CASE t \in Range(links[o]) /\ call = "withdraw"
  <2>1. Prospect(t)' \subseteq Prospect(t) BY <1>3, <1>4, <1>5, <1>7, <1>12
  <2>2. \A i \in Prospect(t) \ Prospect(t)' : w.over[i] = o BY <1>3, <1>4, <1>5, <1>7
  <2>3. Kind[o] # "event" \/ w.mode # "expr" => ~ Satisfied(w, Prospect(t)')
    BY <1>6, <1>9, <2>1, <2>2, LessStays
  <2> QED BY <1>2, <1>5, <1>12, <2>3 DEF Patient
<1> QED BY <1>10, <1>11, <1>12 DEF Walks

(* Grants that nobody touched.                                               *)
LEMMA ExactKept ==
  ASSUME NEW o, UNCHANGED <<held, won>>, counter'[o] = counter[o],
         Kind[o] = "mutex" => (Offered(o)' /\ ~op'.hit <=> Offered(o) /\ ~op.hit),
         Exact(o)
  PROVE  Exact(o)'
<1>1. Locked(o)' = Locked(o) BY DEF Locked, Grants
<1> QED BY <1>1 DEF Exact

(* raise and reset: whoever waits for o is about to be asked, so that only   *)
(* the others have to be unsatisfied still.                                  *)
LEMMA RaiseAttends ==
  ASSUME PlainWaits, WaitingInv, Attentive, NEW o \in Objs, Raise(o) \/ Reset(o)
  PROVE  Attentive'
<1>1. Typed BY DEF WaitingInv, Control
<1>2. PICK call \in Walks : /\ op' = Offering(o, call)
                            /\ raised' = [raised EXCEPT ![o] = Kind[o] = "event" /\ call = "offer"]
                            /\ call = "withdraw" => Kind[o] \in Resettable
  BY DEF Raise, Reset, Walks
<1>3. /\ op = Idle /\ alive[o] /\ Kind[o] \in Raisables
      /\ UNCHANGED <<counter, owner, alive, wait, won, held>>
  BY DEF Raise, Reset, UserCode, Raisables, Resettable
<1>4. /\ raised'[o] <=> Kind[o] = "event" /\ call = "offer"
      /\ \A p \in Objs : p # o => raised'[p] = raised[p]
  BY <1>1, <1>2 DEF Typed
<1>5. op'.call = call /\ op'.on = o BY <1>1, <1>2, OfferingFacts
<1>6. OnTheWay'
  <2>1. Kind[o] \notin {"mutex", "recursive"} BY <1>3 DEF Raisables
  <2> QED BY <1>4, <1>5, <2>1 DEF OnTheWay
<1>7. AllPatient'
  <2>1. ASSUME call = "withdraw", NEW t \in Tasks PROVE ~ Avail(o, t)'
    <3>1. ~ Offered(o)' BY <1>5, <2>1 DEF Offered
    <3> QED BY <1>2, <1>3, <1>4, <2>1, <3>1, AvailElsewhere DEF Resettable
  <2>2. AllPatient BY DEF Attentive
  <2> QED BY <1>2, <1>3, <1>4, <2>1, <2>2, PatientAsked
<1>8. AllExact'
  <2> SUFFICES ASSUME NEW p \in Objs, alive[p], Kind[p] \in Places PROVE Exact(p)'
    BY <1>3 DEF AllExact
  <2>1. Exact(p) BY DEF Attentive, AllExact
  <2>2. ~Offered(p) /\ ~Offered(p)' BY <1>3, <1>5, IdleState DEF Offered, Places, Raisables
  <2> QED BY <1>3, <2>1, <2>2, ExactKept
<1> QED BY <1>6, <1>7, <1>8 DEF Attentive

(* A destroyed waitable counts as available, and its waiters are told.       *)
LEMMA DestroyAttends ==
  ASSUME PlainWaits, WaitingInv, Attentive, NEW o \in Objs, Destroy(o)
  PROVE  Attentive'
<1>1. Typed BY DEF WaitingInv, Control
<1>2. /\ op = Idle /\ alive[o] /\ alive' = [alive EXCEPT ![o] = FALSE] /\ op' = Offering(o, "offer")
      /\ UNCHANGED <<raised, counter, owner, links, wait, won, held>>
  BY DEF Destroy, UserCode
<1>3. "offer" \in Walks BY DEF Walks
<1>4. op'.call = "offer" /\ op'.on = o /\ op'.rest = links[o] BY <1>1, <1>2, <1>3, OfferingFacts
<1>5. alive'[o] = FALSE /\ \A p \in Objs : p # o => alive'[p] = alive[p] BY <1>1, <1>2 DEF Typed
<1>6. OnTheWay'
  <2>1. \A t \in Tasks : o \in Range(wait'[t].over) => t \in Range(op'.rest)
    BY <1>2, <1>4, IdleState DEF Waiters
  <2> QED BY <1>4, <1>5, <2>1 DEF OnTheWay
<1>7. AllPatient'
  <2>1. AllPatient BY DEF Attentive
  <2> QED BY <1>2, <1>3, <1>5, <2>1, PatientAsked
<1>8. AllExact'
  <2> SUFFICES ASSUME NEW p \in Objs, alive'[p], Kind[p] \in Places PROVE Exact(p)'
    BY DEF AllExact
  <2>0. p # o /\ alive[p] BY <1>5
  <2>1. Exact(p) BY <2>0 DEF Attentive, AllExact
  <2>2. ~Offered(p) /\ ~Offered(p)' BY <1>2, <1>4, <2>0, IdleState DEF Offered
  <2> QED BY <1>2, <2>1, <2>2, ExactKept
<1> QED BY <1>6, <1>7, <1>8 DEF Attentive

(* What is unlocked was locked once more.                                    *)
LEMMA UnlockAttends ==
  ASSUME PlainWaits, WaitingInv, Attentive, NEW o \in Objs, NEW h \in Tasks, Unlock(o, h)
  PROVE  Attentive'
<1> DEFINE call == IF Kind[o] = "recursive" /\ counter[o] > 1 THEN "withdraw" ELSE "offer"
<1>1. Typed BY DEF WaitingInv, Control
<1>2. /\ op = Idle /\ alive[o] /\ Kind[o] \in Lockables /\ held[h][o] > 0 /\ counter[o] > 0
      /\ held' = [held EXCEPT ![h][o] = @ - 1]
      /\ counter' = [counter EXCEPT ![o] = IF Kind[o] = "mutex" \/ (Kind[o] = "recursive" /\ @ = 1)
                                           THEN 1 ELSE @ - 1]
      /\ op' = Offering(o, call)
      /\ UNCHANGED <<raised, owner, links, alive, wait, won>>
  BY DEF Unlock, UserCode
<1>3. /\ call \in Walks
      /\ call = "withdraw" => Kind[o] = "recursive"
  BY DEF Walks
<1> HIDE DEF call
<1>4. held[h] \in [Objs -> Nat] /\ held[h][o] \in Nat /\ counter[o] \in Nat BY <1>1 DEF Typed
<1>5. \A t \in Tasks, p \in Objs :
        held'[t][p] = IF t = h /\ p = o THEN held[h][o] - 1 ELSE held[t][p]
  BY <1>1, <1>2, <1>4 DEF Typed
<1>6. /\ \A p \in Objs : p # o => counter'[p] = counter[p]
      /\ counter'[o] = IF Kind[o] = "mutex" \/ (Kind[o] = "recursive" /\ counter[o] = 1)
                       THEN 1 ELSE counter[o] - 1
  BY <1>1, <1>2, <1>4 DEF Typed
<1>7. op'.call = call /\ op'.on = o /\ op'.rest = links[o] /\ ~op'.hit
  BY <1>1, <1>2, <1>3, OfferingFacts
<1>8. OnTheWay'
  <2>1. \A t \in Tasks : o \in Range(wait'[t].over) => t \in Range(op'.rest)
    BY <1>2, <1>7, IdleState DEF Waiters
  <2>2. Kind[o] # "event" BY <1>2 DEF Lockables
  <2>3. Kind[o] = "mutex" => counter'[o] = 1 BY <1>6
  <2> QED BY <1>7, <2>1, <2>2, <2>3 DEF OnTheWay
<1>9. AllPatient'
  <2>1. ASSUME call = "withdraw", NEW t \in Tasks PROVE Avail(o, t)' => Avail(o, t)
    <3>1. ~ Offered(o)' /\ ~Offered(o) BY <1>2, <1>7, <2>1, IdleState DEF Offered
    <3> QED BY <1>2, <1>3, <2>1, <3>1, AvailElsewhere DEF Resettable
  <2>2. AllPatient BY DEF Attentive
  <2> QED BY <1>2, <1>3, <1>6, <2>1, <2>2, PatientAsked
<1>10. AllExact'
  <2> SUFFICES ASSUME NEW p \in Objs, alive[p], Kind[p] \in Places PROVE Exact(p)'
    BY <1>2 DEF AllExact
  <2>1. Exact(p) /\ PlacesKept(p) BY DEF Attentive, AllExact, WaitingInv, AllPlacesKept
  <2>2. ~Offered(p) BY <1>2, IdleState
  <2>3. CASE p # o
    <3>1. Grants(p)' = Grants(p) BY <1>2, <1>5, <2>3 DEF Grants
    <3>2. ~Offered(p)' BY <1>7, <2>3 DEF Offered
    <3> QED BY <1>6, <2>1, <2>2, <2>3, <3>1, <3>2 DEF Exact, Locked
  <2>4. CASE p = o
    <3> DEFINE n == held[h][o]
               G == GrantsIn(held, won, o)
               H == GrantsIn(held', won', o)
    <3>1. n \in Nat /\ n > 0 BY <1>2, <1>4
    <3>2. Grants(o) = G /\ Grants(o)' = H BY GrantsStates
    <3>3. IsFiniteSet(G) /\ Cardinality(G) = counter[o] /\ counter[o] <= Capacity(o)
      <4> HIDE DEF n, G, H
      <4>1. IsFiniteSet(G) /\ counter[o] <= Capacity(o) BY <2>1, <2>4, <3>2 DEF PlacesKept
      <4>2. Cardinality(G) \in Nat BY <4>1, FS_CardinalityType
      <4>3. counter[o] = Cardinality(G) + 0 BY <2>1, <2>2, <2>4, <3>2 DEF Exact, Locked
      <4> QED BY <4>1, <4>2, <4>3
    <3>4. \A t \in Tasks : \A k : k \in 0..held[t][o] /\ (k = 0 => o \in won[t])
            <=> (k \in 0..held'[t][o] /\ (k = 0 => o \in won'[t])) \/ (t = h /\ k = n)
      <4> TAKE t \in Tasks
      <4> TAKE k
      <4>1. held'[t][o] = IF t = h THEN n - 1 ELSE held[t][o] BY <1>5
      <4>2. held[t][o] \in Nat BY <1>1 DEF Typed
      <4>3. CASE t = h
        <5>1. k \in 0..n <=> k \in 0..(n - 1) \/ k = n BY <3>1
        <5>2. k = n => k # 0 BY <3>1
        <5> HIDE DEF n
        <5> QED BY <1>2, <4>1, <4>3, <5>1, <5>2 DEF n
      <4>4. CASE t # h BY <1>2, <4>1, <4>4
      <4> QED BY <4>3, <4>4
    <3>5. ~ (n \in 0..held'[h][o] /\ (n = 0 => o \in won'[h]))
      <4>1. held'[h][o] = n - 1 BY <1>5
      <4> QED BY <3>1, <4>1
    <3> HIDE DEF n
    <3>6. /\ Cardinality(GrantsIn(held, won, o)) = Cardinality(GrantsIn(held', won', o)) + 1
          /\ Cardinality(GrantsIn(held', won', o)) \in Nat
      <4>1. IsFiniteSet(GrantsIn(held, won, o)) BY <3>3
      <4>2. OneMore(held, won, held', won', o, h, n) BY <3>4, <3>5 DEF OneMore
      <4> HIDE DEF G, H
      <4> QED BY <4>1, <4>2, GrantsMore
    <3> HIDE DEF G, H
    <3>7. Locked(o)' = Cardinality(H) BY <3>2 DEF Locked
    <3>8. Cardinality(H) \in Nat /\ counter[o] = Cardinality(H) + 1 BY <3>3, <3>6 DEF G, H
    <3>9. CASE Kind[o] = "mutex"
      <4>1. counter[o] = 1 BY <1>2, <1>4, <3>3, <3>9 DEF Capacity
      <4>2. counter'[o] = 1 /\ Cardinality(H) = 0 BY <1>6, <3>8, <3>9, <4>1
      <4>3. (Offered(o) /\ ~op.hit)' BY <1>3, <1>7, <3>9 DEF Offered, Walks
      <4> QED BY <2>4, <3>7, <3>9, <4>2, <4>3 DEF Exact
    <3>10. CASE Kind[o] = "semaphore"
      <4>1. counter'[o] = Cardinality(H) BY <1>6, <3>8, <3>10
      <4> QED BY <2>4, <3>7, <3>8, <3>10, <4>1 DEF Exact
    <3> QED BY <2>4, <3>9, <3>10 DEF Places
  <2> QED BY <2>3, <2>4
<1> QED BY <1>8, <1>9, <1>10 DEF Attentive

(* Between operations a waiter is patient when what it waits for is not      *)
(* there.                                                                    *)
LEMMA IdlePatient ==
  ASSUME WaitingInv, op = Idle, NEW t \in Tasks
  PROVE  /\ Patient(t) <=> ~ Satisfied(wait[t], Prospect(t))
         /\ op' = Idle => (Patient(t)' <=> ~ Satisfied(wait'[t], Prospect(t)'))
<1>1. op.call \notin Walks BY IdleState DEF Walks
<1>2. op' = Idle => op'.call \notin Walks BY IdleFacts DEF Walks
<1> QED BY <1>1, <1>2 DEF Patient

(* What a task takes for itself makes nothing available for the others.      *)
LEMMA WaitSatisfiedAttends ==
  ASSUME PlainWaits, WaitingInv, Attentive, NEW w \in Waits, WaitSatisfied(w)
  PROVE  Attentive'
<1> DEFINE lit == Open(w, counter, owner, current)
           S   == Chosen(w, lit)
<1>1. Typed /\ RunAgrees BY DEF WaitingInv, Control
<1>2. /\ op = Idle /\ current \in Tasks
      /\ raised' = RaisedAfter(S) /\ counter' = CounterAfter(counter, S)
      /\ owner' = OwnerAfter(owner, S) /\ held' = Take(current, S)
      /\ UNCHANGED <<alive, wait, won, op>>
  BY <1>1 DEF WaitSatisfied, TaskCode, UserCode, Typed
<1> HIDE DEF S, lit
<1>3. wait[current] = NotWaiting BY <1>1, <1>2 DEF RunAgrees
<1>4. op.call \notin Walks /\ op'.call \notin Walks /\ (\A o : ~Offered(o) /\ ~Offered(o)')
  BY <1>2, IdleState DEF Offered, Walks
<1>5. \A o \in Objs :
        /\ raised'[o] = (raised[o] /\ ~ (o \in S /\ Kind[o] # "event"))
        /\ counter'[o] = IF o \in S /\ Kind[o] \in Lockables THEN counter[o] + 1 ELSE counter[o]
        /\ owner'[o] = IF o \in S /\ Kind[o] = "recursive" THEN current ELSE owner[o]
  BY <1>2 DEF RaisedAfter, CounterAfter, OwnerAfter
<1>6. OnTheWay' BY <1>4 DEF OnTheWay
<1>7. AllPatient'
  <2> SUFFICES ASSUME NEW t \in Tasks, wait[t] # NotWaiting PROVE Patient(t)'
    BY <1>2 DEF AllPatient
  <2>1. t # current /\ current # NoTask BY <1>2, <1>3, WaitingAssumption
  <2>2. ASSUME NEW o \in Objs PROVE /\ Avail(o, t)' => Avail(o, t)
                                    /\ Kind[o] = "event" => (Avail(o, t) => Avail(o, t)')
    <3>1. counter[o] \in Nat /\ Depth \in Nat BY <1>1, WaitingAssumption DEF Typed
    <3>2. counter'[o] = counter[o] \/ counter'[o] = counter[o] + 1 BY <1>5
    <3>3. (counter'[o] < Depth => counter[o] < Depth) /\ (counter'[o] = 0 => counter[o] = 0)
      BY <3>1, <3>2
    <3>4. ~ (Offered(o) /\ alive[o]) /\ ~ (Offered(o) /\ alive[o])' BY <1>4
    <3>5. Avail(o, t) <=> \/ ~alive[o]
                          \/ Kind[o] \in Resettable /\ raised[o]
                          \/ Kind[o] = "semaphore" /\ counter[o] < Depth
                          \/ Kind[o] = "mutex" /\ counter[o] = 0
                          \/ Kind[o] = "recursive" /\ owner[o] \in {NoTask, t}
      BY <3>4, AvailElsewhere
    <3>6. Avail(o, t)' <=> \/ ~alive[o]
                           \/ Kind[o] \in Resettable /\ raised'[o]
                           \/ Kind[o] = "semaphore" /\ counter'[o] < Depth
                           \/ Kind[o] = "mutex" /\ counter'[o] = 0
                           \/ Kind[o] = "recursive" /\ owner'[o] \in {NoTask, t}
      BY <1>2, <3>4, AvailElsewhere
    <3>7. (raised'[o] => raised[o]) /\ (Kind[o] = "event" => (raised'[o] <=> raised[o])) BY <1>5
    <3>8. Kind[o] = "recursive" /\ owner'[o] \in {NoTask, t} => owner[o] \in {NoTask, t}
      BY <1>5, <2>1
    <3> QED BY <3>3, <3>5, <3>6, <3>7, <3>8
  <2>3. Patient(t) BY DEF Attentive, AllPatient
  <2> QED BY <1>1, <1>2, <2>2, <2>3, PatientKept
<1>8. AllExact'
  <2> SUFFICES ASSUME NEW o \in Objs, alive[o], Kind[o] \in Places PROVE Exact(o)'
    BY <1>2 DEF AllExact
  <2>1. Exact(o) /\ PlacesKept(o) BY DEF Attentive, AllExact, WaitingInv, AllPlacesKept
  <2>2. Kind[o] \in Lockables BY DEF Places, Lockables
  <2> DEFINE n == held[current][o] + 1
             G == GrantsIn(held, won, o)
             H == GrantsIn(held', won', o)
  <2>3. Grants(o) = G /\ Grants(o)' = H BY GrantsStates
  <2>4. IsFiniteSet(G) /\ Cardinality(G) \in Nat /\ counter[o] = Cardinality(G)
    <3> HIDE DEF n, G, H
    <3>1. IsFiniteSet(G) BY <2>1, <2>3 DEF PlacesKept
    <3>2. Cardinality(G) \in Nat BY <3>1, FS_CardinalityType
    <3>3. counter[o] = Cardinality(G) + 0 BY <1>4, <2>1, <2>3 DEF Exact, Locked
    <3> QED BY <3>1, <3>2, <3>3
  <2>5. CASE o \in S
    <3>1. \A t \in Tasks : held'[t][o] = IF t = current THEN held[t][o] + 1 ELSE held[t][o]
      BY <1>1, <1>2, <2>2, <2>5, TakeFacts
    <3>2. \A t \in Tasks : held[t][o] \in Nat BY <1>1 DEF Typed
    <3>3. OneMore(held', won', held, won, o, current, n)
      <4>1. ASSUME NEW t \in Tasks, NEW k
            PROVE  k \in 0..held'[t][o] /\ (k = 0 => o \in won'[t])
              <=> (k \in 0..held[t][o] /\ (k = 0 => o \in won[t])) \/ (t = current /\ k = n)
        <5>1. CASE t = current
          <6>1. held'[t][o] = n BY <3>1, <5>1
          <6>2. k \in 0..n <=> k \in 0..held[t][o] \/ k = n BY <3>2, <5>1
          <6>3. k = n => k # 0 BY <1>2, <3>2
          <6> HIDE DEF n
          <6> QED BY <1>2, <5>1, <6>1, <6>2, <6>3
        <5>2. CASE t # current BY <1>2, <3>1, <5>2
        <5> QED BY <5>1, <5>2
      <4>2. n \notin 0..held[current][o] BY <1>2, <3>2
      <4> HIDE DEF n
      <4> QED BY <4>1, <4>2 DEF OneMore
    <3> HIDE DEF n
    <3>4. Cardinality(GrantsIn(held', won', o)) = Cardinality(GrantsIn(held, won, o)) + 1
      BY <1>2, <2>4, <3>3, GrantsMore
    <3>5. counter'[o] = Cardinality(H)
      <4>1. counter'[o] = counter[o] + 1 BY <1>5, <2>2, <2>5
      <4> QED BY <2>4, <3>4, <4>1
    <3>6. Cardinality(H) \in Nat BY <2>4, <3>4
    <3> HIDE DEF G, H
    <3> QED BY <1>4, <2>3, <3>5, <3>6 DEF Exact, Locked
  <2>6. CASE o \notin S
    <3>1. counter'[o] = counter[o] BY <1>5, <2>6
    <3>2. \A t \in Tasks : held'[t][o] = held[t][o] BY <1>1, <1>2, <2>6, TakeFacts
    <3>3. G = H BY <1>2, <3>2 DEF GrantsIn
    <3> HIDE DEF G, H, n
    <3> QED BY <1>4, <2>1, <2>3, <3>1, <3>3 DEF Exact, Locked
  <2> QED BY <2>5, <2>6
<1> QED BY <1>6, <1>7, <1>8 DEF Attentive

(* Whatever leaves the waitables alone, between operations.                  *)
LEMMA PatientUntouched ==
  ASSUME PlainWaits, Typed, NEW t \in Tasks, wait[t] # NotWaiting, wait'[t] = wait[t],
         UNCHANGED <<raised, counter, owner, alive, op>>, Patient(t)
  PROVE  Patient(t)'
<1>1. \A o \in Objs : Avail(o, t)' <=> Avail(o, t) BY DEF Avail, Can, Offered
<1> QED BY <1>1, PatientKept

(* A task goes to sleep only if its wait cannot be satisfied.                *)
LEMMA WaitBlocksAttends ==
  ASSUME PlainWaits, WaitingInv, Attentive, NEW w \in Waits, WaitBlocks(w)
  PROVE  Attentive'
<1>1. Typed BY DEF WaitingInv, Control
<1>2. /\ op = Idle /\ current \in Tasks /\ wait' = [wait EXCEPT ![current] = w]
      /\ UNCHANGED <<raised, counter, owner, alive, won, held, op>>
      /\ ~ Satisfied(w, Open(w, counter, owner, current))
  BY <1>1 DEF WaitBlocks, TaskCode, UserCode, Typed
<1>3. op.call \notin Walks /\ op'.call \notin Walks /\ (\A o : ~Offered(o) /\ ~Offered(o)')
  BY <1>2, IdleState DEF Offered, Walks
<1>4. OnTheWay' BY <1>3 DEF OnTheWay
<1>5. AllPatient'
  <2> SUFFICES ASSUME NEW t \in Tasks, wait'[t] # NotWaiting PROVE Patient(t)'
    BY DEF AllPatient
  <2>1. CASE t = current
    <3>1. wait'[t] = w BY <1>1, <1>2, <2>1 DEF Typed
    <3>2. Prospect(t)' = Open(w, counter, owner, t) BY <1>2, <1>3, <3>1 DEF Prospect, Avail, Open, Can
    <3>3. ~ Satisfied(w, Prospect(t)') BY <1>2, <2>1, <3>2
    <3> QED BY <1>2, <3>1, <3>3, IdlePatient
  <2>2. CASE t # current
    <3>1. wait'[t] = wait[t] BY <1>1, <1>2, <2>2 DEF Typed
    <3>2. Patient(t) BY <3>1 DEF Attentive, AllPatient
    <3> QED BY <1>1, <1>2, <3>1, <3>2, PatientUntouched
  <2> QED BY <2>1, <2>2
<1>6. AllExact'
  <2> SUFFICES ASSUME NEW p \in Objs, alive[p], Kind[p] \in Places PROVE Exact(p)'
    BY <1>2 DEF AllExact
  <2>1. Exact(p) BY DEF Attentive, AllExact
  <2> QED BY <1>2, <1>3, <2>1, ExactKept
<1> QED BY <1>4, <1>5, <1>6 DEF Attentive

(* A step that touches neither waitables nor waits.                          *)
LEMMA UntouchedAttends ==
  ASSUME PlainWaits, WaitingInv, Attentive,
         UNCHANGED <<raised, counter, owner, alive, wait, won, held, op>>
  PROVE  Attentive'
<1>1. Typed BY DEF WaitingInv, Control
<1>2. OnTheWay' BY DEF Attentive, OnTheWay
<1>3. AllPatient'
  <2> SUFFICES ASSUME NEW t \in Tasks, wait[t] # NotWaiting PROVE Patient(t)'
    BY DEF AllPatient
  <2>1. Patient(t) BY DEF Attentive, AllPatient
  <2> QED BY <1>1, <2>1, PatientUntouched
<1>4. AllExact'
  <2> SUFFICES ASSUME NEW p \in Objs, alive[p], Kind[p] \in Places PROVE Exact(p)'
    BY DEF AllExact
  <2>1. Exact(p) BY DEF Attentive, AllExact
  <2> QED BY <2>1, ExactKept DEF Offered
<1> QED BY <1>2, <1>3, <1>4 DEF Attentive

(* A task that comes back holds as its own what was granted it in its sleep. *)
LEMMA ResumeAttends ==
  ASSUME PlainWaits, WaitingInv, NobodyStopped, Attentive, NEW t \in Tasks, Resume(t)
  PROVE  Attentive'
<1>1. Typed BY DEF WaitingInv, Control
<1>2. /\ op = Idle /\ wait' = [wait EXCEPT ![t] = NotWaiting]
      /\ held' = Take(t, won[t]) /\ won' = [won EXCEPT ![t] = {}]
      /\ UNCHANGED <<raised, counter, owner, alive, op>>
  BY DEF Resume, UserCode, NobodyStopped
<1>3. op.call \notin Walks /\ op'.call \notin Walks /\ (\A o : ~Offered(o) /\ ~Offered(o)')
  BY <1>2, IdleState DEF Offered, Walks
<1>4. OnTheWay' BY <1>3 DEF OnTheWay
<1>5. AllPatient'
  <2> SUFFICES ASSUME NEW u \in Tasks, wait'[u] # NotWaiting PROVE Patient(u)'
    BY DEF AllPatient
  <2>1. u # t /\ wait'[u] = wait[u] BY <1>1, <1>2 DEF Typed
  <2>2. Patient(u) BY <2>1 DEF Attentive, AllPatient
  <2> QED BY <1>1, <1>2, <2>1, <2>2, PatientUntouched
<1>6. AllExact'
  <2> SUFFICES ASSUME NEW o \in Objs, alive[o], Kind[o] \in Places PROVE Exact(o)'
    BY <1>2 DEF AllExact
  <2>1. Exact(o) /\ PlacesKept(o) BY DEF Attentive, AllExact, WaitingInv, AllPlacesKept
  <2>2. Kind[o] \in Lockables BY DEF Places, Lockables
  <2>3. /\ \A u \in Tasks : held'[u][o] = IF u = t /\ o \in won[t] THEN held[u][o] + 1 ELSE held[u][o]
        /\ \A u \in Tasks : held[u][o] \in Nat
    BY <1>1, <1>2, <2>2, TakeFacts DEF Typed
  <2>4. won'[t] = {} /\ \A u \in Tasks : u # t => won'[u] = won[u] BY <1>1, <1>2 DEF Typed
  <2>5. IsFiniteSet(GrantsIn(held, won, o)) BY <2>1, GrantsStates DEF PlacesKept
  <2>6. Locked(o)' = Locked(o)
    <3>1. CASE o \in won[t]
      <4> DEFINE n == held[t][o] + 1
                 z == 0
      <4>1. OneMore(held, won, held, won', o, t, z)
        <5>1. ASSUME NEW u \in Tasks, NEW k
              PROVE  k \in 0..held[u][o] /\ (k = 0 => o \in won[u])
                <=> (k \in 0..held[u][o] /\ (k = 0 => o \in won'[u])) \/ (u = t /\ k = z)
          <6>1. CASE u = t
            <7>1. 0 \in 0..held[u][o] BY <2>3
            <7> QED BY <2>4, <3>1, <6>1, <7>1
          <6>2. CASE u # t BY <2>4, <6>2
          <6> QED BY <6>1, <6>2
        <5>2. o \notin won'[t] BY <2>4
        <5> QED BY <5>1, <5>2 DEF OneMore
      <4>2. OneMore(held', won', held, won', o, t, n)
        <5>1. ASSUME NEW u \in Tasks, NEW k
              PROVE  k \in 0..held'[u][o] /\ (k = 0 => o \in won'[u])
                <=> (k \in 0..held[u][o] /\ (k = 0 => o \in won'[u])) \/ (u = t /\ k = n)
          <6>1. CASE u = t
            <7>1. held'[u][o] = n BY <2>3, <3>1, <6>1
            <7>2. k \in 0..n <=> k \in 0..held[u][o] \/ k = n BY <2>3, <6>1
            <7>3. k = n => k # 0 BY <2>3
            <7> HIDE DEF n
            <7> QED BY <6>1, <7>1, <7>2, <7>3
          <6>2. CASE u # t BY <2>3, <6>2
          <6> QED BY <6>1, <6>2
        <5>2. n \notin 0..held[t][o] BY <2>3
        <5> HIDE DEF n
        <5> QED BY <5>1, <5>2 DEF OneMore
      <4> HIDE DEF n, z
      <4>3. /\ Cardinality(GrantsIn(held, won, o)) = Cardinality(GrantsIn(held, won', o)) + 1
            /\ IsFiniteSet(GrantsIn(held, won', o))
        BY <2>5, <4>1, GrantsMore
      <4>4. Cardinality(GrantsIn(held', won', o)) = Cardinality(GrantsIn(held, won', o)) + 1
        BY <4>2, <4>3, GrantsMore
      <4>5. Cardinality(GrantsIn(held', won', o)) = Cardinality(GrantsIn(held, won, o))
        BY <4>3, <4>4
      <4> QED BY <4>5, GrantsStates DEF Locked
    <3>2. CASE o \notin won[t]
      <4>1. \A u \in Tasks : held'[u][o] = held[u][o] BY <2>3, <3>2
      <4>2. \A u \in Tasks : o \in won'[u] <=> o \in won[u] BY <2>4, <3>2
      <4>3. \A u \in Tasks : {k \in 0..held'[u][o] : k = 0 => o \in won'[u]}
                             = {k \in 0..held[u][o] : k = 0 => o \in won[u]}
        BY <4>1, <4>2
      <4>4. Grants(o)' = Grants(o) BY <4>3 DEF Grants
      <4> QED BY <4>4 DEF Locked
    <3> QED BY <3>1, <3>2
  <2> QED BY <1>2, <1>3, <2>1, <2>6 DEF Exact
<1> QED BY <1>4, <1>5, <1>6 DEF Attentive

-----------------------------------------------------------------------------
(* What the asked task counts as available: what is offered, and what is.    *)
LEMMA AskedFacts ==
  ASSUME PlainWaits, WaitingInv, op.rest # <<>>, NEW t, t = Head(op.rest), NEW w, wait[t] = w
  PROVE  /\ w \in Waits /\ t \in Tasks /\ op.on \in Objs /\ op.call \in Walks
         /\ Lit(t) \subseteq DOMAIN w.over
         /\ \A i \in DOMAIN w.over : w.over[i] \in Objs /\ w.over[i] \in Range(w.over)
         /\ \A i \in DOMAIN w.over : w.over[i] # op.on =>
              Kind[w.over[i]] # "recursive" /\ (i \in Lit(t) <=> Avail(w.over[i], t))
         /\ \E k \in DOMAIN w.over : /\ w.over[k] = op.on
                                     /\ \A i \in DOMAIN w.over : w.over[i] = op.on => i = k
                                     /\ op.call = "offer" => k \in Lit(t)
                                     /\ Kind[op.on] = "recursive" => DOMAIN w.over = {k} /\ w.mode # "expr"
<1>1. Typed BY DEF WaitingInv, Control
<1>2. /\ op.call \in Walks /\ op.on \in Objs /\ t \in Tasks /\ w \in Waits /\ op.on \in Range(w.over)
  BY WalkStands
<1>3. w.over \in Seq(Objs) BY <1>2, WaitingAssumption
<1>4. PICK k \in DOMAIN w.over : w.over[k] = op.on BY <1>2 DEF Range
<1>5. \A i \in DOMAIN w.over : w.over[i] = op.on => i = k
  BY <1>2, <1>4 DEF PlainWaits, IsInjective
<1>6. \A i \in DOMAIN w.over : w.over[i] \in Objs /\ w.over[i] \in Range(w.over) BY <1>3 DEF Range
<1> DEFINE D    == {i \in DOMAIN w.over : w.over[i] = op.on}
           from == Min(D)
           free == Open(w, LentCounter, LentOwner(t), current)
<1>7. D = {k} BY <1>4, <1>5
<1>8. from = k
  <2>1. D \in SUBSET Nat /\ D # {} BY <1>3, <1>7
  <2>2. from \in D BY <2>1, MinFacts
  <2> QED BY <1>7, <2>2
<1>9. Lit(t) = free \union (IF op.call = "offer" THEN {from} ELSE {}) BY DEF Lit
<1>10. free \subseteq DOMAIN w.over BY <1>2, OpenFacts
<1>11. ASSUME NEW i \in DOMAIN w.over, Kind[w.over[i]] = "recursive"
       PROVE  w.mode # "expr" /\ DOMAIN w.over = {k}
  <2>1. w.mode # "expr" /\ Len(w.over) = 1 BY <1>2, <1>11 DEF PlainWaits
  <2>2. DOMAIN w.over = 1..1 BY <1>3, <2>1
  <2> QED BY <1>4, <2>1, <2>2
<1>12. ASSUME NEW i \in DOMAIN w.over, w.over[i] # op.on
       PROVE  Kind[w.over[i]] # "recursive" /\ (i \in Lit(t) <=> Avail(w.over[i], t))
  <2>1. Kind[w.over[i]] # "recursive"
    <3>1. i # k BY <1>4, <1>12
    <3> QED BY <1>11, <3>1
  <2>2. i \in Lit(t) <=> i \in free
    <3> HIDE DEF free
    <3> QED BY <1>4, <1>8, <1>9, <1>12
  <2> DEFINE p == w.over[i]
  <2>3. p \in Objs /\ p # op.on BY <1>6, <1>12
  <2>4. i \in free <=> ~alive[p] \/ Can(p, LentCounter, LentOwner(t), current) BY DEF Open
  <2>5. Kind[p] # "recursive" BY <2>1
  <2> HIDE DEF p, free
  <2>6. LentCounter[p] = counter[p] BY <1>1, <1>2, <2>3, LentFacts
  <2>7. Can(p, LentCounter, LentOwner(t), current) <=> Can(p, counter, owner, t)
    BY <2>5, <2>6 DEF Can
  <2>8. Avail(p, t) <=> ~alive[p] \/ Can(p, counter, owner, t) BY <2>3 DEF Avail, Offered
  <2> QED BY <2>1, <2>2, <2>4, <2>7, <2>8 DEF p
<1>13. op.call = "offer" => k \in Lit(t)
  <2> HIDE DEF from, free
  <2> QED BY <1>8, <1>9
<1>14. Lit(t) \subseteq DOMAIN w.over
  <2> HIDE DEF from, free
  <2> QED BY <1>4, <1>8, <1>9, <1>10
<1>15. Kind[op.on] = "recursive" => DOMAIN w.over = {k} /\ w.mode # "expr" BY <1>4, <1>11
<1> QED BY <1>2, <1>4, <1>5, <1>6, <1>12, <1>13, <1>14, <1>15

(* A withdrawal lends nothing.                                               *)
LEMMA AskedWithdrawn ==
  ASSUME PlainWaits, WaitingInv, op.rest # <<>>, NEW t, t = Head(op.rest),
         op.call = "withdraw", wait[t].mode = "expr"
  PROVE  Lit(t) = Prospect(t)
<1>1. PICK w : wait[t] = w OBVIOUS
<1>2. Typed BY DEF WaitingInv, Control
<1>3. /\ w \in Waits /\ t \in Tasks /\ op.on \in Objs
      /\ \A i \in DOMAIN w.over : w.over[i] \in Objs
      /\ Lit(t) \subseteq DOMAIN w.over
      /\ \A i \in DOMAIN w.over : w.over[i] # op.on => (i \in Lit(t) <=> Avail(w.over[i], t))
  BY <1>1, AskedFacts
<1>4. Kind[op.on] # "recursive" BY <1>1, AskedFacts
<1>5. Lit(t) = Open(w, LentCounter, LentOwner(t), current) BY <1>1 DEF Lit
<1>6. ASSUME NEW i \in DOMAIN w.over, w.over[i] = op.on
      PROVE  i \in Lit(t) <=> Avail(w.over[i], t)
  <2>1. LentCounter[op.on] = counter[op.on] BY <1>2, <1>3, LentFacts
  <2>2. i \in Lit(t) <=> ~alive[op.on] \/ Can(op.on, LentCounter, LentOwner(t), current)
    BY <1>5, <1>6 DEF Open
  <2>3. Can(op.on, LentCounter, LentOwner(t), current) <=> Can(op.on, counter, owner, t)
    BY <1>4, <2>1 DEF Can
  <2>4. Avail(op.on, t) <=> ~alive[op.on] \/ Can(op.on, counter, owner, t) BY DEF Avail, Offered
  <2> QED BY <1>6, <2>2, <2>3, <2>4
<1>7. \A i \in DOMAIN w.over : i \in Lit(t) <=> i \in Prospect(t)
  BY <1>1, <1>3, <1>6, Rigid
<1>8. Prospect(t) \subseteq DOMAIN w.over BY <1>1, <1>3, Rigid
<1> QED BY <1>3, <1>7, <1>8

(* What is lent changes what is available nowhere else, and not where it is  *)
(* on offer.                                                                 *)
LEMMA LentElsewhere ==
  ASSUME WaitingInv, op.rest # <<>>, NEW t, t = Head(op.rest), NEW u,
         owner' = LentOwner(t), UNCHANGED <<raised, counter, alive>>,
         op'.call = op.call, op'.on = op.on, op'.hit = op.hit, NEW o \in Objs
  PROVE  Avail(o, u)' <=> Avail(o, u)
<1>1. Typed BY DEF WaitingInv, Control
<1>2. Offered(o)' <=> Offered(o) BY DEF Offered
<1>3. CASE Offered(o) /\ alive[o] BY <1>2, <1>3 DEF Avail
<1>4. CASE ~ (Offered(o) /\ alive[o])
  <2>1. owner'[o] = owner[o] BY <1>1, <1>4 DEF LentOwner, Offered, Typed
  <2> QED BY <1>2, <1>4, <2>1 DEF Avail, Can
<1> QED BY <1>3, <1>4

(* A waiter that refuses what is offered would not be satisfied by it: in    *)
(* its prospects there is nothing that it was not asked with.                *)
LEMMA OfferRefusedAttends ==
  ASSUME PlainWaits, WaitingInv, Attentive, OfferRefused
  PROVE  Attentive'
<1> DEFINE t == Head(op.rest)
<1>1. Typed BY DEF WaitingInv, Control
<1>2. /\ op.rest # <<>> /\ Withdrawing /\ ~ Accepts(t) /\ owner' = LentOwner(t)
      /\ op' = [op EXCEPT !.rest = Tail(@)]
      /\ UNCHANGED <<raised, counter, alive, wait, won, held>>
  BY DEF OfferRefused
<1>3. /\ op.call \in Walks /\ op.on \in Objs /\ t \in Tasks /\ t \in Range(op.rest)
      /\ Range(Tail(op.rest)) = Range(op.rest) \ {t}
  BY <1>2, WalkStands
<1>4. op'.call = op.call /\ op'.on = op.on /\ op'.hit = op.hit /\ op'.rest = Tail(op.rest)
  BY <1>1, <1>2 DEF Typed, OpRecords
<1>5. PICK k : k = t OBVIOUS
<1>6. PICK w : wait[k] = w /\ wait'[k] = w BY <1>2
<1>7. /\ w \in Waits
      /\ Lit(k) \subseteq DOMAIN w.over
      /\ \A i \in DOMAIN w.over : w.over[i] \in Objs /\ w.over[i] \in Range(w.over)
      /\ \A i \in DOMAIN w.over : w.over[i] # op.on => (i \in Lit(k) <=> Avail(w.over[i], k))
  BY <1>2, <1>5, <1>6, AskedFacts
<1>8. PICK j \in DOMAIN w.over :
        /\ w.over[j] = op.on
        /\ \A i \in DOMAIN w.over : w.over[i] = op.on => i = j
        /\ op.call = "offer" => j \in Lit(k)
        /\ Kind[op.on] = "recursive" => DOMAIN w.over = {j} /\ w.mode # "expr"
  BY <1>2, <1>5, <1>6, AskedFacts
<1>9. w.mode \in {"all", "any", "expr"} BY <1>7, WaitingAssumption
<1>10. op.call = "offer" => Kind[op.on] # "recursive"
  <2> SUFFICES ASSUME op.call = "offer", Kind[op.on] = "recursive" PROVE Satisfied(w, Lit(k))
    BY <1>2, <1>5, <1>6 DEF Accepts
  <2>1. Lit(k) = DOMAIN w.over /\ j \in Lit(k) BY <1>7, <1>8
  <2> QED BY <1>8, <1>9, <2>1 DEF Satisfied
<1>11. \A u \in Tasks, o \in Objs : Avail(o, u)' <=> Avail(o, u)
  BY <1>2, <1>4, LentElsewhere
<1>12. OnTheWay'
  <2>1. OnTheWay BY DEF Attentive
  <2> QED BY <1>2, <1>4, <1>10, <2>1 DEF OnTheWay
<1>13. AllPatient'
  <2> SUFFICES ASSUME NEW u \in Tasks, wait[u] # NotWaiting PROVE Patient(u)'
    BY <1>2 DEF AllPatient
  <2>1. Patient(u) BY DEF Attentive, AllPatient
  <2>2. CASE u # k
    <3>1. u \in Range(op'.rest) <=> u \in Range(op.rest) BY <1>3, <1>4, <1>5, <2>2
    <3> QED BY <1>1, <1>2, <1>4, <1>11, <2>1, <3>1, PatientKept
  <2>3. CASE u = k
    <3>1. u \notin Range(op'.rest) BY <1>3, <1>4, <1>5, <2>3
    <3>2. /\ Prospect(k) = {i \in DOMAIN w.over : Avail(w.over[i], k)}
          /\ Prospect(k)' = {i \in DOMAIN w.over : Avail(w.over[i], k)'}
      BY <1>3, <1>5, <1>6, Rigid
    <3>3. Prospect(k)' = Prospect(k) BY <1>3, <1>5, <1>7, <1>11, <3>2
    <3>4. ~ Satisfied(w, Prospect(k)')
      <4>1. CASE op.call = "offer"
        <5>1. ~ Satisfied(w, Lit(k)) BY <1>2, <1>5, <1>6, <4>1 DEF Accepts
        <5>2. Prospect(k) \subseteq Lit(k) BY <1>7, <1>8, <3>2, <4>1
        <5>3. \A i \in Lit(k) \ Prospect(k) : i = j BY <1>7, <1>8, <3>2
        <5>4. Kind[op.on] = "event" => j \in Prospect(k)
          <6>1. Kind[op.on] = "event" => Avail(op.on, k) BY <4>1 DEF Avail, Offered
          <6> QED BY <1>8, <3>2, <6>1
        <5>5. \A i \in Lit(k) \ Prospect(k) : Kind[w.over[i]] # "event" BY <1>8, <5>3, <5>4
        <5> QED BY <1>7, <3>3, <5>1, <5>2, <5>5, LessStays
      <4>2. CASE op.call = "withdraw" /\ (Kind[op.on] # "event" \/ w.mode # "expr")
        <5>1. ~ Satisfied(w, Prospect(k))
          BY <1>3, <1>5, <1>6, <2>1, <2>3, <4>2 DEF Patient
        <5> QED BY <3>3, <5>1
      <4>3. CASE op.call = "withdraw" /\ w.mode = "expr"
        <5>1. ~ Satisfied(w, Lit(k)) BY <1>2, <1>5, <1>6, <4>3 DEF Accepts
        <5>2. Lit(k) = Prospect(k) BY <1>2, <1>5, <1>6, <4>3, AskedWithdrawn
        <5> QED BY <3>3, <5>1, <5>2
      <4> QED BY <1>3, <4>1, <4>2, <4>3 DEF Walks
    <3> QED BY <1>6, <2>3, <3>1, <3>4 DEF Patient
  <2> QED BY <2>2, <2>3
<1>14. AllExact'
  <2> SUFFICES ASSUME NEW p \in Objs, alive[p], Kind[p] \in Places PROVE Exact(p)'
    BY <1>2 DEF AllExact
  <2>1. Exact(p) BY DEF Attentive, AllExact
  <2> QED BY <1>2, <1>4, <2>1, ExactKept DEF Offered
<1> QED BY <1>12, <1>13, <1>14 DEF Attentive

(* What an accepted offer takes: what was offered, if it lives, and nothing  *)
(* that is recursive besides.                                                *)
LEMMA AcceptedTakes ==
  ASSUME PlainWaits, WaitingInv, Attentive, op.rest # <<>>, Withdrawing,
         NEW t, t = Head(op.rest), Accepts(t)
  PROVE  /\ \A o \in Chosen(wait[t], Lit(t)) : o # op.on => Kind[o] # "recursive"
         /\ op.call = "offer" /\ alive[op.on] => op.on \in Chosen(wait[t], Lit(t))
         /\ Kind[op.on] \in Places /\ op.on \in Chosen(wait[t], Lit(t)) => op.call = "offer"
<1>1. PICK w : wait[t] = w OBVIOUS
<1>2. /\ w \in Waits /\ t \in Tasks /\ op.on \in Objs /\ op.call \in Walks
      /\ Lit(t) \subseteq DOMAIN w.over
      /\ \A i \in DOMAIN w.over : w.over[i] \in Objs /\ w.over[i] \in Range(w.over)
      /\ \A i \in DOMAIN w.over : w.over[i] # op.on =>
           Kind[w.over[i]] # "recursive" /\ (i \in Lit(t) <=> Avail(w.over[i], t))
  BY <1>1, AskedFacts
<1>3. PICK j \in DOMAIN w.over :
        /\ w.over[j] = op.on
        /\ \A i \in DOMAIN w.over : w.over[i] = op.on => i = j
        /\ op.call = "offer" => j \in Lit(t)
        /\ Kind[op.on] = "recursive" => DOMAIN w.over = {j} /\ w.mode # "expr"
  BY <1>1, AskedFacts
<1>4. Satisfied(w, Lit(t)) BY <1>1 DEF Accepts
<1>5. w.mode \in {"all", "any", "expr"} BY <1>2, WaitingAssumption
<1>6. ASSUME NEW o \in Chosen(w, Lit(t)), o # op.on PROVE Kind[o] # "recursive"
  <2>1. \E i \in Lit(t) : w.over[i] = o BY <1>2, <1>4, ChosenFacts
  <2> QED BY <1>2, <1>6, <2>1
<1>7. ASSUME op.call = "offer", alive[op.on] PROVE op.on \in Chosen(w, Lit(t))
  <2>1. CASE w.mode # "any" BY <1>2, <1>3, <1>7, <2>1 DEF Chosen
  <2>2. CASE w.mode = "any"
    <3>1. wait[t] # NotWaiting BY <1>1, <1>2, WaitingAssumption DEF NotWaiting
    <3>2. Patient(t) BY <1>2, <3>1 DEF Attentive, AllPatient
    <3>3. t \in Range(op.rest) BY WalkStands
    <3>4. ~ Satisfied(w, Others(t)) BY <1>1, <1>2, <1>7, <2>2, <3>2, <3>3 DEF Patient
    <3>5. Others(t) = {} BY <2>2, <3>4 DEF Satisfied
    <3>6. \A i \in Lit(t) : i = j
      <4>1. Others(t) = {i \in DOMAIN w.over : Avail(w.over[i], t) /\ w.over[i] # op.on}
        BY <1>1, <1>2, Rigid
      <4> QED BY <1>2, <1>3, <3>5, <4>1
    <3>7. Lit(t) = {j} BY <1>3, <1>7, <3>6
    <3>8. Min(Lit(t)) = j
      <4>1. w.over \in Seq(Objs) BY <1>2, WaitingAssumption
      <4>2. Lit(t) \in SUBSET Nat /\ Lit(t) # {} BY <1>2, <3>7, <4>1
      <4>3. Min(Lit(t)) \in Lit(t) BY <4>2, MinFacts
      <4> QED BY <3>7, <4>3
    <3> QED BY <1>2, <1>3, <1>7, <2>2, <3>8 DEF Chosen
  <2> QED BY <2>1, <2>2
<1>8. ASSUME Kind[op.on] \in Places, op.on \in Chosen(w, Lit(t)) PROVE op.call = "offer"
  BY <1>1, <1>8, AcceptTakes
<1> QED BY <1>1, <1>6, <1>7, <1>8

(* A waiter that accepts takes the place that was on offer, and whatever     *)
(* else it takes is there for nobody any more.  Those whom the walk leaves   *)
(* out now have nothing to expect of it.                                     *)
LEMMA OfferAcceptedAttends ==
  ASSUME PlainWaits, WaitingInv, Told, Attentive, OfferAccepted
  PROVE  Attentive'
<1> DEFINE t == Head(op.rest)
           C == Chosen(wait[t], Lit(t))
<1>1. Typed /\ HitEnds BY DEF WaitingInv, Control, Walking
<1>2. /\ op.rest # <<>> /\ Withdrawing /\ Accepts(t)
      /\ raised' = RaisedAfter(C \ {op.on})
      /\ counter' = CounterAfter(LentCounter, C \ {op.on})
      /\ owner' = OwnerAfter(LentOwner(t), C \ {op.on})
      /\ wait' = [wait EXCEPT ![t] = NotWaiting]
      /\ won' = [won EXCEPT ![t] = C]
      /\ op' = [op EXCEPT !.hit = TRUE,
                          !.rest = IF op.call = "withdraw" \/ GoesOn(LentCounter)
                                   THEN Tail(@) ELSE <<>>]
      /\ UNCHANGED <<alive, held>>
  BY DEF OfferAccepted, Taken
<1>3. /\ op.call \in Walks /\ op.on \in Objs /\ t \in Tasks /\ t \in Range(op.rest)
      /\ wait[t] \in Waits /\ op.on \in Range(wait[t].over)
      /\ Range(Tail(op.rest)) = Range(op.rest) \ {t}
  BY <1>2, WalkStands
<1>4. /\ \A o \in C : o # op.on => Kind[o] # "recursive"
      /\ op.call = "offer" /\ alive[op.on] => op.on \in C
      /\ Kind[op.on] \in Places /\ op.on \in C => op.call = "offer"
  BY <1>2, AcceptedTakes
<1>5. C \subseteq Objs BY DEF Chosen
<1>6. wait[t] # NotWaiting BY <1>3, NotWaitingFacts
<1> HIDE DEF t, C
<1>7. /\ op'.call = op.call /\ op'.on = op.on /\ op'.hit = TRUE
      /\ op'.rest = IF op.call = "withdraw" \/ GoesOn(LentCounter) THEN Tail(op.rest) ELSE <<>>
  <2>1. op \in OpRecords BY <1>1 DEF Typed
  <2> DEFINE r == IF op.call = "withdraw" \/ GoesOn(LentCounter) THEN Tail(op.rest) ELSE <<>>
  <2>2. op' = [op EXCEPT !.hit = TRUE, !.rest = r] BY <1>2
  <2> HIDE DEF r
  <2>3. op'.call = op.call /\ op'.on = op.on /\ op'.hit = TRUE /\ op'.rest = r
    BY <2>1, <2>2 DEF OpRecords
  <2> QED BY <2>3 DEF r
<1>8. /\ wait'[t] = NotWaiting /\ won'[t] = C /\ won[t] = {}
      /\ \A u \in Tasks : u # t => wait'[u] = wait[u] /\ won'[u] = won[u]
  BY <1>1, <1>2, <1>3, <1>6 DEF Typed, Told
<1>9. \A o \in Objs : o # op.on => LentCounter[o] = counter[o] /\ LentOwner(t)[o] = owner[o]
  BY <1>1, <1>3 DEF Typed, LentCounter, LentOwner
<1>10. LentCounter[op.on] = IF alive[op.on] /\ Kind[op.on] = "semaphore" /\ op.call = "offer"
                            THEN counter[op.on] + 1 ELSE counter[op.on]
  BY <1>1, <1>3, LentFacts
<1>11. \A o \in Objs :
         /\ raised'[o] = (raised[o] /\ ~ (o \in C \ {op.on} /\ Kind[o] # "event"))
         /\ counter'[o] = IF o \in C \ {op.on} /\ Kind[o] \in Lockables
                          THEN LentCounter[o] + 1 ELSE LentCounter[o]
         /\ owner'[o] = LentOwner(t)[o]
  BY <1>2, <1>4 DEF RaisedAfter, CounterAfter, OwnerAfter
<1>12. /\ raised'[op.on] = (raised[op.on] /\ TRUE) /\ counter'[op.on] = LentCounter[op.on]
       /\ op.call = "withdraw" => owner'[op.on] = owner[op.on]
  <2>1. raised'[op.on] = (raised[op.on] /\ TRUE) /\ counter'[op.on] = LentCounter[op.on]
    BY <1>3, <1>11
  <2>2. op.call = "withdraw" => LentOwner(t)[op.on] = owner[op.on]
    BY <1>1, <1>3 DEF LentOwner, Typed
  <2> QED BY <1>3, <1>11, <2>1, <2>2
<1>13. \A o \in Objs : counter[o] \in Nat /\ LentCounter[o] \in Nat BY <1>1, <1>3, LentFacts DEF Typed
<1>14. Depth \in Nat BY WaitingAssumption
<1>15. OnTheWay'
  <2>1. OnTheWay BY DEF Attentive
  <2>2. Kind[op.on] = "event" /\ alive[op.on] => (raised'[op.on] <=> op.call = "offer")
    BY <1>3, <1>12, <2>1 DEF OnTheWay
  <2>3. Kind[op.on] = "mutex" /\ op.call = "offer" /\ alive[op.on] => counter'[op.on] = 1
    BY <1>3, <1>10, <1>12, <2>1 DEF OnTheWay
  <2>4. ASSUME Kind[op.on] = "recursive", op.call = "offer", NEW u \in Tasks,
               op.on \in Range(wait'[u].over)
        PROVE  u \in Range(op'.rest)
    <3>1. u # t BY <1>8, <2>4, NotWaitingFacts
    <3>2. u \in Range(op.rest) BY <1>3, <1>8, <2>1, <2>4, <3>1 DEF OnTheWay
    <3>3. GoesOn(LentCounter) BY <2>4 DEF GoesOn
    <3> QED BY <1>3, <1>7, <3>1, <3>2, <3>3
  <2> QED BY <1>2, <1>7, <2>2, <2>3, <2>4 DEF OnTheWay
<1>16. ASSUME NEW u \in Tasks, NEW o \in Objs, o # op.on
       PROVE  (Avail(o, u)' => Avail(o, u)) /\ (Kind[o] = "event" => (Avail(o, u) => Avail(o, u)'))
  <2>1. ~Offered(o) /\ ~Offered(o)' BY <1>7, <1>16 DEF Offered
  <2>2. counter'[o] = counter[o] \/ counter'[o] = counter[o] + 1 BY <1>9, <1>11, <1>16
  <2>3. (counter'[o] < Depth => counter[o] < Depth) /\ (counter'[o] = 0 => counter[o] = 0)
    BY <1>13, <1>14, <2>2
  <2>4. owner'[o] = owner[o] BY <1>9, <1>11, <1>16
  <2>5. (raised'[o] => raised[o]) /\ (Kind[o] = "event" => (raised'[o] <=> raised[o])) BY <1>11
  <2> QED BY <1>2, <2>1, <2>3, <2>4, <2>5, AvailElsewhere
<1>17. ASSUME NEW u \in Tasks, NEW o \in Objs, o = op.on
       PROVE  (Avail(o, u)' => Avail(o, u)) /\ (Kind[o] = "event" => (Avail(o, u) => Avail(o, u)'))
  <2>0. (raised'[o] <=> raised[o]) /\ counter'[o] = LentCounter[o] BY <1>12, <1>17
  <2>1. CASE op.call = "offer" /\ alive[o]
    <3>1. Offered(o) /\ alive[o] /\ (Offered(o) /\ alive[o])' BY <1>2, <1>7, <1>17, <2>1 DEF Offered
    <3>2. counter'[o] < Depth => counter[o] < Depth BY <1>10, <1>13, <1>14, <1>17, <2>0
    <3> QED BY <1>7, <3>1, <3>2, AvailOffered
  <2>2. CASE ~ (op.call = "offer" /\ alive[o])
    <3>1. ~ (Offered(o) /\ alive[o]) /\ ~ (Offered(o) /\ alive[o])'
      BY <1>2, <1>7, <2>2 DEF Offered
    <3>2. counter'[o] = counter[o] BY <1>10, <1>17, <2>0, <2>2
    <3>3. alive[o] => owner'[o] = owner[o] BY <1>3, <1>12, <1>17, <2>2 DEF Walks
    <3> QED BY <1>2, <2>0, <3>1, <3>2, <3>3, AvailElsewhere
  <2> QED BY <2>1, <2>2
<1>18. AllPatient'
  <2> SUFFICES ASSUME NEW u \in Tasks, wait'[u] # NotWaiting PROVE Patient(u)'
    BY DEF AllPatient
  <2>1. u # t /\ wait'[u] = wait[u] /\ wait[u] # NotWaiting BY <1>8
  <2>2. Patient(u) BY <2>1 DEF Attentive, AllPatient
  <2>3. \A o \in Objs : /\ Avail(o, u)' => Avail(o, u)
                        /\ Kind[o] = "event" => (Avail(o, u) => Avail(o, u)')
    BY <1>16, <1>17
  <2>4. CASE u \in Range(op'.rest) <=> u \in Range(op.rest)
    BY <1>1, <1>7, <2>1, <2>2, <2>3, <2>4, PatientKept
  <2>5. CASE ~ (u \in Range(op'.rest) <=> u \in Range(op.rest))
    <3>1. /\ op.call = "offer" /\ ~ GoesOn(LentCounter) /\ op'.rest = <<>>
          /\ u \in Range(op.rest)
      <4>1. u \in Range(Tail(op.rest)) <=> u \in Range(op.rest) BY <1>3, <2>1
      <4>2. op'.rest # Tail(op.rest) BY <2>5, <4>1
      <4>3. op.call # "withdraw" /\ ~ GoesOn(LentCounter) /\ op'.rest = <<>> BY <1>7, <4>2
      <4>4. Range(<<>>) = {} BY DEF Range
      <4>5. u \in Range(op.rest) BY <2>5, <4>3, <4>4
      <4> QED BY <1>3, <4>3, <4>5 DEF Walks
    <3>2. u \notin Range(op'.rest) BY <2>5, <3>1
    <3>3. /\ alive[op.on] /\ Kind[op.on] \notin {"event", "notifierAll", "pulserAll", "recursive"}
          /\ Kind[op.on] = "semaphore" => ~ (LentCounter[op.on] < Depth)
      BY <3>1 DEF GoesOn
    <3>4. PICK p \in Objs : p = op.on BY <1>3
    <3>5. PICK w \in Waits : wait[u] = w /\ wait'[u] = w BY <1>1, <2>1 DEF Typed
    <3>6. \A i \in DOMAIN w.over : w.over[i] \in Objs
      BY <1>1, <2>1, <3>5, WaitFacts
    <3>7. /\ Others(u) = {i \in DOMAIN w.over : Avail(w.over[i], u) /\ w.over[i] # op.on}
          /\ Prospect(u)' = {i \in DOMAIN w.over : Avail(w.over[i], u)'}
      BY <3>5, Rigid
    <3>8. (Offered(p) /\ alive[p])' BY <1>2, <1>7, <3>1, <3>3, <3>4 DEF Offered
    <3>9. ~ Avail(p, u)' BY <1>7, <1>12, <3>3, <3>4, <3>8, AvailOffered
    <3>10. Prospect(u)' \subseteq Others(u) BY <2>3, <3>4, <3>6, <3>7, <3>9
    <3>11. \A i \in Others(u) \ Prospect(u)' : Kind[w.over[i]] # "event" BY <2>3, <3>6, <3>7
    <3>12. ~ Satisfied(w, Others(u)) BY <2>2, <3>1, <3>3, <3>5, <1>3 DEF Patient
    <3>13. Others(u) \subseteq DOMAIN w.over BY <3>7
    <3>14. ~ Satisfied(w, Prospect(u)') BY <3>10, <3>11, <3>12, <3>13, LessStays
    <3> QED BY <3>2, <3>5, <3>14 DEF Patient
  <2> QED BY <2>4, <2>5
<1>19. AllExact'
  <2> SUFFICES ASSUME NEW o \in Objs, alive[o], Kind[o] \in Places PROVE Exact(o)'
    BY <1>2 DEF AllExact
  <2>1. Exact(o) /\ PlacesKept(o) BY DEF Attentive, AllExact, WaitingInv, AllPlacesKept
  <2>2. Kind[o] \in Lockables BY DEF Places, Lockables
  <2>3. IsFiniteSet(GrantsIn(held, won, o)) BY <2>1, GrantsStates DEF PlacesKept
  <2>4. Cardinality(GrantsIn(held, won, o)) \in Nat BY <2>3, FS_CardinalityType
  <2>5. Locked(o) = Cardinality(GrantsIn(held, won, o)) BY GrantsStates DEF Locked
  <2>6. Locked(o)' = IF o \in C THEN Locked(o) + 1 ELSE Locked(o)
    <3>1. CASE o \in C
      <4> DEFINE z == 0
      <4>1. OneMore(held', won', held, won, o, t, z)
        <5>1. ASSUME NEW u \in Tasks, NEW k
              PROVE  k \in 0..held'[u][o] /\ (k = 0 => o \in won'[u])
                <=> (k \in 0..held[u][o] /\ (k = 0 => o \in won[u])) \/ (u = t /\ k = z)
          <6>1. CASE u = t
            <7>1. held[u][o] \in Nat BY <1>1 DEF Typed
            <7>2. 0 \in 0..held[u][o] BY <7>1
            <7> QED BY <1>2, <1>8, <3>1, <6>1, <7>2
          <6>2. CASE u # t BY <1>2, <1>8, <6>2
          <6> QED BY <6>1, <6>2
        <5>2. o \notin won[t] BY <1>8
        <5> QED BY <5>1, <5>2 DEF OneMore
      <4> HIDE DEF z
      <4>2. Cardinality(GrantsIn(held', won', o)) = Cardinality(GrantsIn(held, won, o)) + 1
        BY <1>3, <2>3, <4>1, GrantsMore
      <4> QED BY <2>5, <3>1, <4>2, GrantsStates DEF Locked
    <3>2. CASE o \notin C
      <4>1. \A u \in Tasks : o \in won'[u] <=> o \in won[u] BY <1>8, <3>2
      <4>2. \A u \in Tasks : {k \in 0..held'[u][o] : k = 0 => o \in won'[u]}
                             = {k \in 0..held[u][o] : k = 0 => o \in won[u]}
        BY <1>2, <4>1
      <4>3. Grants(o)' = Grants(o) BY <4>2 DEF Grants
      <4> QED BY <3>2, <4>3 DEF Locked
    <3> QED BY <3>1, <3>2
  <2>7. Locked(o) \in Nat /\ counter[o] \in Nat BY <1>13, <2>4, <2>5
  <2>8. CASE o # op.on
    <3>1. ~Offered(o) /\ ~Offered(o)' BY <1>7, <2>8 DEF Offered
    <3>2. counter'[o] = IF o \in C THEN counter[o] + 1 ELSE counter[o] BY <1>9, <1>11, <2>2, <2>8
    <3> QED BY <2>1, <2>6, <2>7, <3>1, <3>2 DEF Exact
  <2>9. CASE o = op.on /\ op.call = "offer"
    <3>1. o \in C BY <1>4, <2>9
    <3>2. Offered(o) /\ Offered(o)' /\ op'.hit BY <1>7, <2>9 DEF Offered
    <3>3. CASE Kind[o] = "mutex"
      <4>1. ~op.hit BY <1>1, <1>2, <2>9, <3>3 DEF HitEnds, OneWoken
      <4>2. counter'[o] = counter[o] BY <1>10, <1>12, <2>9, <3>3
      <4>3. counter[o] = Locked(o) + 1 BY <2>1, <3>2, <3>3, <4>1 DEF Exact
      <4> QED BY <2>6, <2>7, <3>1, <3>2, <4>2, <4>3 DEF Exact
    <3>4. CASE Kind[o] = "semaphore"
      <4>1. counter'[o] = counter[o] + 1 BY <1>10, <1>12, <2>9, <3>4
      <4> QED BY <2>1, <2>6, <2>7, <3>1, <3>4, <4>1 DEF Exact
    <3> QED BY <3>3, <3>4 DEF Places
  <2>10. CASE o = op.on /\ op.call = "withdraw"
    <3>1. o \notin C BY <1>4, <2>10
    <3>2. ~Offered(o) /\ ~Offered(o)' BY <1>7, <2>10 DEF Offered
    <3>3. counter'[o] = counter[o] BY <1>10, <1>12, <2>10
    <3> QED BY <2>1, <2>6, <2>7, <3>1, <3>2, <3>3 DEF Exact
  <2> QED BY <1>3, <2>8, <2>9, <2>10 DEF Walks
<1> QED BY <1>15, <1>18, <1>19 DEF Attentive

(* When a walk is over whoever still waits has been asked, or need not be:   *)
(* nothing becomes available that was not counted as such.                   *)
LEMMA WalkEndsAttends ==
  ASSUME PlainWaits, WaitingInv, Attentive, WalkEnds
  PROVE  Attentive'
<1> DEFINE offered == op.call = "offer" /\ alive[op.on]
<1>1. Typed /\ OpTyped /\ WalkMeetsWaiters BY DEF WaitingInv, Control, Walking
<1>2. /\ op.call \in Walks /\ (op.rest = <<>> \/ ~Withdrawing)
      /\ raised' = [raised EXCEPT ![op.on] = IF offered /\ Kind[op.on] \in {"notifierOne", "notifierAll"}
                                             THEN ~op.hit ELSE @]
      /\ counter' = [counter EXCEPT ![op.on] = IF offered /\ Kind[op.on] \in {"mutex", "recursive"} /\ ~op.hit
                                               THEN 0 ELSE @]
      /\ owner' = [owner EXCEPT ![op.on] = IF offered /\ Kind[op.on] = "recursive" /\ ~op.hit
                                           THEN NoTask ELSE @]
      /\ op' = IF offered /\ Kind[op.on] = "semaphore" THEN Offering(op.on, "withdraw") ELSE Idle
      /\ UNCHANGED <<alive, wait, won, held>>
  BY DEF WalkEnds, Walks
<1> HIDE DEF offered
<1>3. PICK o \in Objs : o = op.on BY <1>1, <1>2 DEF OpTyped
<1>4. /\ \A p \in Objs : p # o => /\ raised'[p] = raised[p] /\ counter'[p] = counter[p]
                                  /\ owner'[p] = owner[p]
      /\ raised'[o] = IF offered /\ Kind[o] \in {"notifierOne", "notifierAll"} THEN ~op.hit ELSE raised[o]
      /\ counter'[o] = IF offered /\ Kind[o] \in {"mutex", "recursive"} /\ ~op.hit THEN 0 ELSE counter[o]
      /\ owner'[o] = IF offered /\ Kind[o] = "recursive" /\ ~op.hit THEN NoTask ELSE owner[o]
  BY <1>1, <1>2, <1>3 DEF Typed
<1>5. /\ op'.call \in {"none", "withdraw"}
      /\ op'.call = "withdraw" => op'.on = o /\ Kind[o] = "semaphore"
      /\ \A p : ~Offered(p)'
  <2>1. CASE op' = Idle BY <2>1, IdleFacts DEF Offered
  <2>2. CASE op' # Idle
    <3>1. op' = Offering(o, "withdraw") /\ Kind[o] = "semaphore" BY <1>2, <1>3, <2>2
    <3>2. op'.call = "withdraw" /\ op'.on = o BY <3>1 DEF Offering
    <3> QED BY <3>1, <3>2 DEF Offered
  <2> QED BY <2>1, <2>2
<1>6. Offered(o) /\ alive[o] <=> offered BY <1>3 DEF Offered, offered
<1>7. \A p \in Objs : p # o => ~Offered(p) BY <1>3 DEF Offered
<1>8. OnTheWay BY DEF Attentive
<1>9. op.call = "offer" => op.rest = <<>> BY <1>2 DEF Withdrawing
<1>10. Range(<<>>) = {} BY DEF Range
<1>11. OnTheWay' BY <1>5 DEF OnTheWay, Walks
<1>12. ASSUME NEW t \in Tasks, wait[t] # NotWaiting PROVE ~ Satisfied(wait[t], Prospect(t))
  <2>1. Patient(t) BY <1>12 DEF Attentive, AllPatient
  <2>2. CASE t \notin Range(op.rest) BY <2>1, <2>2 DEF Patient
  <2>3. CASE t \in Range(op.rest)
    <3>1. op.rest # <<>> BY <1>10, <2>3
    <3>2. op.call = "withdraw" /\ Can(o, counter, owner, current)
      BY <1>2, <1>3, <3>1 DEF Withdrawing
    <3>3. alive[o] BY <1>1, <1>2, <1>3, <3>2 DEF WalkMeetsWaiters
    <3>4. Kind[o] # "event"
      <4>1. Kind[o] = "event" => ~raised[o] BY <1>2, <1>3, <1>8, <3>2, <3>3 DEF OnTheWay
      <4> QED BY <3>2, <4>1 DEF Can, Resettable
    <3> QED BY <1>2, <1>3, <2>1, <2>3, <3>2, <3>4 DEF Patient
  <2> QED BY <2>2, <2>3
<1>13. ASSUME NEW t \in Tasks, NEW p \in Objs, p \in Range(wait[t].over)
       PROVE  (Avail(p, t)' => Avail(p, t)) /\ (Kind[p] = "event" => (Avail(p, t) => Avail(p, t)'))
  <2>1. ~ (Offered(p) /\ alive[p])' BY <1>5
  <2>2. CASE p # o BY <1>2, <1>4, <1>7, <2>1, <2>2, AvailElsewhere
  <2>3. CASE p = o /\ ~offered
    <3>1. ~ (Offered(p) /\ alive[p]) BY <1>6, <2>3
    <3> QED BY <1>2, <1>4, <2>1, <2>3, <3>1, AvailElsewhere
  <2>4. CASE p = o /\ offered
    <3>1. Offered(p) /\ alive[p] BY <1>6, <2>4
    <3>2. op.call = "offer" BY <2>4 DEF offered
    <3>3. Kind[p] # "recursive"
      <4>1. Kind[p] = "recursive" => t \in Range(op.rest) BY <1>2, <1>3, <1>8, <1>13, <2>4, <3>2 DEF OnTheWay
      <4> QED BY <1>9, <1>10, <3>2, <4>1
    <3>4. /\ Kind[p] = "event" => raised[p]
          /\ Kind[p] = "mutex" => counter[p] = 1
      BY <1>2, <1>3, <1>8, <2>4, <3>1, <3>2 DEF OnTheWay
    <3>5. CASE Kind[p] = "event"
      <4>1. raised'[p] BY <1>4, <2>4, <3>4, <3>5
      <4> QED BY <2>1, <3>1, <3>5, <4>1, AvailElsewhere, AvailOffered DEF Resettable
    <3>6. CASE Kind[p] \in {"notifierOne", "notifierAll"}
      <4>1. raised'[p] = ~op.hit BY <1>4, <2>4, <3>6
      <4> QED BY <1>2, <2>1, <3>1, <3>6, <4>1, AvailElsewhere, AvailOffered DEF Resettable
    <3>7. CASE Kind[p] \in {"pulserOne", "pulserAll"}
      BY <1>2, <2>1, <3>1, <3>7, AvailElsewhere DEF Resettable
    <3>8. CASE Kind[p] = "semaphore"
      <4>1. counter'[p] = counter[p] BY <1>4, <2>4, <3>8
      <4> QED BY <1>2, <2>1, <3>1, <3>8, <4>1, AvailElsewhere, AvailOffered DEF Resettable
    <3>9. CASE Kind[p] = "mutex"
      <4>1. counter'[p] = 0 => ~op.hit BY <1>4, <2>4, <3>4, <3>9
      <4> QED BY <1>2, <2>1, <3>1, <3>9, <4>1, AvailElsewhere, AvailOffered DEF Resettable
    <3>10. Kind[p] \in Kinds BY WaitingAssumption
    <3> QED BY <3>3, <3>5, <3>6, <3>7, <3>8, <3>9, <3>10 DEF Kinds
  <2> QED BY <2>2, <2>3, <2>4
<1>14. AllPatient'
  <2> SUFFICES ASSUME NEW t \in Tasks, wait[t] # NotWaiting PROVE Patient(t)'
    BY <1>2 DEF AllPatient
  <2>1. PICK w \in Waits : wait[t] = w /\ wait'[t] = w BY <1>1, <1>2 DEF Typed
  <2>2. \A i \in DOMAIN w.over : w.over[i] \in Objs /\ w.over[i] \in Range(w.over)
    BY <1>1, <2>1, WaitFacts
  <2>3. /\ Prospect(t) = {i \in DOMAIN w.over : Avail(w.over[i], t)}
        /\ Prospect(t)' = {i \in DOMAIN w.over : Avail(w.over[i], t)'}
    BY <2>1, Rigid
  <2>4. Prospect(t)' \subseteq Prospect(t) /\ Prospect(t) \subseteq DOMAIN w.over
    BY <1>13, <2>1, <2>2, <2>3
  <2>5. \A i \in Prospect(t) \ Prospect(t)' : Kind[w.over[i]] # "event"
    BY <1>13, <2>1, <2>2, <2>3
  <2>6. ~ Satisfied(w, Prospect(t)') BY <1>12, <2>1, <2>4, <2>5, LessStays
  <2> QED BY <1>5, <2>1, <2>6 DEF Patient
<1>15. AllExact'
  <2> SUFFICES ASSUME NEW p \in Objs, alive[p], Kind[p] \in Places PROVE Exact(p)'
    BY <1>2 DEF AllExact
  <2>1. Exact(p) /\ PlacesKept(p) BY DEF Attentive, AllExact, WaitingInv, AllPlacesKept
  <2>2. Locked(p)' = Locked(p) BY <1>2 DEF Locked, Grants
  <2>3. ~Offered(p)' BY <1>5
  <2>4. IsFiniteSet(Grants(p)) BY <2>1 DEF PlacesKept
  <2>5. Locked(p) \in Nat BY <2>4, FS_CardinalityType DEF Locked
  <2>6. CASE Kind[p] = "mutex" /\ Offered(p) /\ ~op.hit
    <3>1. p = o /\ offered BY <1>3, <1>6, <1>7, <2>6
    <3>2. counter'[p] = 0 BY <1>4, <2>6, <3>1
    <3>3. Locked(p) = 0 BY <2>1, <2>6 DEF PlacesKept
    <3> QED BY <2>2, <2>3, <3>2, <3>3 DEF Exact
  <2>7. CASE ~ (Kind[p] = "mutex" /\ Offered(p) /\ ~op.hit)
    <3>1. counter'[p] = counter[p] BY <1>4, <1>6, <2>7 DEF Places
    <3>2. counter[p] = Locked(p) + 0 BY <2>1, <2>7 DEF Exact
    <3> QED BY <2>2, <2>3, <2>5, <3>1, <3>2 DEF Exact
  <2> QED BY <2>6, <2>7
<1> QED BY <1>11, <1>14, <1>15 DEF Attentive

-----------------------------------------------------------------------------
(* The invariant holds as long as nobody is stopped.                         *)
LEMMA AttendsOn ==
  ASSUME PlainWaits, WaitingInv, Told, NobodyStopped, Attentive, [Next]_vars, NobodyStopped'
  PROVE  Attentive'
<1>1. ASSUME NEW w \in Waits, Wait(w) PROVE Attentive'
  BY <1>1, WaitSatisfiedAttends, WaitBlocksAttends DEF Wait
<1>2. ASSUME NEW o \in Objs, Raise(o) \/ Reset(o) PROVE Attentive' BY <1>2, RaiseAttends
<1>3. ASSUME NEW o \in Objs, Destroy(o) PROVE Attentive' BY <1>3, DestroyAttends
<1>4. ASSUME NEW o \in Objs, NEW h \in Tasks, Unlock(o, h) PROVE Attentive' BY <1>4, UnlockAttends
<1>5. CASE OfferAccepted BY <1>5, OfferAcceptedAttends
<1>6. CASE OfferRefused BY <1>6, OfferRefusedAttends
<1>7. CASE WalkEnds BY <1>7, WalkEndsAttends
<1>8. ASSUME NEW t \in Tasks, Resume(t) PROVE Attentive' BY <1>8, ResumeAttends
<1>9. CASE Yield \/ End BY <1>9, UntouchedAttends DEF Yield, End, Leave
<1>10. CASE UNCHANGED vars BY <1>10, UntouchedAttends DEF vars
<1>11. Typed BY DEF WaitingInv, Control
<1>12. ASSUME NEW t \in Tasks, StopTask(t) PROVE FALSE
  <2>1. stop'[t] BY <1>11, <1>12 DEF StopTask, Typed
  <2> QED BY <2>1 DEF NobodyStopped
<1>13. CASE OfferThrows
  <2>1. current \in Tasks /\ stop[current] BY <1>11, <1>13 DEF OfferThrows, Throws, Typed
  <2> QED BY <2>1 DEF NobodyStopped
<1> QED BY <1>1, <1>2, <1>3, <1>4, <1>5, <1>6, <1>7, <1>8, <1>9, <1>10, <1>12, <1>13 DEF Next

(* A request to stop is not taken back.                                      *)
LEMMA StopLasts ==
  ASSUME WaitingInv, [Next]_vars, NobodyStopped'
  PROVE  NobodyStopped
<1>1. Typed BY DEF WaitingInv, Control
<1>2. ASSUME UNCHANGED stop PROVE NobodyStopped BY <1>2 DEF NobodyStopped
<1>3. ASSUME NEW t \in Tasks, StopTask(t) PROVE FALSE
  <2>1. stop'[t] BY <1>1, <1>3 DEF StopTask, Typed
  <2> QED BY <2>1 DEF NobodyStopped
<1> QED BY <1>2, <1>3
        DEF Next, Wait, WaitSatisfied, WaitBlocks, Raise, Reset, Destroy, Unlock, OfferAccepted,
            OfferRefused, OfferThrows, WalkEnds, Resume, Yield, End, Leave, vars

(* Nobody waits and nothing is locked at first.                              *)
LEMMA InitSteady == Init => Steady
<1> SUFFICES ASSUME Init PROVE Steady OBVIOUS
<1>1. op = Idle /\ op.call = "none" BY IdleFacts DEF Init
<1>2. Told BY DEF Init, Told
<1>3. OnTheWay BY <1>1 DEF OnTheWay, Walks
<1>4. AllPatient BY DEF Init, AllPatient
<1>5. AllExact
  <2> SUFFICES ASSUME NEW o \in Objs PROVE Exact(o) BY DEF AllExact
  <2> DEFINE none == {}
  <2>1. GrantsIn(held, won, o) \subseteq none
    <3>1. ASSUME NEW t \in Tasks, NEW k \in 0..held[t][o], k = 0 => o \in won[t]
          PROVE  <<t, k>> \in none
      BY <3>1 DEF Init
    <3> HIDE DEF none
    <3> QED BY <3>1, GrantsWithin
  <2>2. Grants(o) = {} BY <2>1, GrantsStates
  <2>3. Locked(o) = 0 BY <2>2, FS_EmptySet DEF Locked
  <2>4. counter[o] = 0 /\ ~Offered(o) BY <1>1 DEF Init, Offered
  <2> QED BY <2>3, <2>4 DEF Exact
<1> QED BY <1>2, <1>3, <1>4, <1>5 DEF Steady, Attentive

LEMMA AlwaysSteady == ASSUME PlainWaits PROVE Spec => [](WaitingInv /\ Steady)
<1>1. Init => WaitingInv /\ Steady BY InitInv, InitSteady
<1>2. WaitingInv /\ Steady /\ [Next]_vars => (WaitingInv /\ Steady)'
  <2> SUFFICES ASSUME WaitingInv, Steady, [Next]_vars PROVE (WaitingInv /\ Steady)' OBVIOUS
  <2>1. WaitingInv' BY NextKeeps
  <2>2. Told' BY ToldStep DEF Steady
  <2>3. ASSUME NobodyStopped' PROVE Attentive'
    <3>1. NobodyStopped BY <2>3, StopLasts
    <3> QED BY <2>3, <3>1, AttendsOn DEF Steady
  <2> QED BY <2>1, <2>2, <2>3 DEF Steady
<1> QED BY <1>1, <1>2, PTL DEF Spec

(* For plain waits no acquisition is lost or made up: until a task is        *)
(* stopped, between operations the counter of a mutex or semaphore is what   *)
(* tasks hold and what they were granted in their sleep.                     *)
THEOREM ConservedHolds == ASSUME PlainWaits PROVE Spec => []Conserved
<1>1. WaitingInv /\ Steady => Conserved
  <2> SUFFICES ASSUME WaitingInv, Steady, op = Idle, NobodyStopped, NEW o \in Objs, alive[o],
                      Kind[o] \in {"mutex", "semaphore"}
               PROVE  counter[o] = Locked(o)
    BY DEF Conserved
  <2>1. Exact(o) /\ PlacesKept(o)
    BY DEF Steady, Attentive, AllExact, WaitingInv, AllPlacesKept, Places
  <2>2. ~Offered(o) BY IdleState
  <2>3. IsFiniteSet(Grants(o)) BY <2>1 DEF PlacesKept
  <2>4. Locked(o) \in Nat BY <2>3, FS_CardinalityType DEF Locked
  <2>5. counter[o] = Locked(o) + 0 BY <2>1, <2>2 DEF Exact
  <2> QED BY <2>4, <2>5
<1> QED BY <1>1, AlwaysSteady, PTL

(* For plain waits nobody sleeps between operations whose wait could be      *)
(* satisfied, until a task is stopped, and no wait returns without what it   *)
(* waited for.                                                               *)
THEOREM NoWakeupLost == ASSUME PlainWaits PROVE Spec => []NoLostWakeup
<1>1. WaitingInv /\ Steady => NoLostWakeup
  <2> SUFFICES ASSUME WaitingInv, Steady PROVE NoLostWakeup OBVIOUS
  <2>1. Typed /\ OnlyStoppedThrow BY DEF WaitingInv, Control
  <2>2. ASSUME op = Idle, NobodyStopped, NEW t \in Tasks, run[t] = "hold" PROVE ~ Wakeable(t)
    <3>1. wait[t] # NotWaiting BY <2>2 DEF Steady, Told
    <3>2. Patient(t) BY <2>2, <3>1 DEF Steady, Attentive, AllPatient
    <3>3. ~ Satisfied(wait[t], Prospect(t)) BY <2>2, <3>2, IdlePatient
    <3>4. \A o : ~Offered(o) BY <2>2, IdleState
    <3>5. Prospect(t) = Open(wait[t], counter, owner, t) BY <3>4 DEF Prospect, Avail, Open
    <3> QED BY <3>3, <3>5 DEF Wakeable
  <2> QED BY <2>1, <2>2 DEF NoLostWakeup
<1> QED BY <1>1, AlwaysSteady, PTL
==============================================================================
