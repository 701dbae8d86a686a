----------------------------- MODULE Future_proofs -----------------------------
(***************************************************************************)
(* Proofs about the shared state of Promise and Future.                    *)
(***************************************************************************)
EXTENDS Future, ListLemmas, FiniteSetTheorems

-----------------------------------------------------------------------------
(* The call stack as a sequence: what one more call, or one less, does.      *)

Ops == {"decFuture", "decPromise", "execute", "activate", "cancel", "ofPromise", "ofFuture",
        "links", "cancels", "call", "delete"}
Items == [op : Ops, on : States \union Links \union Cancels, todo : Seq(Links \union Cancels)]

LEMMA Made ==
  ASSUME NEW o \in Ops, NEW n \in States \union Links \union Cancels
  PROVE  Do(o, n) \in Items /\ Do(o, n).op = o /\ Do(o, n).on = n /\ Do(o, n).todo = <<>>
<1>1. <<>> \in Seq(Links \union Cancels) OBVIOUS
<1> QED BY <1>1 DEF Do, Items

LEMMA MadeWalk ==
  ASSUME NEW o \in Ops, NEW n \in States \union Links \union Cancels,
         NEW t \in Seq(Links \union Cancels)
  PROVE  /\ Walk(o, n, t) \in Items /\ Walk(o, n, t).op = o /\ Walk(o, n, t).on = n
         /\ Walk(o, n, t).todo = t
  BY DEF Walk, Items

LEMMA Same ==
  ASSUME NEW x \in Items, NEW o, NEW n
  PROVE  x = Do(o, n) <=> x.op = o /\ x.on = n /\ x.todo = <<>>
  BY DEF Do, Items

LEMMA Push ==
  ASSUME NEW S, NEW w \in Seq(S), NEW x \in S
  PROVE  /\ <<x>> \o w \in Seq(S) /\ <<x>> \o w # <<>>
         /\ Head(<<x>> \o w) = x /\ Tail(<<x>> \o w) = w
         /\ Range(<<x>> \o w) = {x} \union Range(w)
         /\ Len(<<x>> \o w) = Len(w) + 1
         /\ (<<x>> \o w)[1] = x
         /\ \A i \in 1 .. Len(w) : (<<x>> \o w)[i + 1] = w[i]
<1> DEFINE v == <<x>> \o w
<1>1. /\ v \in Seq(S) /\ Len(v) = Len(w) + 1
      /\ v[1] = x /\ \A i \in 1 .. Len(w) : v[i + 1] = w[i]
  OBVIOUS
<1>2. v # <<>> /\ Head(v) = x BY <1>1
<1>3. Tail(v) = w
  <2>1. Tail(v) \in Seq(S) /\ Len(Tail(v)) = Len(w) BY <1>1, <1>2
  <2>2. \A i \in 1 .. Len(w) : Tail(v)[i] = w[i] BY <1>1, <1>2
  <2> QED BY <2>1, <2>2, SeqEqual
<1>4. Range(v) = {x} \union Range(w)
  <2>1. <<x>> \in Seq(S) /\ Range(<<x>>) = {x} BY DEF Range
  <2> QED BY <2>1, ConcatFacts, ZenonT(30)
<1> QED BY <1>1, <1>2, <1>3, <1>4

LEMMA Pop ==
  ASSUME NEW S, NEW w \in Seq(S), w # <<>>
  PROVE  /\ Head(w) \in S /\ Tail(w) \in Seq(S) /\ w = <<Head(w)>> \o Tail(w)
         /\ Range(w) = {Head(w)} \union Range(Tail(w))
         /\ Len(Tail(w)) + 1 = Len(w) /\ \A i \in 1 .. Len(Tail(w)) : Tail(w)[i] = w[i + 1]
<1>1. Head(w) \in S /\ Tail(w) \in Seq(S) /\ w = <<Head(w)>> \o Tail(w)
  OBVIOUS
<1>2. Range(w) = {Head(w)} \union Range(Tail(w)) BY <1>1, Push
<1>3. Len(Tail(w)) + 1 = Len(w) /\ \A i \in 1 .. Len(Tail(w)) : Tail(w)[i] = w[i + 1]
  OBVIOUS
<1> QED BY <1>1, <1>2, <1>3

LEMMA PushTwo ==
  ASSUME NEW S, NEW w \in Seq(S), NEW x \in S, NEW y \in S
  PROVE  <<x, y>> \o w = <<x>> \o (<<y>> \o w)
<1>1. <<x, y>> \o w \in Seq(S) /\ <<x>> \o (<<y>> \o w) \in Seq(S) OBVIOUS
<1>2. Len(<<x, y>> \o w) = Len(w) + 2 /\ Len(<<x>> \o (<<y>> \o w)) = Len(w) + 2 OBVIOUS
<1>3. \A i \in 1 .. Len(w) + 2 : (<<x, y>> \o w)[i] = (<<x>> \o (<<y>> \o w))[i] OBVIOUS
<1> QED BY <1>1, <1>2, <1>3, SeqEqual

LEMMA PushThree ==
  ASSUME NEW S, NEW w \in Seq(S), NEW x \in S, NEW y \in S, NEW z \in S
  PROVE  <<x, y, z>> \o w = <<x>> \o (<<y, z>> \o w)
<1>1. <<x, y, z>> \o w \in Seq(S) /\ <<x>> \o (<<y, z>> \o w) \in Seq(S) OBVIOUS
<1>2. Len(<<x, y, z>> \o w) = Len(w) + 3 /\ Len(<<x>> \o (<<y, z>> \o w)) = Len(w) + 3 OBVIOUS
<1>3. \A i \in 1 .. Len(w) + 3 : (<<x, y, z>> \o w)[i] = (<<x>> \o (<<y, z>> \o w))[i]
  OBVIOUS
<1> QED BY <1>1, <1>2, <1>3, SeqEqual

(* What remove does to a list without repetitions.                           *)
LEMMA Removed ==
  ASSUME NEW S, NEW l \in Seq(S), IsInjective(l), NEW x
  PROVE  /\ RemoveFirst(l, x) \in Seq(S) /\ IsInjective(RemoveFirst(l, x))
         /\ Range(RemoveFirst(l, x)) = Range(l) \ {x}
         /\ l # <<>> /\ Head(l) # x => RemoveFirst(l, x) # <<>> /\ Head(RemoveFirst(l, x)) = Head(l)
<1>1. CASE x \notin Range(l)
  <2>1. RemoveFirst(l, x) = l BY <1>1, RemoveFirstFacts
  <2>2. Range(l) \ {x} = Range(l) BY <1>1
  <2> QED BY <2>1, <2>2
<1>2. CASE x \in Range(l)
  <2>1. PICK k \in DOMAIN l : l[k] = x BY <1>2 DEF Range
  <2>2. RemoveFirst(l, x) = RemoveAt(l, k) BY <2>1, RemoveFirstFacts
  <2>3. /\ RemoveAt(l, k) \in Seq(S) /\ IsInjective(RemoveAt(l, k))
        /\ Range(RemoveAt(l, k)) = Range(l) \ {x}
    BY <2>1, RemoveAtFacts
  <2>4. ASSUME l # <<>>, Head(l) # x
        PROVE  RemoveAt(l, k) # <<>> /\ Head(RemoveAt(l, k)) = Head(l)
    <3>1. k # 1 /\ k \in 1 .. Len(l) BY <2>1, <2>4
    <3>2. /\ Len(RemoveAt(l, k)) = Len(l) - 1
          /\ \A i \in 1 .. Len(l) - 1 : RemoveAt(l, k)[i] = IF i < k THEN l[i] ELSE l[i + 1]
      BY RemoveAtPositions
    <3>3. 1 \in 1 .. Len(l) - 1 /\ 1 < k BY <3>1
    <3>4. RemoveAt(l, k)[1] = l[1] BY <3>2, <3>3
    <3> QED BY <2>3, <3>1, <3>2, <3>4
  <2> QED BY <2>2, <2>3, <2>4
<1> QED BY <1>1, <1>2

(* Walks under way may lose what is left of them; nothing else in the stack  *)
(* changes.                                                                  *)
Like(v, w) ==
  /\ v \in Seq(Items) /\ Len(v) = Len(w)
  /\ \A i \in 1 .. Len(w) : /\ v[i].op = w[i].op /\ v[i].on = w[i].on
                            /\ w[i].op \notin {"links", "cancels"} => v[i] = w[i]

(* z is what y becomes when x leaves the walks of kind o.                    *)
Loses(y, z, o, x) ==
  /\ z.op = y.op /\ z.on = y.on
  /\ y.op = o => IsInjective(z.todo) /\ Range(z.todo) = Range(y.todo) \ {x}
  /\ y.op # o => z = y

LEMMA WithoutFacts ==
  ASSUME NEW w \in Seq(Items), NEW o \in {"links", "cancels"}, NEW x,
         \A y \in Range(w) : y.op = o => IsInjective(y.todo)
  PROVE  /\ Like(Without(w, o, x), w)
         /\ \A z \in Range(Without(w, o, x)) : \E y \in Range(w) : Loses(y, z, o, x)
         /\ \A y \in Range(w) : \E z \in Range(Without(w, o, x)) : Loses(y, z, o, x)
<1> DEFINE v == Without(w, o, x)
<1>1. ASSUME NEW i \in 1 .. Len(w)
      PROVE  /\ v[i] \in Items /\ Loses(w[i], v[i], o, x)
             /\ w[i].op \notin {"links", "cancels"} => v[i] = w[i]
  <2>1. w[i] \in Items /\ w[i] \in Range(w) BY DEF Range
  <2>2. v[i] = IF w[i].op = o THEN [w[i] EXCEPT !.todo = RemoveFirst(@, x)] ELSE w[i]
    BY DEF Without
  <2>3. CASE w[i].op = o
    <3>1. w[i].todo \in Seq(Links \union Cancels) /\ IsInjective(w[i].todo)
      BY <2>1, <2>3 DEF Items
    <3>2. /\ RemoveFirst(w[i].todo, x) \in Seq(Links \union Cancels)
          /\ IsInjective(RemoveFirst(w[i].todo, x))
          /\ Range(RemoveFirst(w[i].todo, x)) = Range(w[i].todo) \ {x}
      BY <3>1, Removed
    <3>3. /\ v[i] \in Items /\ v[i].op = w[i].op /\ v[i].on = w[i].on
          /\ v[i].todo = RemoveFirst(w[i].todo, x)
      BY <2>1, <2>2, <2>3, <3>2 DEF Items
    <3> QED BY <2>3, <3>2, <3>3 DEF Loses
  <2>4. CASE w[i].op # o BY <2>1, <2>2, <2>4 DEF Loses
  <2> QED BY <2>3, <2>4
<1>2. DOMAIN v = 1 .. Len(w) BY DEF Without
<1>3. v \in Seq(Items) /\ Len(v) = Len(w)
  <2>1. v = [i \in 1 .. Len(w) |-> v[i]] BY DEF Without
  <2>2. \A i \in 1 .. Len(w) : v[i] \in Items BY <1>1
  <2>3. Len(w) \in Nat OBVIOUS
  <2> HIDE DEF v
  <2>4. v \in [1 .. Len(w) -> Items] BY <2>1, <2>2
  <2> QED BY <2>3, <2>4
<1> HIDE DEF v
<1>4. Like(v, w) BY <1>1, <1>3 DEF Like, Loses
<1>5. \A z \in Range(v) : \E y \in Range(w) : Loses(y, z, o, x)
  BY <1>1, <1>2 DEF Range
<1>6. \A y \in Range(w) : \E z \in Range(v) : Loses(y, z, o, x)
  BY <1>1, <1>2 DEF Range
<1> QED BY <1>4, <1>5, <1>6 DEF v

(* Walks over the boxes of a state that is deleted end.                      *)
Cut(w, s) ==
  [i \in DOMAIN w |-> IF w[i].on = s THEN [w[i] EXCEPT !.todo = <<>>] ELSE w[i]]

(* The same call, with nothing left to walk over if it walks over a box of   *)
(* s.                                                                        *)
Ended(y, z, s) ==
  /\ z.op = y.op /\ z.on = y.on
  /\ y.on = s => z.todo = <<>>
  /\ y.on # s \/ y.op \notin {"links", "cancels"} => z = y

LEMMA CutFacts ==
  ASSUME NEW w \in Seq(Items), NEW s,
         \A y \in Range(w) : y.op \notin {"links", "cancels"} => y.todo = <<>>
  PROVE  /\ Like(Cut(w, s), w)
         /\ \A z \in Range(Cut(w, s)) : \E y \in Range(w) : Ended(y, z, s)
         /\ \A y \in Range(w) : \E z \in Range(Cut(w, s)) : Ended(y, z, s)
<1> DEFINE v == Cut(w, s)
<1>1. ASSUME NEW i \in 1 .. Len(w)
      PROVE  v[i] \in Items /\ Ended(w[i], v[i], s)
  <2>1. w[i] \in Items /\ w[i] \in Range(w) BY DEF Range
  <2>2. v[i] = IF w[i].on = s THEN [w[i] EXCEPT !.todo = <<>>] ELSE w[i]
    BY DEF Cut
  <2>3. CASE w[i].on = s
    <3>3. /\ v[i] \in Items /\ v[i].op = w[i].op /\ v[i].on = w[i].on
          /\ v[i].todo = <<>>
      <4>1. <<>> \in Seq(Links \union Cancels) OBVIOUS
      <4> QED BY <2>1, <2>2, <2>3, <4>1 DEF Items
    <3>4. ASSUME w[i].op \notin {"links", "cancels"} PROVE v[i] = w[i]
      <4>1. w[i].todo = <<>> BY <2>1, <3>4
      <4> QED BY <2>1, <2>2, <4>1 DEF Items
    <3> QED BY <2>3, <3>3, <3>4 DEF Ended
  <2>4. CASE w[i].on # s BY <2>1, <2>2, <2>4 DEF Ended
  <2> QED BY <2>3, <2>4
<1>2. DOMAIN v = 1 .. Len(w) BY DEF Cut
<1>3. v \in Seq(Items) /\ Len(v) = Len(w)
  <2>1. v = [i \in 1 .. Len(w) |-> v[i]] BY DEF Cut
  <2>2. \A i \in 1 .. Len(w) : v[i] \in Items BY <1>1
  <2>3. Len(w) \in Nat OBVIOUS
  <2> HIDE DEF v
  <2>4. v \in [1 .. Len(w) -> Items] BY <2>1, <2>2
  <2> QED BY <2>3, <2>4
<1> HIDE DEF v
<1>4. Like(v, w) BY <1>1, <1>3 DEF Like, Ended
<1>5. \A z \in Range(v) : \E y \in Range(w) : Ended(y, z, s)
  BY <1>1, <1>2 DEF Range
<1>6. \A y \in Range(w) : \E z \in Range(v) : Ended(y, z, s)
  BY <1>1, <1>2 DEF Range
<1> QED BY <1>4, <1>5, <1>6 DEF v

-----------------------------------------------------------------------------
(* What holds of every program: boxes list what is attached, and the stack   *)
(* names only what exists.                                                   *)

(* The types: no box is named but those of states, no call is of an unknown  *)
(* sort.                                                                     *)
Typed ==
  /\ mode \in [States -> {"unborn", "unresolved", "deleted"} \union Resolved]
  /\ futures \in [States -> Int] /\ promises \in [States -> Int]
  /\ box \in [States -> Seq(Links)] /\ cancelBox \in [States -> Seq(Chains \union Cancels)]
  /\ life \in [Links \union Cancels -> {"unborn", "linked", "running", "deleted"}]
  /\ out \subseteq Chains /\ asked \subseteq States
  /\ futH \in [States -> 0 .. MaxHandles] /\ proH \in [States -> 0 .. MaxHandles]
  /\ work \in Seq(Items)

(* The state whose cancelBox a continuation is for.                          *)
On(x) == IF x \in Links THEN Dst[x] ELSE Src[x]

(* A box lists what is attached to its state, each once; a cancelBox may     *)
(* also list a chain that is going.                                          *)
Boxes ==
  \A s \in States :
    /\ IsInjective(box[s]) /\ IsInjective(cancelBox[s])
    /\ \A l \in Links : l \in Range(box[s]) <=> Src[l] = s /\ life[l] = "linked"
    /\ \A x \in Range(cancelBox[s]) :
         On(x) = s /\ life[x] # "unborn" /\ (x \in Cancels => life[x] = "linked")

(* What does not exist yet has nothing, and a chain begins together with its *)
(* result.                                                                   *)
Born ==
  /\ \A s \in States : mode[s] = "unborn" =>
       /\ futH[s] = 0 /\ proH[s] = 0 /\ futures[s] = 0 /\ promises[s] = 0 /\ s \notin asked
       /\ box[s] = <<>> /\ cancelBox[s] = <<>>
  /\ \A x \in Links \union Cancels : life[x] # "unborn" => mode[Src[x]] # "unborn"
  /\ \A l \in Chains : life[l] = "unborn" <=> mode[Dst[l]] = "unborn"
  /\ \A l \in out : life[l] # "unborn"

(* What a call on the stack names exists, and a walk goes over what was in   *)
(* the box it walks over.                                                    *)
Real(x) ==
  /\ x.op = "call" => x.on \in Links \union Cancels
  /\ x.op = "delete" => x.on \in Links
  /\ x.op = "delete" => life[x.on] # "unborn"
  /\ x.op = "call" => life[x.on] \in {"running", "deleted"}
  /\ x.op \notin {"call", "delete"} => x.on \in States /\ mode[x.on] # "unborn"
  /\ x.op \notin {"links", "cancels"} => x.todo = <<>>
  /\ x.op = "links" => IsInjective(x.todo) /\ Range(x.todo) \subseteq Range(box[x.on])
  /\ x.op = "cancels" =>
       /\ IsInjective(x.todo)
       /\ \A y \in Range(x.todo) :
            y \in Chains \union Cancels /\ On(y) = x.on /\ life[y] # "unborn"

Shape == Typed /\ Boxes /\ Born /\ \A x \in Range(work) : Real(x)

(* Nothing that is attached was so before.                                   *)
LivesOn ==
  \A y \in Links \union Cancels :
    /\ life[y] # "unborn" => life'[y] # "unborn"
    /\ life[y] \in {"running", "deleted"} => life'[y] \in {"running", "deleted"}

(* What a call names goes on to exist when nothing is taken from its box.    *)
LEMMA RealKept ==
  ASSUME NEW x, Real(x), LivesOn,
         \A s \in States : mode[s] # "unborn" => mode'[s] # "unborn",
         x.op = "links" => Range(x.todo) \subseteq Range(box'[x.on])
  PROVE  Real(x)'
  BY DEF Real, Chains, On, LivesOn

(* The top of the stack, and what is below it.                               *)
LEMMA WorkTop ==
  ASSUME Shape, work # <<>>
  PROVE  /\ Top \in Items /\ Real(Top) /\ Tail(work) \in Seq(Items)
         /\ Range(work) = {Top} \union Range(Tail(work))
<1>1. work \in Seq(Items) BY DEF Shape, Typed
<1>2. /\ Head(work) \in Items /\ Tail(work) \in Seq(Items)
      /\ Range(work) = {Head(work)} \union Range(Tail(work))
  BY <1>1, Pop
<1> QED BY <1>2 DEF Top, Shape

(* x called on top of w; pushes of two and three calls are such pushes.      *)
Over(x, w) == <<x>> \o w

LEMMA PushItem ==
  ASSUME NEW w \in Seq(Items), NEW x \in Items
  PROVE  /\ Over(x, w) \in Seq(Items) /\ Over(x, w) # <<>>
         /\ Head(Over(x, w)) = x /\ Tail(Over(x, w)) = w
         /\ Range(Over(x, w)) = {x} \union Range(w)
  BY Push, SMTT(30) DEF Over

LEMMA PushPlaces ==
  ASSUME NEW w \in Seq(Items), NEW x \in Items
  PROVE  /\ Len(Over(x, w)) = Len(w) + 1
         /\ Over(x, w)[1] = x
         /\ \A i \in 1 .. Len(w) : Over(x, w)[i + 1] = w[i]
<1>1. Len(Over(x, w)) = Len(w) + 1 BY Push DEF Over
<1>2. Over(x, w)[1] = x BY Push DEF Over
<1>3. \A i \in 1 .. Len(w) : Over(x, w)[i + 1] = w[i] BY Push DEF Over
<1> QED BY <1>1, <1>2, <1>3

LEMMA OverTwo ==
  ASSUME NEW w \in Seq(Items), NEW x \in Items, NEW y \in Items
  PROVE  Over(x, Over(y, w)) \in Seq(Items) /\ Range(Over(x, Over(y, w))) = {x, y} \union Range(w)
<1>1. Over(y, w) \in Seq(Items) /\ Range(Over(y, w)) = {y} \union Range(w) BY PushItem
<1>2. PICK v : v = Over(y, w) OBVIOUS
<1>3. v \in Seq(Items) /\ Range(v) = {y} \union Range(w) BY <1>1, <1>2
<1>4. Over(x, v) \in Seq(Items) /\ Range(Over(x, v)) = {x} \union Range(v) BY <1>3, PushItem
<1> QED BY <1>2, <1>3, <1>4

LEMMA OverThree ==
  ASSUME NEW w \in Seq(Items), NEW x \in Items, NEW y \in Items, NEW z \in Items
  PROVE  /\ Over(x, Over(y, Over(z, w))) \in Seq(Items)
         /\ Range(Over(x, Over(y, Over(z, w)))) = {x, y, z} \union Range(w)
<1>1. Over(z, w) \in Seq(Items) /\ Range(Over(z, w)) = {z} \union Range(w) BY PushItem
<1>2. PICK v : v = Over(z, w) OBVIOUS
<1>3. v \in Seq(Items) /\ Range(v) = {z} \union Range(w) BY <1>1, <1>2
<1>4. Over(x, Over(y, v)) \in Seq(Items) /\ Range(Over(x, Over(y, v))) = {x, y} \union Range(v)
  BY <1>3, OverTwo
<1> QED BY <1>2, <1>3, <1>4

LEMMA PushItems ==
  ASSUME NEW w \in Seq(Items), NEW x \in Items, NEW y \in Items
  PROVE  <<x, y>> \o w = Over(x, Over(y, w))
  BY PushTwo DEF Over

LEMMA PushItemsThree ==
  ASSUME NEW w \in Seq(Items), NEW x \in Items, NEW y \in Items, NEW z \in Items
  PROVE  <<x, y, z>> \o w = Over(x, Over(y, Over(z, w)))
<1>1. <<x, y, z>> \o w = <<x>> \o (<<y, z>> \o w) BY PushThree, SMTT(30)
<1>2. <<y, z>> \o w = <<y>> \o (<<z>> \o w) BY PushTwo
<1> QED BY <1>1, <1>2 DEF Over

(* What pushContinuation puts on the stack.                                  *)
LEMMA PushedFacts ==
  ASSUME NEW w \in Seq(Items), NEW s \in States, NEW m \in Ops
  PROVE  Pushed(s, m) \o w = IF mode[s] \in Resolved
                             THEN Over(Do("execute", s), Over(Do(m, s), w))
                             ELSE Over(Do(m, s), w)
<1>1. Do("execute", s) \in Items /\ Do(m, s) \in Items BY Made DEF Ops
<1>2. (<<Do("execute", s)>> \o <<Do(m, s)>>) \o w = <<Do("execute", s)>> \o (<<Do(m, s)>> \o w)
  <2>1. <<Do("execute", s)>> \in Seq(Items) /\ <<Do(m, s)>> \in Seq(Items) BY <1>1
  <2> QED BY <2>1, ConcatAssociative
<1>3. CASE mode[s] \in Resolved
  <2>1. Pushed(s, m) = <<Do("execute", s)>> \o <<Do(m, s)>> BY <1>3 DEF Pushed
  <2> QED BY <1>2, <1>3, <2>1 DEF Over
<1>4. CASE mode[s] \notin Resolved
  <2>1. Pushed(s, m) = <<Do(m, s)>> BY <1>1, <1>4 DEF Pushed
  <2> QED BY <1>4, <2>1 DEF Over
<1> QED BY <1>3, <1>4

(* What the stack names goes on to exist.                                    *)
LEMMA RealFrame ==
  ASSUME Shape, LivesOn,
         \A s \in States : mode[s] # "unborn" => mode'[s] # "unborn",
         \A s \in States : Range(box[s]) \subseteq Range(box'[s])
  PROVE  \A x \in Range(work) : Real(x)'
<1> SUFFICES ASSUME NEW x \in Range(work) PROVE Real(x)' OBVIOUS
<1>1. Real(x) BY DEF Shape
<1>2. x.op = "links" => Range(x.todo) \subseteq Range(box'[x.on]) BY <1>1 DEF Real
<1> QED BY <1>1, <1>2, RealKept

(* What the program has exists.                                              *)
LEMMA HeldExists ==
  ASSUME Shape, NEW s \in States
  PROVE  HasFuture(s) \/ HasPromise(s) => mode[s] # "unborn"
<1>1. futH[s] > 0 \/ proH[s] > 0 => mode[s] # "unborn" BY DEF Shape, Typed, Born
<1>2. ASSUME Is("call"), Top.on \in Links, Src[Top.on] = s PROVE mode[s] # "unborn"
  <2>1. Real(Top) BY <1>2, WorkTop DEF Is
  <2>2. life[Top.on] # "unborn" BY <1>2, <2>1 DEF Is, Real
  <2> QED BY <1>2, <2>2 DEF Shape, Born
<1>3. ASSUME Top.on \in out, Dst[Top.on] = s PROVE mode[s] # "unborn"
  BY <1>3 DEF Shape, Typed, Born
<1> QED BY <1>1, <1>2, <1>3 DEF HasFuture, HasPromise

(* What the constants are.                                                   *)
LEMMA Consts ==
  /\ \A l \in Links : Src[l] \in States /\ l \notin Cancels /\ l \notin States
  /\ \A k \in Cancels : Src[k] \in States /\ k \notin Links /\ k \notin States
  /\ \A l \in Chains : l \in Links /\ Dst[l] \in States
  /\ \A l, n \in Chains : Dst[l] = Dst[n] => l = n
  /\ MaxHandles \in Nat \ {0}
  BY FutureAssumption DEF Chains

(* Steps that attach nothing and make no state.                             *)
LEMMA MovedShape ==
  ASSUME Shape, Typed', Boxes', out' \subseteq out,
         \A x \in Links \union Cancels : life'[x] = "unborn" <=> life[x] = "unborn",
         \A s \in States : mode'[s] = "unborn" <=> mode[s] = "unborn",
         \A s \in States : mode[s] = "unborn" =>
           /\ futH'[s] = futH[s] /\ proH'[s] = proH[s]
           /\ futures'[s] = futures[s] /\ promises'[s] = promises[s]
           /\ s \in asked' => s \in asked
           /\ box'[s] = box[s] /\ cancelBox'[s] = cancelBox[s],
         \A x \in Range(work') : Real(x)'
  PROVE  Shape'
<1>1. Born'
  <2>1. \A s \in States : mode'[s] = "unborn" =>
       /\ futH'[s] = 0 /\ proH'[s] = 0 /\ futures'[s] = 0 /\ promises'[s] = 0 /\ s \notin asked'
       /\ box'[s] = <<>> /\ cancelBox'[s] = <<>>
    BY DEF Shape, Born
  <2>2. \A x \in Links \union Cancels : life'[x] # "unborn" => mode'[Src[x]] # "unborn"
    BY Consts DEF Shape, Born
  <2>3. \A l \in Chains : life'[l] = "unborn" <=> mode'[Dst[l]] = "unborn"
    BY Consts DEF Shape, Born
  <2>4. \A l \in out' : life'[l] # "unborn" BY Consts DEF Shape, Typed, Born
  <2> QED BY <2>1, <2>2, <2>3, <2>4 DEF Born
<1> QED BY <1>1 DEF Shape

(* Steps that attach and detach nothing.                                     *)
LEMMA StillShape ==
  ASSUME Shape, Typed', UNCHANGED <<box, cancelBox, life>>, out' \subseteq out,
         \A s \in States : mode'[s] = "unborn" <=> mode[s] = "unborn",
         \A s \in States : mode[s] = "unborn" =>
           /\ futH'[s] = futH[s] /\ proH'[s] = proH[s]
           /\ futures'[s] = futures[s] /\ promises'[s] = promises[s]
           /\ s \in asked' => s \in asked,
         \A x \in Range(work') : x \in Range(work) \/ Real(x)'
  PROVE  Shape'
<1>1. Boxes' BY DEF Shape, Boxes
<1>2. LivesOn BY DEF LivesOn
<1>3. \A x \in Range(work) : Real(x)' BY <1>2, RealFrame
<1> QED BY <1>1, <1>3, MovedShape

LEMMA DropFutureShape ==
  ASSUME Shape, NEW s \in States, DropFuture(s) PROVE Shape'
<1> DEFINE x == Do("decFuture", s)
<1>1. /\ futH[s] > 0 /\ futH' = [futH EXCEPT ![s] = @ - 1] /\ work' = Over(x, work)
      /\ UNCHANGED <<mode, futures, promises, box, cancelBox, life, out, proH, asked>>
  BY DEF DropFuture, Over
<1>2. x \in Items /\ x.op = "decFuture" /\ x.on = s /\ x.todo = <<>>
  BY Made DEF Ops
<1> HIDE DEF x
<1>3. work \in Seq(Items) /\ mode[s] # "unborn" BY <1>1 DEF Shape, Typed, Born
<1>4. work' \in Seq(Items) /\ Range(work') = {x} \union Range(work)
  BY <1>1, <1>2, <1>3, PushItem
<1>5. Typed'
  <2>1. futH[s] - 1 \in 0 .. MaxHandles BY <1>1, Consts DEF Shape, Typed
  <2> QED BY <1>1, <1>4, <2>1 DEF Shape, Typed
<1>6. Real(x)' BY <1>1, <1>2, <1>3 DEF Real
<1>7. \A i \in States : mode[i] = "unborn" => futH'[i] = futH[i] BY <1>1, <1>3 DEF Shape, Typed
<1> QED BY <1>1, <1>4, <1>5, <1>6, <1>7, StillShape

LEMMA DropPromiseShape ==
  ASSUME Shape, NEW s \in States, DropPromise(s) PROVE Shape'
<1> DEFINE x == Do("decPromise", s)
<1>1. /\ proH[s] > 0 /\ proH' = [proH EXCEPT ![s] = @ - 1] /\ work' = Over(x, work)
      /\ UNCHANGED <<mode, futures, promises, box, cancelBox, life, out, futH, asked>>
  BY DEF DropPromise, Over
<1>2. x \in Items /\ x.op = "decPromise" /\ x.on = s /\ x.todo = <<>>
  BY Made DEF Ops
<1> HIDE DEF x
<1>3. work \in Seq(Items) /\ mode[s] # "unborn" BY <1>1 DEF Shape, Typed, Born
<1>4. work' \in Seq(Items) /\ Range(work') = {x} \union Range(work)
  BY <1>1, <1>2, <1>3, PushItem
<1>5. Typed'
  <2>1. proH[s] - 1 \in 0 .. MaxHandles BY <1>1, Consts DEF Shape, Typed
  <2> QED BY <1>1, <1>4, <2>1 DEF Shape, Typed
<1>6. Real(x)' BY <1>1, <1>2, <1>3 DEF Real
<1>7. \A i \in States : mode[i] = "unborn" => proH'[i] = proH[i] BY <1>1, <1>3 DEF Shape, Typed
<1> QED BY <1>1, <1>4, <1>5, <1>6, <1>7, StillShape

LEMMA CopyPromiseShape ==
  ASSUME Shape, NEW s \in States, CopyPromise(s) PROVE Shape'
<1>1. /\ HasPromise(s) /\ proH[s] < MaxHandles
      /\ promises' = [promises EXCEPT ![s] = @ + 1] /\ proH' = [proH EXCEPT ![s] = @ + 1]
      /\ UNCHANGED <<mode, futures, box, cancelBox, life, out, futH, asked, work>>
  BY DEF CopyPromise
<1>2. mode[s] # "unborn" BY <1>1, HeldExists
<1>3. Typed'
  <2>1. proH[s] + 1 \in 0 .. MaxHandles BY <1>1, Consts DEF Shape, Typed
  <2> QED BY <1>1, <2>1 DEF Shape, Typed
<1>4. \A i \in States : mode[i] = "unborn" => proH'[i] = proH[i] /\ promises'[i] = promises[i]
  BY <1>1, <1>2 DEF Shape, Typed
<1> QED BY <1>1, <1>3, <1>4, StillShape

LEMMA GetFutureShape ==
  ASSUME Shape, NEW s \in States, GetFuture(s) PROVE Shape'
<1>1. /\ HasPromise(s) \/ HasFuture(s)
      /\ futH[s] < MaxHandles
      /\ futures' = [futures EXCEPT ![s] = @ + 1] /\ futH' = [futH EXCEPT ![s] = @ + 1]
      /\ asked' = asked \union {s}
      /\ UNCHANGED <<mode, promises, box, cancelBox, life, out, proH, work>>
  BY DEF GetFuture
<1>2. mode[s] # "unborn" BY <1>1, HeldExists
<1>3. Typed'
  <2>1. futH[s] + 1 \in 0 .. MaxHandles BY <1>1, Consts DEF Shape, Typed
  <2> QED BY <1>1, <2>1, SMTT(30) DEF Shape, Typed
<1>4. \A i \in States : mode[i] = "unborn" => /\ futH'[i] = futH[i] /\ futures'[i] = futures[i]
                                              /\ i \in asked' => i \in asked
  BY <1>1, <1>2 DEF Shape, Typed
<1> QED BY <1>1, <1>3, <1>4, StillShape

LEMMA ResolveValueShape ==
  ASSUME Shape, NEW s \in States, ResolveValue(s) PROVE Shape'
<1> DEFINE x == Do("execute", s)
           y == Do("ofPromise", s)
<1>1. /\ mode[s] = "unresolved" /\ mode' = [mode EXCEPT ![s] = "value"]
      /\ work' = <<x, y>> \o work
      /\ UNCHANGED <<futures, promises, box, cancelBox, life, out, futH, proH, asked>>
  BY DEF ResolveValue
<1>2. /\ x \in Items /\ x.op = "execute" /\ x.on = s /\ x.todo = <<>>
      /\ y \in Items /\ y.op = "ofPromise" /\ y.on = s /\ y.todo = <<>>
  BY Made DEF Ops
<1> HIDE DEF x, y
<1>3. work' = Over(x, Over(y, work)) /\ work \in Seq(Items)
  BY <1>1, <1>2, PushItems DEF Shape, Typed
<1>4. work' \in Seq(Items) /\ Range(work') = {x, y} \union Range(work)
  BY <1>2, <1>3, OverTwo
<1>5. Typed' BY <1>1, <1>4 DEF Shape, Typed, Resolved
<1>6. \A i \in States : mode'[i] = "unborn" <=> mode[i] = "unborn"
  BY <1>1 DEF Shape, Typed
<1>7. Real(x)' /\ Real(y)' BY <1>1, <1>2, <1>6 DEF Real
<1> QED BY <1>1, <1>4, <1>5, <1>6, <1>7, StillShape

(* resolveCancel.                                                            *)
LEMMA CancelledFacts ==
  ASSUME Shape, NEW s \in States, NEW w \in Seq(Items), Cancelled(s, w), mode[s] # "unborn"
  PROVE  /\ mode' \in [States -> {"unborn", "unresolved", "deleted"} \union Resolved]
         /\ \A i \in States : mode'[i] = "unborn" <=> mode[i] = "unborn"
         /\ work' \in Seq(Items)
         /\ \A x \in Range(work') : x \in Range(w) \/ Real(x)'
<1> DEFINE x == Do("execute", s)
<1>1. x \in Items /\ x.op = "execute" /\ x.on = s /\ x.todo = <<>> BY Made DEF Ops
<1>2. mode \in [States -> {"unborn", "unresolved", "deleted"} \union Resolved]
  BY DEF Shape, Typed
<1>3. CASE mode[s] = "unresolved"
  <2>1. mode' = [mode EXCEPT ![s] = "cancel"] /\ work' = Over(x, w)
    BY <1>3 DEF Cancelled, Over
  <2> HIDE DEF x
  <2>2. work' \in Seq(Items) /\ Range(work') = {x} \union Range(w) BY <1>1, <2>1, PushItem
  <2>3. /\ mode' \in [States -> {"unborn", "unresolved", "deleted"} \union Resolved]
        /\ \A i \in States : mode'[i] = "unborn" <=> mode[i] = "unborn"
    BY <1>2, <1>3, <2>1 DEF Resolved
  <2>4. Real(x)' BY <1>1, <1>3, <2>3 DEF Real
  <2> QED BY <2>2, <2>3, <2>4
<1>4. CASE mode[s] # "unresolved" BY <1>2, <1>4 DEF Cancelled
<1> QED BY <1>3, <1>4

LEMMA ResolveCancelShape ==
  ASSUME Shape, NEW s \in States, ResolveCancel(s) PROVE Shape'
<1>1. UNCHANGED <<futures, promises, box, cancelBox, life, out, futH, proH, asked>>
  BY DEF ResolveCancel
<1>2. PICK m \in {"ofPromise", "ofFuture"} :
        (HasPromise(s) \/ HasFuture(s)) /\ Cancelled(s, <<Do(m, s)>> \o work)
  <2>1. \/ HasPromise(s) /\ Cancelled(s, <<Do("ofPromise", s)>> \o work)
        \/ HasFuture(s) /\ Cancelled(s, <<Do("ofFuture", s)>> \o work)
    BY DEF ResolveCancel
  <2> QED BY <2>1, Zenon
<1> DEFINE x == Do(m, s)
<1>3. x \in Items /\ x.op = m /\ x.on = s /\ x.todo = <<>>
  <2>1. m \in Ops BY DEF Ops
  <2> QED BY <2>1, Made
<1>4. mode[s] # "unborn" /\ work \in Seq(Items) BY <1>2, HeldExists DEF Shape, Typed
<1>5. Cancelled(s, Over(x, work)) BY <1>2 DEF Over
<1> HIDE DEF x
<1>6. Over(x, work) \in Seq(Items) /\ Range(Over(x, work)) = {x} \union Range(work)
  BY <1>3, <1>4, PushItem
<1>7. /\ mode' \in [States -> {"unborn", "unresolved", "deleted"} \union Resolved]
      /\ \A i \in States : mode'[i] = "unborn" <=> mode[i] = "unborn"
      /\ work' \in Seq(Items)
      /\ \A y \in Range(work') : y \in Range(Over(x, work)) \/ Real(y)'
  BY <1>4, <1>5, <1>6, CancelledFacts
<1>8. Real(x)' BY <1>3, <1>4, <1>7 DEF Real
<1>9. Typed' BY <1>1, <1>7 DEF Shape, Typed
<1> QED BY <1>1, <1>6, <1>7, <1>8, <1>9, StillShape

LEMMA ThenShape ==
  ASSUME Shape, NEW l \in Links, Then(l) PROVE Shape'
<1> DEFINE s == Src[l]
           x == Do("execute", s)
           y == Do("ofFuture", s)
<1>1. /\ HasFuture(s) /\ life[l] = "unborn" /\ l \notin Chains
      /\ life' = [life EXCEPT ![l] = "linked"]
      /\ box' = [box EXCEPT ![s] = Append(@, l)]
      /\ futures' = [futures EXCEPT ![s] = @ + 1]
      /\ work' = Pushed(s, "ofFuture") \o work
      /\ UNCHANGED <<mode, promises, cancelBox, out, futH, proH, asked>>
  BY DEF Then
<1>2. s \in States BY FutureAssumption
<1>3. /\ x \in Items /\ x.op = "execute" /\ x.on = s /\ x.todo = <<>>
      /\ y \in Items /\ y.op = "ofFuture" /\ y.on = s /\ y.todo = <<>>
  BY <1>2, Made DEF Ops
<1>4. work \in Seq(Items) /\ mode[s] # "unborn"
  BY <1>1, <1>2, HeldExists DEF Shape, Typed
<1>5. work' \in Seq(Items) /\ Range(work') \subseteq {x, y} \union Range(work)
  <2>1. work' = Over(x, Over(y, work)) \/ work' = Over(y, work)
    BY <1>1, <1>2, <1>4, PushedFacts DEF Ops
  <2> HIDE DEF x, y
  <2> QED BY <1>3, <1>4, <2>1, PushItem, OverTwo
<1>6. /\ \A i \in States \ {s} : box'[i] = box[i]
      /\ box' \in [States -> Seq(Links)] /\ Range(box'[s]) = Range(box[s]) \union {l}
      /\ IsInjective(box'[s])
  <2>1. box[s] \in Seq(Links) /\ IsInjective(box[s]) /\ l \notin Range(box[s])
    BY <1>1, <1>2 DEF Shape, Typed, Boxes
  <2>2. /\ Append(box[s], l) \in Seq(Links) /\ IsInjective(Append(box[s], l))
        /\ Range(Append(box[s], l)) = Range(box[s]) \union {l}
    BY <2>1, AppendFacts
  <2> QED BY <1>1, <1>2, <2>2 DEF Shape, Typed
<1> HIDE DEF x, y, s
<1>7. Typed' BY <1>1, <1>2, <1>5, <1>6, SMTT(30) DEF Shape, Typed
<1>8. Boxes'
  <2> SUFFICES ASSUME NEW i \in States
               PROVE  /\ IsInjective(box'[i]) /\ IsInjective(cancelBox'[i])
                      /\ \A n \in Links : n \in Range(box'[i]) <=> Src[n] = i /\ life'[n] = "linked"
                      /\ \A n \in Range(cancelBox'[i]) :
                           On(n) = i /\ life'[n] # "unborn" /\ (n \in Cancels => life'[n] = "linked")
    BY DEF Boxes, On
  <2>1. IsInjective(box'[i]) /\ IsInjective(cancelBox'[i])
    BY <1>1, <1>6 DEF Shape, Boxes
  <2>2. \A n \in Links \union Cancels : life'[n] = IF n = l THEN "linked" ELSE life[n]
    BY <1>1 DEF Shape, Typed
  <2>3. \A n \in Links : n \in Range(box'[i]) <=> Src[n] = i /\ life'[n] = "linked"
    BY <1>2, <1>6, <2>2 DEF Shape, Boxes, s
  <2>4. \A n \in Range(cancelBox[i]) : n \in Chains \union Cancels
    BY DEF Shape, Typed, Range
  <2>5. ASSUME NEW n \in Range(cancelBox'[i])
        PROVE  On(n) = i /\ life'[n] # "unborn" /\ (n \in Cancels => life'[n] = "linked")
    BY <1>1, <2>2, <2>4 DEF Shape, Boxes, Chains
  <2> QED BY <2>1, <2>3, <2>5
<1>9. Born' BY <1>1, <1>2, <1>4, FutureAssumption, SMTT(30) DEF Shape, Typed, Born, s
<1>10. Real(x)' /\ Real(y)' BY <1>1, <1>2, <1>3, <1>4 DEF Real
<1>11. \A z \in Range(work) : Real(z)'
  <2>1. LivesOn BY <1>1 DEF Shape, Typed, LivesOn
  <2>2. \A i \in States : Range(box[i]) \subseteq Range(box'[i]) BY <1>6
  <2> QED BY <1>1, <2>1, <2>2, RealFrame
<1> QED BY <1>5, <1>7, <1>8, <1>9, <1>10, <1>11 DEF Shape
LEMMA NewPromiseShape ==
  ASSUME Shape, NEW s \in States, NewPromise(s) PROVE Shape'
<1>1. /\ mode[s] = "unborn" /\ \A l \in Chains : Dst[l] # s
      /\ mode' = [mode EXCEPT ![s] = "unresolved"]
      /\ promises' = [promises EXCEPT ![s] = 1]
      /\ proH' = [proH EXCEPT ![s] = 1]
      /\ UNCHANGED <<futures, box, cancelBox, life, out, futH, asked, work>>
  BY DEF NewPromise
<1>2. Typed'
  <2>1. 1 \in 0 .. MaxHandles BY Consts
  <2> QED BY <1>1, <2>1 DEF Shape, Typed
<1>3. Boxes' BY <1>1 DEF Shape, Boxes
<1>4. Born'
  <2>1. \A i \in States : mode'[i] = "unborn" =>
       /\ futH'[i] = 0 /\ proH'[i] = 0 /\ futures'[i] = 0 /\ promises'[i] = 0 /\ i \notin asked'
       /\ box'[i] = <<>> /\ cancelBox'[i] = <<>>
    BY <1>1 DEF Shape, Typed, Born
  <2>2. \A x \in Links \union Cancels : life'[x] # "unborn" => mode'[Src[x]] # "unborn"
    BY <1>1, Consts DEF Shape, Typed, Born
  <2>3. \A l \in Chains : life'[l] = "unborn" <=> mode'[Dst[l]] = "unborn"
    BY <1>1, Consts DEF Shape, Typed, Born
  <2>4. \A l \in out' : life'[l] # "unborn" BY <1>1 DEF Shape, Born
  <2> QED BY <2>1, <2>2, <2>3, <2>4 DEF Born
<1>5. \A x \in Range(work) : Real(x)'
  <2>1. \A i \in States : mode[i] # "unborn" => mode'[i] # "unborn" BY <1>1 DEF Shape, Typed
  <2>2. LivesOn BY <1>1 DEF LivesOn
  <2> QED BY <1>1, <2>1, <2>2, RealFrame
<1> QED BY <1>1, <1>2, <1>3, <1>4, <1>5 DEF Shape

LEMMA MethodEndsShape ==
  ASSUME Shape, MethodEnds \/ WalkEnds PROVE Shape'
<1>1. /\ work # <<>> /\ work' = Tail(work)
      /\ UNCHANGED <<mode, futures, promises, box, cancelBox, life, out, futH, proH, asked>>
  BY DEF MethodEnds, WalkEnds, Is
<1>2. Tail(work) \in Seq(Items) /\ Range(Tail(work)) \subseteq Range(work) BY <1>1, WorkTop
<1>3. Typed' BY <1>1, <1>2 DEF Shape, Typed
<1> QED BY <1>1, <1>2, <1>3, StillShape

LEMMA CancelSourceShape ==
  ASSUME Shape, CancelSource PROVE Shape'
<1> DEFINE s == Top.on
<1>1. /\ work # <<>> /\ Top.op = "cancel" /\ Cancelled(s, Tail(work))
      /\ UNCHANGED <<futures, promises, box, cancelBox, life, out, futH, proH, asked>>
  BY DEF CancelSource, Is
<1>2. Tail(work) \in Seq(Items) /\ Range(Tail(work)) \subseteq Range(work) /\ Real(Top)
  BY <1>1, WorkTop
<1>3. s \in States /\ mode[s] # "unborn" BY <1>1, <1>2 DEF Real
<1> HIDE DEF s
<1>4. /\ mode' \in [States -> {"unborn", "unresolved", "deleted"} \union Resolved]
      /\ \A i \in States : mode'[i] = "unborn" <=> mode[i] = "unborn"
      /\ work' \in Seq(Items)
      /\ \A x \in Range(work') : x \in Range(Tail(work)) \/ Real(x)'
  BY <1>1, <1>2, <1>3, CancelledFacts
<1>5. Typed' BY <1>1, <1>4 DEF Shape, Typed
<1> QED BY <1>1, <1>2, <1>4, <1>5, StillShape

LEMMA ActivateShape ==
  ASSUME Shape, Activate PROVE Shape'
<1>0. PICK s, x : s = Top.on /\ x = Walk("links", s, box[s]) OBVIOUS
<1>1. /\ work # <<>> /\ Top.op = "activate" /\ work' = Over(x, Tail(work))
      /\ UNCHANGED <<mode, futures, promises, box, cancelBox, life, out, futH, proH, asked>>
  BY <1>0 DEF Activate, Is, Over
<1>2. Tail(work) \in Seq(Items) /\ Range(Tail(work)) \subseteq Range(work) /\ Real(Top)
  BY <1>1, WorkTop
<1>3. s \in States /\ mode[s] # "unborn" BY <1>0, <1>1, <1>2 DEF Real
<1>4. box[s] \in Seq(Links \union Cancels) /\ IsInjective(box[s])
  BY <1>3, SeqMonotonic DEF Shape, Typed, Boxes
<1>5. x \in Items /\ x.op = "links" /\ x.on = s /\ x.todo = box[s]
  BY <1>0, <1>3, <1>4, MadeWalk DEF Ops
<1>6. work' \in Seq(Items) /\ Range(work') = {x} \union Range(Tail(work))
  BY <1>1, <1>2, <1>5, PushItem
<1>7. Typed' BY <1>1, <1>6 DEF Shape, Typed
<1>8. Real(x)' BY <1>1, <1>3, <1>4, <1>5 DEF Real
<1>9. \A i \in Range(work') : i \in Range(work) \/ Real(i)' BY <1>2, <1>6, <1>8
<1> QED BY <1>1, <1>7, <1>9, StillShape

LEMMA FlushOwnerShape ==
  ASSUME Shape, NEW l \in Links, FlushOwner(l) PROVE Shape'
<1> DEFINE x == Do("delete", l)
<1>1. /\ life[l] = "linked" /\ work' = Over(x, work)
      /\ UNCHANGED <<mode, futures, promises, box, cancelBox, life, out, futH, proH, asked>>
  BY DEF FlushOwner, Over
<1>2. x \in Items /\ x.op = "delete" /\ x.on = l /\ x.todo = <<>>
  BY Made DEF Ops
<1> HIDE DEF x
<1>3. work \in Seq(Items) BY DEF Shape, Typed
<1>4. work' \in Seq(Items) /\ Range(work') = {x} \union Range(work)
  BY <1>1, <1>2, <1>3, PushItem
<1>5. Typed' BY <1>1, <1>4 DEF Shape, Typed
<1>6. Real(x)' BY <1>1, <1>2 DEF Real
<1>7. \A i \in Range(work') : i \in Range(work) \/ Real(i)' BY <1>4, <1>6
<1> QED BY <1>1, <1>5, <1>7, StillShape

(* The cancel continuations of a state go.                                   *)
LEMMA EmptiedFacts ==
  ASSUME Shape, NEW s \in States, Emptied(s), box' = box
  PROVE  /\ life' \in [Links \union Cancels -> {"unborn", "linked", "running", "deleted"}]
         /\ cancelBox' \in [States -> Seq(Chains \union Cancels)]
         /\ Boxes'
         /\ \A x \in Links \union Cancels : life'[x] = "unborn" <=> life[x] = "unborn"
         /\ LivesOn
         /\ \A l \in Links : life'[l] = life[l]
         /\ cancelBox'[s] = <<>> /\ \A i \in States \ {s} : cancelBox'[i] = cancelBox[i]
<1>1. /\ life \in [Links \union Cancels -> {"unborn", "linked", "running", "deleted"}]
      /\ cancelBox \in [States -> Seq(Chains \union Cancels)]
  BY DEF Shape, Typed
<1>2. /\ cancelBox' = [cancelBox EXCEPT ![s] = <<>>]
      /\ life' = [x \in DOMAIN life |->
                    IF x \in Range(cancelBox[s]) \ Links THEN "deleted" ELSE life[x]]
  BY DEF Emptied
<1>3. /\ \A x \in Links \union Cancels :
           life'[x] = IF x \in Range(cancelBox[s]) \ Links THEN "deleted" ELSE life[x]
      /\ life' \in [Links \union Cancels -> {"unborn", "linked", "running", "deleted"}]
  BY <1>1, <1>2
<1>4. /\ cancelBox'[s] = <<>> /\ \A i \in States \ {s} : cancelBox'[i] = cancelBox[i]
      /\ cancelBox' \in [States -> Seq(Chains \union Cancels)]
  BY <1>1, <1>2
<1>5. \A i \in States : \A x \in Range(cancelBox[i]) :
        x \in Links \union Cancels /\ On(x) = i /\ life[x] # "unborn" /\ (x \in Cancels => life[x] = "linked")
  BY <1>1, Consts DEF Shape, Boxes, Range
<1>6. \A x \in Links \union Cancels : life'[x] = "unborn" <=> life[x] = "unborn"
  BY <1>3, <1>5
<1>7. \A l \in Links : life'[l] = life[l] BY <1>3
<1>8. Boxes'
  <2> SUFFICES ASSUME NEW i \in States
               PROVE  /\ IsInjective(box'[i]) /\ IsInjective(cancelBox'[i])
                      /\ \A n \in Links : n \in Range(box'[i]) <=> Src[n] = i /\ life'[n] = "linked"
                      /\ \A n \in Range(cancelBox'[i]) :
                           On(n) = i /\ life'[n] # "unborn" /\ (n \in Cancels => life'[n] = "linked")
    BY DEF Boxes, On
  <2>1. IsInjective(box'[i]) /\ \A n \in Links : n \in Range(box'[i]) <=> Src[n] = i /\ life'[n] = "linked"
    BY <1>7 DEF Shape, Boxes
  <2>2. CASE i = s
    <3>1. Range(cancelBox'[i]) = {} /\ IsInjective(cancelBox'[i])
      BY <1>4, <2>2 DEF Range, IsInjective
    <3> QED BY <2>1, <3>1
  <2>3. CASE i # s
    <3>1. cancelBox'[i] = cancelBox[i] BY <1>4, <2>3
    <3>2. ASSUME NEW n \in Range(cancelBox[i]) PROVE life'[n] = life[n]
      BY <1>3, <1>5, <2>3
    <3>3. IsInjective(cancelBox'[i]) BY <3>1 DEF Shape, Boxes
    <3> QED BY <1>5, <2>1, <3>1, <3>2, <3>3
  <2> QED BY <2>2, <2>3
<1>9. LivesOn BY <1>3, <1>6 DEF LivesOn
<1> QED BY <1>3, <1>4, <1>6, <1>7, <1>8, <1>9

LEMMA ExecuteShape ==
  ASSUME Shape, Execute PROVE Shape'
<1>0. PICK s : s = Top.on OBVIOUS
<1>1. /\ work # <<>> /\ Top.op = "execute"
      /\ UNCHANGED <<mode, box, out, futH, proH, asked>>
  BY DEF Execute, Is
<1>2. Tail(work) \in Seq(Items) /\ Range(Tail(work)) \subseteq Range(work) /\ Real(Top)
  BY <1>1, WorkTop
<1>3. s \in States /\ mode[s] # "unborn" BY <1>0, <1>1, <1>2 DEF Real
<1>4. ASSUME mode[s] \in Resolved, UNCHANGED <<cancelBox, life>>,
             promises' = [promises EXCEPT ![s] = @ + 1], futures' = futures,
             work' = <<Walk("cancels", s, cancelBox[s]), Do("activate", s),
                       Do("decPromise", s)>> \o Tail(work)
      PROVE  Shape'
  <2>0. PICK x, y, z : x = Walk("cancels", s, cancelBox[s]) /\ y = Do("activate", s) /\ z = Do("decPromise", s)
    OBVIOUS
  <2>1. cancelBox[s] \in Seq(Links \union Cancels) /\ IsInjective(cancelBox[s])
    <3>1. cancelBox[s] \in Seq(Chains \union Cancels) /\ IsInjective(cancelBox[s])
      BY <1>3 DEF Shape, Typed, Boxes
    <3> QED BY <3>1, SeqMonotonic, Consts
  <2>2. x \in Items /\ x.op = "cancels" /\ x.on = s /\ x.todo = cancelBox[s]
    BY <1>3, <2>0, <2>1, MadeWalk DEF Ops
  <2>3. /\ y \in Items /\ y.op = "activate" /\ y.on = s /\ y.todo = <<>>
        /\ z \in Items /\ z.op = "decPromise" /\ z.on = s /\ z.todo = <<>>
    BY <1>3, <2>0, Made DEF Ops
  <2>4. work' \in Seq(Items) /\ Range(work') = {x, y, z} \union Range(Tail(work))
    <3>1. work' = <<x, y, z>> \o Tail(work) BY <1>4, <2>0
    <3>2. Tail(work) \in Seq(Items) /\ x \in Items /\ y \in Items /\ z \in Items
      BY <1>2, <2>2, <2>3
    <3>3. work' = Over(x, Over(y, Over(z, Tail(work)))) BY <3>1, <3>2, PushItemsThree, ZenonT(30)
    <3>4. PICK w \in Seq(Items) : w = Tail(work) BY <3>2
    <3>5. /\ Over(x, Over(y, Over(z, w))) \in Seq(Items)
          /\ Range(Over(x, Over(y, Over(z, w)))) = {x, y, z} \union Range(w)
      BY <3>2, OverThree
    <3> QED BY <3>3, <3>4, <3>5
  <2>5. Typed'
    <3>1. promises' \in [States -> Int] BY <1>3, <1>4 DEF Shape, Typed
    <3>2. UNCHANGED <<futures, cancelBox, life>> BY <1>4
    <3> QED BY <1>1, <2>4, <3>1, <3>2 DEF Shape, Typed
  <2>6. \A i \in Range(cancelBox[s]) : i \in Chains \union Cancels /\ On(i) = s /\ life[i] # "unborn"
    <3>1. cancelBox[s] \in Seq(Chains \union Cancels) BY <1>3 DEF Shape, Typed
    <3>2. \A i \in Range(cancelBox[s]) : i \in Chains \union Cancels BY <3>1 DEF Range
    <3>3. \A i \in Range(cancelBox[s]) : On(i) = s /\ life[i] # "unborn" BY <1>3 DEF Shape, Boxes
    <3> QED BY <3>2, <3>3
  <2>7. Real(x)'
    <3>1. x.op = "cancels" /\ x.on \in States /\ mode'[x.on] # "unborn" /\ IsInjective(x.todo)
      BY <1>1, <1>3, <2>1, <2>2
    <3>2. \A i \in Range(x.todo) : i \in Chains \union Cancels /\ On(i) = x.on /\ life'[i] # "unborn"
      BY <1>4, <2>2, <2>6
    <3> QED BY <3>1, <3>2 DEF Real, On, Chains
  <2>8. Real(y)' /\ Real(z)' BY <1>1, <1>3, <2>3 DEF Real
  <2>9. \A i \in Range(work') : i \in Range(work) \/ Real(i)' BY <1>2, <2>4, <2>7, <2>8
  <2>10. \A i \in States : mode[i] = "unborn" => promises'[i] = promises[i]
    BY <1>3, <1>4 DEF Shape, Typed
  <2> QED BY <1>1, <1>4, <2>5, <2>9, <2>10, StillShape
<1>5. ASSUME mode[s] \in Resolved, Emptied(s), promises' = promises,
             futures' \in [States -> Int], \A i \in States : mode[i] = "unborn" => futures'[i] = futures[i],
             work' \in Seq(Items),
             \A x \in Range(work') : x \in Range(work) \/ x \in {Do("activate", s), Do("decFuture", s)}
      PROVE  Shape'
  <2>0. PICK y, z : y = Do("activate", s) /\ z = Do("decFuture", s) OBVIOUS
  <2>1. /\ y \in Items /\ y.op = "activate" /\ y.on = s /\ y.todo = <<>>
        /\ z \in Items /\ z.op = "decFuture" /\ z.on = s /\ z.todo = <<>>
    BY <1>3, <2>0, Made DEF Ops
  <2>2. /\ life' \in [Links \union Cancels -> {"unborn", "linked", "running", "deleted"}]
        /\ cancelBox' \in [States -> Seq(Chains \union Cancels)]
        /\ Boxes'
        /\ \A x \in Links \union Cancels : life'[x] = "unborn" <=> life[x] = "unborn"
        /\ LivesOn
        /\ \A i \in States \ {s} : cancelBox'[i] = cancelBox[i]
    BY <1>1, <1>3, <1>5, EmptiedFacts
  <2>3. Typed' BY <1>1, <1>5, <2>2 DEF Shape, Typed
  <2>4. Real(y)' /\ Real(z)' BY <1>1, <1>3, <2>1 DEF Real
  <2>5. \A x \in Range(work) : Real(x)' BY <1>1, <2>2, RealFrame
  <2>6. \A i \in States : mode[i] = "unborn" => cancelBox'[i] = cancelBox[i] BY <1>3, <2>2
  <2>7. \A x \in Range(work') : Real(x)' BY <1>5, <2>0, <2>4, <2>5
  <2> QED BY <1>1, <1>5, <2>2, <2>3, <2>6, <2>7, MovedShape
<1>6. Do("activate", s) \in Items /\ Do("decFuture", s) \in Items BY <1>3, Made DEF Ops
<1>7. ASSUME mode[s] = "cancel", Emptied(s), promises' = promises,
             futures' = [futures EXCEPT ![s] = @ + 1],
             work' = <<Do("activate", s), Do("decFuture", s)>> \o Tail(work)
      PROVE  Shape'
  <2>1. work' \in Seq(Items) /\ Range(work') = {Do("activate", s), Do("decFuture", s)} \union Range(Tail(work))
    <3>1. work' = Over(Do("activate", s), Over(Do("decFuture", s), Tail(work)))
      BY <1>2, <1>6, <1>7, PushItems
    <3> QED BY <1>2, <1>6, <3>1, OverTwo
  <2>2. futures' \in [States -> Int] /\ \A i \in States : mode[i] = "unborn" => futures'[i] = futures[i]
    BY <1>3, <1>7 DEF Shape, Typed
  <2> QED BY <1>2, <1>5, <1>7, <2>1, <2>2 DEF Resolved
<1>8. ASSUME mode[s] = "value", Emptied(s), promises' = promises, futures' = futures,
             work' = <<Do("activate", s)>> \o Tail(work)
      PROVE  Shape'
  <2>1. work' \in Seq(Items) /\ Range(work') = {Do("activate", s)} \union Range(Tail(work))
    BY <1>2, <1>6, <1>8, PushItem DEF Over
  <2>2. futures' \in [States -> Int] BY <1>8 DEF Shape, Typed
  <2> QED BY <1>2, <1>5, <1>8, <2>1, <2>2 DEF Resolved
<1> QED BY <1>0, <1>4, <1>7, <1>8 DEF Execute, Resolved

(* The innermost call t, and the stack w below it.                           *)
LEMMA TopFacts ==
  ASSUME Shape, work # <<>>
  PROVE  \E t \in Items, w \in Seq(Items) :
           /\ t = Top /\ w = Tail(work) /\ Real(t)
           /\ work = Over(t, w) /\ Range(work) = {t} \union Range(w)
<1>1. Top \in Items /\ Real(Top) /\ Tail(work) \in Seq(Items) BY WorkTop
<1>2. PICK t \in Items, w \in Seq(Items) : t = Top /\ w = Tail(work) BY <1>1
<1>3. work \in Seq(Items) BY DEF Shape, Typed
<1>4. work = Over(t, w) BY <1>2, <1>3, Pop DEF Over, Top
<1>5. Range(work) = {t} \union Range(w) BY <1>4, PushItem
<1> QED BY <1>1, <1>2, <1>4, <1>5

(* checkCounters: s goes, is cancelled, or stays as it is.                   *)
Gone(s, w) ==
  /\ futures'[s] = 0 /\ promises'[s] = 0
  /\ mode' = [mode EXCEPT ![s] = "deleted"]
  /\ life' = [x \in DOMAIN life |->
                IF x \in Range(box[s]) \union (Range(cancelBox[s]) \ Links)
                THEN "deleted" ELSE life[x]]
  /\ box' = [box EXCEPT ![s] = <<>>] /\ cancelBox' = [cancelBox EXCEPT ![s] = <<>>]
  /\ work' = Cut(w, s)

Closed(s, w) ==
  /\ (futures'[s] = 0) # (promises'[s] = 0)
  /\ mode[s] = "unresolved" /\ mode' = [mode EXCEPT ![s] = "cancel"]
  /\ work' = Over(Do("execute", s), w)
  /\ UNCHANGED <<box, cancelBox, life>>

Stays(s, w) ==
  /\ futures'[s] # 0 \/ promises'[s] # 0
  /\ mode[s] = "unresolved" => futures'[s] # 0 /\ promises'[s] # 0
  /\ work' = w
  /\ UNCHANGED <<mode, box, cancelBox, life>>

LEMMA DecStep ==
  ASSUME Shape, DecFuture \/ DecPromise
  PROVE  \E s \in States, w \in Seq(Items), m \in {"decFuture", "decPromise"} :
           /\ work # <<>> /\ Top = Do(m, s) /\ w = Tail(work)
           /\ work = Over(Do(m, s), w) /\ Range(work) = {Do(m, s)} \union Range(w)
           /\ mode[s] # "unborn"
           /\ futures' = [futures EXCEPT ![s] = IF m = "decFuture" THEN @ - 1 ELSE @]
           /\ promises' = [promises EXCEPT ![s] = IF m = "decPromise" THEN @ - 1 ELSE @]
           /\ Gone(s, w) \/ Closed(s, w) \/ Stays(s, w)
           /\ UNCHANGED <<out, futH, proH, asked>>
<1>1. work # <<>> /\ Top.op \in {"decFuture", "decPromise"} BY DEF DecFuture, DecPromise, Is
<1>2. PICK t \in Items, w \in Seq(Items) :
           /\ t = Top /\ w = Tail(work) /\ Real(t)
           /\ work = Over(t, w) /\ Range(work) = {t} \union Range(w)
  BY <1>1, TopFacts
<1>3. PICK s, m : s = t.on /\ m = t.op OBVIOUS
<1>4. m \in {"decFuture", "decPromise"} /\ s \in States /\ mode[s] # "unborn" /\ t = Do(m, s)
  BY <1>1, <1>2, <1>3, Same DEF Real
<1>5. PICK f, p : /\ f = IF m = "decFuture" THEN futures[s] - 1 ELSE futures[s]
                  /\ p = IF m = "decPromise" THEN promises[s] - 1 ELSE promises[s]
  OBVIOUS
<1>6. /\ futures' = [futures EXCEPT ![s] = f] /\ promises' = [promises EXCEPT ![s] = p]
      /\ Checked(s, f, p, w) /\ UNCHANGED <<out, futH, proH, asked>>
  <2>1. CASE DecFuture
    <3>1. m = "decFuture" BY <1>2, <1>3, <2>1 DEF DecFuture, Is
    <3>2. promises' = promises /\ promises = [promises EXCEPT ![s] = promises[s]]
      BY <2>1 DEF DecFuture, Shape, Typed
    <3> QED BY <1>2, <1>3, <1>5, <2>1, <3>1, <3>2 DEF DecFuture
  <2>2. CASE DecPromise
    <3>1. m = "decPromise" BY <1>2, <1>3, <2>2 DEF DecPromise, Is
    <3>2. futures' = futures /\ futures = [futures EXCEPT ![s] = futures[s]]
      BY <2>2 DEF DecPromise, Shape, Typed
    <3> QED BY <1>2, <1>3, <1>5, <2>2, <3>1, <3>2 DEF DecPromise
  <2> QED BY <2>1, <2>2
<1>7. futures'[s] = f /\ promises'[s] = p BY <1>4, <1>6 DEF Shape, Typed
<1>8. Gone(s, w) \/ Closed(s, w) \/ Stays(s, w)
  <2>1. CASE f = 0 /\ p = 0 BY <1>6, <1>7, <2>1 DEF Checked, Gone, Cut
  <2>2. CASE ~ (f = 0 /\ p = 0) /\ (f = 0 \/ p = 0) /\ mode[s] = "unresolved"
    BY <1>6, <1>7, <2>2 DEF Checked, Closed, Over
  <2>3. CASE ~ (f = 0 /\ p = 0) /\ ~ ((f = 0 \/ p = 0) /\ mode[s] = "unresolved")
    BY <1>6, <1>7, <2>3 DEF Checked, Stays
  <2> QED BY <2>1, <2>2, <2>3
<1>9. /\ futures' = [futures EXCEPT ![s] = IF m = "decFuture" THEN @ - 1 ELSE @]
      /\ promises' = [promises EXCEPT ![s] = IF m = "decPromise" THEN @ - 1 ELSE @]
  BY <1>5, <1>6
<1> QED BY <1>1, <1>2, <1>4, <1>6, <1>8, <1>9

(* Giving back a counter: the state is deleted, cancelled, or stays.         *)
LEMMA GoneShape ==
  ASSUME Shape, NEW s \in States, NEW w \in Seq(Items), Range(w) \subseteq Range(work),
         mode[s] # "unborn", Gone(s, w),
         futures' \in [States -> Int], promises' \in [States -> Int],
         \A i \in States \ {s} : futures'[i] = futures[i] /\ promises'[i] = promises[i],
         UNCHANGED <<out, futH, proH, asked>>
  PROVE  Shape'
<1>1. /\ life \in [Links \union Cancels -> {"unborn", "linked", "running", "deleted"}]
      /\ cancelBox \in [States -> Seq(Chains \union Cancels)] /\ box \in [States -> Seq(Links)]
      /\ mode \in [States -> {"unborn", "unresolved", "deleted"} \union Resolved]
  BY DEF Shape, Typed
<1>2. \A i \in States :
        /\ mode'[i] = IF i = s THEN "deleted" ELSE mode[i]
        /\ box'[i] = IF i = s THEN <<>> ELSE box[i]
        /\ cancelBox'[i] = IF i = s THEN <<>> ELSE cancelBox[i]
  BY <1>1 DEF Gone
<1>3. /\ mode' \in [States -> {"unborn", "unresolved", "deleted"} \union Resolved]
      /\ box' \in [States -> Seq(Links)] /\ cancelBox' \in [States -> Seq(Chains \union Cancels)]
  BY <1>1 DEF Gone
<1>4. /\ \A x \in Links \union Cancels :
           life'[x] = IF x \in Range(box[s]) \union (Range(cancelBox[s]) \ Links)
                      THEN "deleted" ELSE life[x]
      /\ life' \in [Links \union Cancels -> {"unborn", "linked", "running", "deleted"}]
  BY <1>1 DEF Gone
<1>5. \A i \in States : \A x \in Range(cancelBox[i]) :
        x \in Links \union Cancels /\ On(x) = i /\ life[x] # "unborn" /\ (x \in Cancels => life[x] = "linked")
  BY <1>1, Consts DEF Shape, Boxes, Range
<1>6. \A i \in States : \A x \in Range(box[i]) : x \in Links /\ Src[x] = i /\ life[x] = "linked"
  BY <1>1 DEF Shape, Boxes, Range
<1>7. \A x \in Links \union Cancels : life'[x] = "unborn" <=> life[x] = "unborn"
  BY <1>4, <1>5, <1>6
<1>8. Range(<<>>) = {} /\ IsInjective(<<>>) BY DEF Range, IsInjective
<1>9. Boxes'
  <2> SUFFICES ASSUME NEW i \in States
               PROVE  /\ IsInjective(box'[i]) /\ IsInjective(cancelBox'[i])
                      /\ \A n \in Links : n \in Range(box'[i]) <=> Src[n] = i /\ life'[n] = "linked"
                      /\ \A n \in Range(cancelBox'[i]) :
                           On(n) = i /\ life'[n] # "unborn" /\ (n \in Cancels => life'[n] = "linked")
    BY DEF Boxes, On
  <2>1. IsInjective(box'[i]) /\ IsInjective(cancelBox'[i]) BY <1>2, <1>8 DEF Shape, Boxes
  <2>2. ASSUME NEW n \in Links PROVE n \in Range(box'[i]) <=> Src[n] = i /\ life'[n] = "linked"
    <3>1. n \notin Range(cancelBox[s]) \ Links OBVIOUS
    <3>2. n \in Range(box[i]) <=> Src[n] = i /\ life[n] = "linked" BY DEF Shape, Boxes
    <3>3. n \in Range(box[s]) <=> Src[n] = s /\ life[n] = "linked" BY DEF Shape, Boxes
    <3>4. life'[n] = IF n \in Range(box[s]) THEN "deleted" ELSE life[n] BY <1>4, <3>1
    <3>5. CASE i = s BY <1>2, <1>8, <3>2, <3>3, <3>4, <3>5
    <3>6. CASE i # s BY <1>2, <3>2, <3>3, <3>4, <3>6
    <3> QED BY <3>5, <3>6
  <2>3. ASSUME NEW n \in Range(cancelBox'[i])
        PROVE  On(n) = i /\ life'[n] # "unborn" /\ (n \in Cancels => life'[n] = "linked")
    <3>1. i # s /\ n \in Range(cancelBox[i]) BY <1>2, <1>8
    <3>2. n \in Cancels => n \notin Range(box[s]) /\ n \notin Range(cancelBox[s])
      BY <1>5, <1>6, <3>1, Consts
    <3> QED BY <1>4, <1>5, <1>7, <3>1, <3>2
  <2> QED BY <2>1, <2>2, <2>3
<1>10. /\ Like(Cut(w, s), w)
       /\ \A z \in Range(Cut(w, s)) : \E y \in Range(w) : Ended(y, z, s)
  <2>1. \A y \in Range(w) : y.op \notin {"links", "cancels"} => y.todo = <<>>
    BY DEF Shape, Real
  <2> QED BY <2>1, CutFacts
<1>11. Typed' BY <1>3, <1>4, <1>10 DEF Shape, Typed, Gone, Like
<1>12. ASSUME NEW z \in Range(work') PROVE Real(z)'
  <2>1. PICK y \in Range(w) : Ended(y, z, s) BY <1>10 DEF Gone
  <2>2. Real(y) BY DEF Shape
  <2>3. y.op \notin {"call", "delete"} => z.on \in States /\ mode'[z.on] # "unborn"
    BY <1>2, <2>1, <2>2 DEF Real, Ended
  <2>4. /\ y.op \in {"call", "delete"} => z.on \in Links \union Cancels /\ life'[z.on] # "unborn"
        /\ y.op = "call" => life'[z.on] \in {"running", "deleted"}
    BY <1>4, <1>7, <2>1, <2>2 DEF Real, Ended
  <2>5. y.op = "links" => IsInjective(z.todo) /\ Range(z.todo) \subseteq Range(box'[z.on])
    BY <1>2, <1>8, <2>1, <2>2 DEF Real, Ended
  <2>6. y.op = "cancels" => IsInjective(z.todo) /\ \A n \in Range(z.todo) :
            n \in Chains \union Cancels /\ On(n) = z.on /\ life'[n] # "unborn"
    <3>1. \A n \in Chains : n \in Links BY Consts
    <3> QED BY <1>7, <1>8, <2>1, <2>2, <3>1 DEF Real, Ended
  <2>7. y.op \notin {"links", "cancels"} => z = y BY <2>1 DEF Ended
  <2>8. z.op = y.op BY <2>1 DEF Ended
  <2> QED BY <2>2, <2>3, <2>4, <2>5, <2>6, <2>7, <2>8 DEF Real, On, Chains
<1>13. \A i \in States : (mode'[i] = "unborn" <=> mode[i] = "unborn") BY <1>2
<1>14. \A i \in States : mode[i] = "unborn" =>
         futures'[i] = futures[i] /\ promises'[i] = promises[i] /\ box'[i] = box[i] /\ cancelBox'[i] = cancelBox[i]
  BY <1>2
<1> QED BY <1>7, <1>9, <1>11, <1>12, <1>13, <1>14, MovedShape

LEMMA DecShape ==
  ASSUME Shape, DecFuture \/ DecPromise PROVE Shape'
<1>1. PICK s \in States, w \in Seq(Items), m \in {"decFuture", "decPromise"} :
           /\ Range(work) = {Do(m, s)} \union Range(w)
           /\ mode[s] # "unborn"
           /\ futures' = [futures EXCEPT ![s] = IF m = "decFuture" THEN @ - 1 ELSE @]
           /\ promises' = [promises EXCEPT ![s] = IF m = "decPromise" THEN @ - 1 ELSE @]
           /\ Gone(s, w) \/ Closed(s, w) \/ Stays(s, w)
           /\ UNCHANGED <<out, futH, proH, asked>>
  BY DecStep
<1>2. /\ futures' \in [States -> Int] /\ promises' \in [States -> Int]
      /\ \A i \in States \ {s} : futures'[i] = futures[i] /\ promises'[i] = promises[i]
  BY <1>1 DEF Shape, Typed
<1>3. Range(w) \subseteq Range(work) BY <1>1
<1>4. CASE Gone(s, w) BY <1>1, <1>2, <1>3, <1>4, GoneShape
<1>5. CASE Closed(s, w)
  <2>1. PICK x : x = Do("execute", s) OBVIOUS
  <2>2. x \in Items /\ x.op = "execute" /\ x.on = s /\ x.todo = <<>> BY <2>1, Made DEF Ops
  <2>3. work' \in Seq(Items) /\ Range(work') = {x} \union Range(w)
    BY <1>5, <2>1, <2>2, PushItem DEF Closed
  <2>4. /\ mode' \in [States -> {"unborn", "unresolved", "deleted"} \union Resolved]
        /\ \A i \in States : mode'[i] = "unborn" <=> mode[i] = "unborn"
    BY <1>5 DEF Closed, Shape, Typed, Resolved
  <2>5. UNCHANGED <<box, cancelBox, life>> BY <1>5 DEF Closed
  <2>6. Typed' BY <1>1, <1>2, <2>3, <2>4, <2>5 DEF Shape, Typed
  <2>7. Real(x)' BY <1>1, <2>2, <2>4 DEF Real
  <2>8. \A i \in Range(work') : i \in Range(work) \/ Real(i)' BY <1>3, <2>3, <2>7
  <2> QED BY <1>1, <1>2, <2>4, <2>5, <2>6, <2>8, StillShape
<1>6. CASE Stays(s, w)
  <2>1. UNCHANGED <<mode, box, cancelBox, life>> /\ work' = w BY <1>6 DEF Stays
  <2>2. Typed' BY <1>1, <1>2, <2>1 DEF Shape, Typed
  <2> QED BY <1>1, <1>2, <1>3, <2>1, <2>2, StillShape
<1> QED BY <1>1, <1>4, <1>5, <1>6

(* A continuation is called, and leaves its box and the walks over it.       *)
LEMMA CallLinkStep ==
  ASSUME Shape, CallLink
  PROVE  \E t \in Items, l \in Links, v \in Seq(Items) :
           /\ work # <<>> /\ t = Top /\ t \in Range(work) /\ t.op = "links"
           /\ t.on = Src[l] /\ l \in Range(t.todo)
           /\ life[l] = "linked" /\ l \in Range(box[Src[l]])
           /\ box' = [box EXCEPT ![Src[l]] = RemoveFirst(@, l)]
           /\ life' = [life EXCEPT ![l] = "running"]
           /\ futures' = [futures EXCEPT ![Src[l]] = @ + 1]
           /\ work' = Over(Do("call", l), v)
           /\ Like(v, work)
           /\ \A z \in Range(v) : \E y \in Range(work) : Loses(y, z, "links", l)
           /\ \A y \in Range(work) : \E z \in Range(v) : Loses(y, z, "links", l)
           /\ UNCHANGED <<mode, promises, cancelBox, out, futH, proH, asked>>
<1>1. PICK l : l = Head(Top.todo) OBVIOUS
<1>2. /\ work # <<>> /\ Top.op = "links" /\ Top.todo # <<>>
      /\ box' = [box EXCEPT ![Src[l]] = RemoveFirst(@, l)]
      /\ life' = [life EXCEPT ![l] = "running"]
      /\ futures' = [futures EXCEPT ![Src[l]] = @ + 1]
      /\ work' = Over(Do("call", l), Without(work, "links", l))
      /\ UNCHANGED <<mode, promises, cancelBox, out, futH, proH, asked>>
  BY <1>1 DEF CallLink, Is, Over
<1>3. PICK t \in Items, w \in Seq(Items) :
           /\ t = Top /\ Real(t) /\ Range(work) = {t} \union Range(w)
  BY <1>2, TopFacts
<1>4. t.todo \in Seq(Links \union Cancels) BY DEF Items
<1>5. l \in Range(t.todo) BY <1>1, <1>2, <1>3, <1>4, TailFacts
<1>6. t.on \in States /\ l \in Range(box[t.on])
  BY <1>2, <1>3, <1>5 DEF Real
<1>7. box[t.on] \in Seq(Links) BY <1>6 DEF Shape, Typed
<1>8. l \in Links BY <1>6, <1>7 DEF Range
<1>9. Src[l] = t.on /\ life[l] = "linked" BY <1>6, <1>8 DEF Shape, Boxes
<1>10. work \in Seq(Items) /\ \A y \in Range(work) : y.op = "links" => IsInjective(y.todo)
  BY DEF Shape, Typed, Real
<1>11. PICK v : v = Without(work, "links", l) OBVIOUS
<1>12. /\ Like(v, work)
       /\ \A z \in Range(v) : \E y \in Range(work) : Loses(y, z, "links", l)
       /\ \A y \in Range(work) : \E z \in Range(v) : Loses(y, z, "links", l)
  BY <1>10, <1>11, WithoutFacts
<1>13. v \in Seq(Items) BY <1>12 DEF Like
<1> QED BY <1>2, <1>3, <1>5, <1>6, <1>8, <1>9, <1>11, <1>12, <1>13

LEMMA CallCancelStep ==
  ASSUME Shape, CallCancel
  PROVE  \E t \in Items, x \in Chains \union Cancels, v \in Seq(Items) :
           /\ work # <<>> /\ t = Top /\ t \in Range(work) /\ t.op = "cancels"
           /\ t.on \in States /\ t.on = On(x)
           /\ t.todo # <<>> /\ x = Head(t.todo) /\ x \in Range(t.todo)
           /\ life[x] # "unborn"
           /\ cancelBox' = [cancelBox EXCEPT ![t.on] = RemoveFirst(@, x)]
           /\ \/ /\ x \in Chains
                 /\ futures' = [futures EXCEPT ![Src[x]] = @ + 1] /\ life' = life
                 /\ work' = Over(Do("delete", x), Over(Do("cancel", Src[x]),
                                                       Over(Do("decFuture", Src[x]), v)))
              \/ /\ x \in Cancels
                 /\ futures' = futures /\ life' = [life EXCEPT ![x] = "running"]
                 /\ work' = Over(Do("call", x), v)
           /\ Like(v, work)
           /\ \A z \in Range(v) : \E y \in Range(work) : Loses(y, z, "cancels", x)
           /\ \A y \in Range(work) : \E z \in Range(v) : Loses(y, z, "cancels", x)
           /\ UNCHANGED <<mode, promises, box, out, futH, proH, asked>>
<1>1. PICK x, v : x = Head(Top.todo) /\ v = Without(work, "cancels", x) OBVIOUS
<1>2. /\ work # <<>> /\ Top.op = "cancels" /\ Top.todo # <<>>
      /\ cancelBox' = [cancelBox EXCEPT ![Top.on] = RemoveFirst(@, x)]
      /\ UNCHANGED <<mode, promises, box, out, futH, proH, asked>>
  BY <1>1 DEF CallCancel, Is
<1>3. IF x \in Links
      THEN /\ futures' = [futures EXCEPT ![Src[x]] = @ + 1] /\ life' = life
           /\ work' = Withdraw(x) \o v
      ELSE /\ futures' = futures /\ life' = [life EXCEPT ![x] = "running"]
           /\ work' = Over(Do("call", x), v)
  BY <1>1 DEF CallCancel, Over
<1>4. PICK t \in Items, w \in Seq(Items) :
           /\ t = Top /\ Real(t) /\ Range(work) = {t} \union Range(w)
  BY <1>2, TopFacts
<1>5. t.todo \in Seq(Links \union Cancels) BY DEF Items
<1>6. x \in Range(t.todo) BY <1>1, <1>2, <1>4, <1>5, TailFacts
<1>7. t.on \in States /\ x \in Chains \union Cancels /\ On(x) = t.on /\ life[x] # "unborn"
  BY <1>2, <1>4, <1>6 DEF Real
<1>8. work \in Seq(Items) /\ \A y \in Range(work) : y.op = "cancels" => IsInjective(y.todo)
  BY DEF Shape, Typed, Real
<1>9. /\ Like(v, work)
      /\ \A z \in Range(v) : \E y \in Range(work) : Loses(y, z, "cancels", x)
      /\ \A y \in Range(work) : \E z \in Range(v) : Loses(y, z, "cancels", x)
  BY <1>1, <1>8, WithoutFacts
<1>10. v \in Seq(Items) BY <1>9 DEF Like
<1>11. \/ /\ x \in Chains
          /\ futures' = [futures EXCEPT ![Src[x]] = @ + 1] /\ life' = life
          /\ work' = Over(Do("delete", x), Over(Do("cancel", Src[x]),
                                                Over(Do("decFuture", Src[x]), v)))
       \/ /\ x \in Cancels
          /\ futures' = futures /\ life' = [life EXCEPT ![x] = "running"]
          /\ work' = Over(Do("call", x), v)
  <2>1. CASE x \in Chains
    <3>1. x \in Links /\ Src[x] \in States BY <2>1, Consts
    <3>2. PICK a \in Items, b \in Items, c \in Items :
            a = Do("delete", x) /\ b = Do("cancel", Src[x]) /\ c = Do("decFuture", Src[x])
      BY <3>1, Made DEF Ops
    <3>3. Withdraw(x) = <<a, b, c>> BY <3>2 DEF Withdraw
    <3>4. <<a, b, c>> \o v = Over(a, Over(b, Over(c, v))) BY <1>10, PushItemsThree
    <3> QED BY <1>3, <2>1, <3>1, <3>2, <3>3, <3>4
  <2>2. CASE x \in Cancels
    <3>1. x \notin Links BY <2>2, Consts
    <3> QED BY <1>3, <2>2, <3>1
  <2> QED BY <1>7, <2>1, <2>2
<1>12. /\ work # <<>> /\ t = Top /\ t \in Range(work) /\ t.op = "cancels"
       /\ t.on \in States /\ t.on = On(x)
       /\ t.todo # <<>> /\ x = Head(t.todo) /\ x \in Range(t.todo)
       /\ life[x] # "unborn"
       /\ cancelBox' = [cancelBox EXCEPT ![t.on] = RemoveFirst(@, x)]
  BY <1>1, <1>2, <1>4, <1>6, <1>7
<1>13. x \in Chains \union Cancels /\ v \in Seq(Items) BY <1>7, <1>10
<1> QED BY <1>1, <1>2, <1>9, <1>11, <1>12, <1>13

LEMMA DeleteStep ==
  ASSUME Shape, Delete
  PROVE  \E l \in Links, w \in Seq(Items), v \in Seq(Items) :
           /\ work # <<>> /\ Top = Do("delete", l) /\ w = Tail(work)
           /\ work = Over(Do("delete", l), w) /\ Range(work) = {Do("delete", l)} \union Range(w)
           /\ life[l] # "unborn"
           /\ life' = [life EXCEPT ![l] = "deleted"]
           /\ box' = [box EXCEPT ![Src[l]] = RemoveFirst(@, l)]
           /\ out' = out \ {l}
           /\ work' = Over(Do("decFuture", Src[l]),
                           IF l \in out THEN Over(Do("decPromise", Dst[l]), v) ELSE v)
           /\ Like(v, w)
           /\ \A z \in Range(v) : \E y \in Range(w) : Loses(y, z, "links", l)
           /\ \A y \in Range(w) : \E z \in Range(v) : Loses(y, z, "links", l)
           /\ UNCHANGED <<mode, futures, promises, cancelBox, futH, proH, asked>>
<1>1. work # <<>> /\ Top.op = "delete" BY DEF Delete, Is
<1>2. PICK t \in Items, w \in Seq(Items) :
           /\ t = Top /\ w = Tail(work) /\ Real(t)
           /\ work = Over(t, w) /\ Range(work) = {t} \union Range(w)
  BY <1>1, TopFacts
<1>3. PICK l : l = t.on OBVIOUS
<1>4. l \in Links /\ life[l] # "unborn" /\ t = Do("delete", l)
  BY <1>1, <1>2, <1>3, Same DEF Real
<1>5. PICK v : v = Without(w, "links", l) OBVIOUS
<1>6. \A y \in Range(w) : y.op = "links" => IsInjective(y.todo)
  BY <1>2 DEF Shape, Real
<1>7. /\ Like(v, w)
      /\ \A z \in Range(v) : \E y \in Range(w) : Loses(y, z, "links", l)
      /\ \A y \in Range(w) : \E z \in Range(v) : Loses(y, z, "links", l)
  BY <1>5, <1>6, WithoutFacts
<1>8. v \in Seq(Items) BY <1>7 DEF Like
<1>9. /\ life' = [life EXCEPT ![l] = "deleted"]
      /\ box' = [box EXCEPT ![Src[l]] = RemoveFirst(@, l)]
      /\ out' = out \ {l}
      /\ work' = <<Do("decFuture", Src[l])>>
                 \o (IF l \in out THEN <<Do("decPromise", Dst[l])>> ELSE <<>>) \o v
      /\ UNCHANGED <<mode, futures, promises, cancelBox, futH, proH, asked>>
  BY <1>2, <1>3, <1>5 DEF Delete
<1>10. work' = Over(Do("decFuture", Src[l]),
                    IF l \in out THEN Over(Do("decPromise", Dst[l]), v) ELSE v)
  <2>1. PICK a \in Items : a = Do("decFuture", Src[l]) BY <1>4, Consts, Made DEF Ops
  <2>2. CASE l \in out
    <3>1. Dst[l] \in States BY <2>2, Consts DEF Shape, Typed
    <3>2. PICK b \in Items : b = Do("decPromise", Dst[l]) BY <3>1, Made DEF Ops
    <3>3. work' = <<a>> \o <<b>> \o v BY <1>9, <2>1, <2>2, <3>2
    <3>4. <<a>> \in Seq(Items) /\ <<b>> \in Seq(Items) OBVIOUS
    <3>5. <<a>> \o <<b>> \o v = <<a>> \o (<<b>> \o v) BY <1>8, <3>4, ConcatAssociative
    <3> QED BY <2>1, <2>2, <3>2, <3>3, <3>5 DEF Over
  <2>3. CASE l \notin out
    <3>1. work' = <<a>> \o <<>> \o v BY <1>9, <2>1, <2>3
    <3>2. <<a>> \o <<>> = <<a>> OBVIOUS
    <3> QED BY <2>1, <2>3, <3>1, <3>2 DEF Over
  <2> QED BY <2>2, <2>3
<1> QED BY <1>1, <1>2, <1>4, <1>7, <1>8, <1>9, <1>10

LEMMA ReturnStep ==
  ASSUME Shape, NEW b \in BOOLEAN, Return(b)
  PROVE  \E x \in Links \union Cancels, w \in Seq(Items), e \in Seq(Items) :
           /\ work # <<>> /\ Top = Do("call", x) /\ w = Tail(work)
           /\ work = Over(Do("call", x), w) /\ Range(work) = {Do("call", x)} \union Range(w)
           /\ life[x] \in {"running", "deleted"}
           /\ e = IF x \in Links THEN Over(Do("decFuture", Src[x]), Over(Do("delete", x), w)) ELSE w
           /\ b => x \in out /\ mode[Dst[x]] = "unresolved"
           /\ mode' = IF b THEN [mode EXCEPT ![Dst[x]] = "value"] ELSE mode
           /\ work' = IF b THEN Over(Do("execute", Dst[x]), e) ELSE e
           /\ life' = IF x \in Links THEN life ELSE [life EXCEPT ![x] = "deleted"]
           /\ UNCHANGED <<futures, promises, box, cancelBox, out, futH, proH, asked>>
<1>1. work # <<>> /\ Top.op = "call" BY DEF Return, Is
<1>2. PICK t \in Items, w \in Seq(Items) :
           /\ t = Top /\ w = Tail(work) /\ Real(t)
           /\ work = Over(t, w) /\ Range(work) = {t} \union Range(w)
  BY <1>1, TopFacts
<1>3. PICK x : x = t.on OBVIOUS
<1>4. x \in Links \union Cancels /\ life[x] \in {"running", "deleted"} /\ t = Do("call", x)
  BY <1>1, <1>2, <1>3, Same DEF Real
<1>5. PICK p, q : /\ p = IF b THEN <<Do("execute", Dst[x])>> ELSE <<>>
                  /\ q = IF x \in Links THEN <<Do("decFuture", Src[x]), Do("delete", x)>> ELSE <<>>
  OBVIOUS
<1>6. /\ b => x \in out /\ mode[Dst[x]] = "unresolved"
      /\ mode' = IF b THEN [mode EXCEPT ![Dst[x]] = "value"] ELSE mode
      /\ work' = p \o q \o w
      /\ life' = IF x \in Links THEN life ELSE [life EXCEPT ![x] = "deleted"]
      /\ UNCHANGED <<futures, promises, box, cancelBox, out, futH, proH, asked>>
  BY <1>2, <1>3, <1>5 DEF Return
<1>7. PICK e : e = IF x \in Links THEN Over(Do("decFuture", Src[x]), Over(Do("delete", x), w)) ELSE w
  OBVIOUS
<1>8. q \in Seq(Items) /\ q \o w = e /\ e \in Seq(Items)
  <2>1. CASE x \in Links
    <3>1. PICK g \in Items, h \in Items : g = Do("decFuture", Src[x]) /\ h = Do("delete", x)
      BY <2>1, Consts, Made DEF Ops
    <3>2. q = <<g, h>> BY <1>5, <2>1, <3>1
    <3>3. <<g, h>> \o w = Over(g, Over(h, w)) BY PushItems
    <3>4. Over(g, Over(h, w)) \in Seq(Items) BY OverTwo
    <3>5. <<g, h>> \in Seq(Items) OBVIOUS
    <3> QED BY <1>7, <2>1, <3>1, <3>2, <3>3, <3>4, <3>5
  <2>2. CASE x \notin Links BY <1>5, <1>7, <2>2
  <2> QED BY <2>1, <2>2
<1>9. work' = IF b THEN Over(Do("execute", Dst[x]), e) ELSE e
  <2>1. CASE b
    <3>1. Dst[x] \in States BY <1>6, <2>1, Consts DEF Shape, Typed
    <3>2. PICK g \in Items : g = Do("execute", Dst[x]) BY <3>1, Made DEF Ops
    <3>3. p = <<g>> BY <1>5, <2>1, <3>2
    <3>4. <<g>> \in Seq(Items) OBVIOUS
    <3>5. PICK r \in Seq(Items) : r = q BY <1>8
    <3>6. (<<g>> \o r) \o w = <<g>> \o (r \o w) BY <3>4, ConcatAssociative
    <3>7. work' = <<g>> \o e BY <1>6, <1>8, <3>3, <3>5, <3>6
    <3> QED BY <2>1, <3>2, <3>7 DEF Over
  <2>2. CASE ~ b
    <3>1. p = <<>> BY <1>5, <2>2
    <3>2. <<>> \o q = q BY <1>8
    <3> QED BY <1>6, <1>8, <2>2, <3>1, <3>2
  <2> QED BY <2>1, <2>2
<1> QED BY <1>1, <1>2, <1>4, <1>6, <1>7, <1>8, <1>9

(* The stack when x leaves the walks of kind o, and perhaps a box.           *)
LEMMA LosesReal ==
  ASSUME NEW y, NEW z, NEW o, NEW x, Real(y), Loses(y, z, o, x), LivesOn,
         \A s \in States : mode[s] # "unborn" => mode'[s] # "unborn",
         o \in {"links", "cancels"},
         \A s \in States : \A n \in Range(box[s]) :
           n \in Range(box'[s]) \/ (o = "links" /\ n = x)
  PROVE  Real(z)'
<1>1. CASE y.op # o
  <2>1. z = y BY <1>1 DEF Loses
  <2>2. y.op = "links" => y.on \in States /\ Range(y.todo) \subseteq Range(box[y.on])
    BY DEF Real
  <2>3. y.op = "links" => o # "links" BY <1>1
  <2>4. y.op = "links" => Range(y.todo) \subseteq Range(box'[y.on]) BY <2>2, <2>3
  <2> QED BY <2>1, <2>4, RealKept
<1>2. CASE y.op = o
  <2>1. /\ z.op = y.op /\ z.on = y.on /\ IsInjective(z.todo)
        /\ Range(z.todo) = Range(y.todo) \ {x}
    BY <1>2 DEF Loses
  <2>2. z.on \in States /\ mode'[z.on] # "unborn" BY <1>2, <2>1 DEF Real
  <2>3. y.op = "links" => Range(z.todo) \subseteq Range(box'[z.on])
    <3>1. y.op = "links" => Range(y.todo) \subseteq Range(box[y.on]) BY DEF Real
    <3> QED BY <2>1, <2>2, <3>1
  <2>4. y.op = "cancels" => \A n \in Range(z.todo) :
          n \in Chains \union Cancels /\ On(n) = z.on /\ life'[n] # "unborn"
    <3>1. y.op = "cancels" => \A n \in Range(y.todo) :
            n \in Chains \union Cancels /\ On(n) = y.on /\ life[n] # "unborn"
      BY DEF Real
    <3>2. \A n \in Chains \union Cancels : n \in Links \union Cancels BY Consts
    <3> QED BY <2>1, <3>1, <3>2 DEF LivesOn
  <2> QED BY <1>2, <2>1, <2>2, <2>3, <2>4 DEF Real, On, Chains
<1> QED BY <1>1, <1>2

(* A continuation of then or chain leaves the box of its state.              *)
LEMMA BoxLess ==
  ASSUME Shape, NEW l \in Links, NEW a \in {"running", "deleted"}, life[l] # "unborn",
         box' = [box EXCEPT ![Src[l]] = RemoveFirst(@, l)],
         life' = [life EXCEPT ![l] = a], cancelBox' = cancelBox
  PROVE  /\ box' \in [States -> Seq(Links)]
         /\ life' \in [Links \union Cancels -> {"unborn", "linked", "running", "deleted"}]
         /\ \A x \in Links \union Cancels : life'[x] = IF x = l THEN a ELSE life[x]
         /\ \A i \in States : Range(box'[i]) = Range(box[i]) \ {l}
         /\ \A i \in States : i # Src[l] => box'[i] = box[i]
         /\ Boxes' /\ LivesOn
<1>1. /\ life \in [Links \union Cancels -> {"unborn", "linked", "running", "deleted"}]
      /\ box \in [States -> Seq(Links)] /\ Src[l] \in States
      /\ cancelBox \in [States -> Seq(Chains \union Cancels)]
  BY Consts DEF Shape, Typed
<1>2. /\ life' \in [Links \union Cancels -> {"unborn", "linked", "running", "deleted"}]
      /\ \A x \in Links \union Cancels : life'[x] = IF x = l THEN a ELSE life[x]
  BY <1>1
<1>3. /\ box'[Src[l]] \in Seq(Links) /\ IsInjective(box'[Src[l]])
      /\ Range(box'[Src[l]]) = Range(box[Src[l]]) \ {l}
  <2>1. box[Src[l]] \in Seq(Links) /\ IsInjective(box[Src[l]]) BY <1>1 DEF Shape, Boxes
  <2>2. PICK b \in Seq(Links) : b = box[Src[l]] BY <2>1
  <2>3. /\ RemoveFirst(b, l) \in Seq(Links) /\ IsInjective(RemoveFirst(b, l))
        /\ Range(RemoveFirst(b, l)) = Range(b) \ {l}
    BY <2>1, <2>2, Removed
  <2>4. box'[Src[l]] = RemoveFirst(b, l) BY <1>1, <2>2
  <2> QED BY <2>2, <2>3, <2>4
<1>4. \A i \in States : i # Src[l] => box'[i] = box[i] BY <1>1
<1>5. box' \in [States -> Seq(Links)] BY <1>1, <1>3
<1>6. ASSUME NEW i \in States PROVE Range(box'[i]) = Range(box[i]) \ {l}
  <2>1. i # Src[l] => l \notin Range(box[i]) BY DEF Shape, Boxes
  <2> QED BY <1>3, <1>4, <2>1
<1>7. Boxes'
  <2> SUFFICES ASSUME NEW i \in States
               PROVE  /\ IsInjective(box'[i]) /\ IsInjective(cancelBox'[i])
                      /\ \A n \in Links : n \in Range(box'[i]) <=> Src[n] = i /\ life'[n] = "linked"
                      /\ \A n \in Range(cancelBox'[i]) :
                           On(n) = i /\ life'[n] # "unborn" /\ (n \in Cancels => life'[n] = "linked")
    BY DEF Boxes, On
  <2>1. IsInjective(box'[i]) /\ IsInjective(cancelBox'[i]) BY <1>3, <1>4 DEF Shape, Boxes
  <2>2. ASSUME NEW n \in Links PROVE n \in Range(box'[i]) <=> Src[n] = i /\ life'[n] = "linked"
    <3>1. n \in Range(box[i]) <=> Src[n] = i /\ life[n] = "linked" BY DEF Shape, Boxes
    <3> QED BY <1>2, <1>6, <3>1
  <2>3. ASSUME NEW n \in Range(cancelBox'[i])
        PROVE  On(n) = i /\ life'[n] # "unborn" /\ (n \in Cancels => life'[n] = "linked")
    <3>1. /\ n \in Range(cancelBox[i]) /\ On(n) = i /\ life[n] # "unborn"
          /\ (n \in Cancels => life[n] = "linked")
      BY DEF Shape, Boxes
    <3>2. n \in Chains \union Cancels BY <1>1, <3>1 DEF Range
    <3> QED BY <1>2, <3>1, <3>2, Consts
  <2> QED BY <2>1, <2>2, <2>3
<1>8. LivesOn BY <1>2 DEF LivesOn
<1> QED BY <1>2, <1>4, <1>5, <1>6, <1>7, <1>8

(* One leaves the cancel box.                                                *)
LEMMA CancelBoxLess ==
  ASSUME Shape, NEW s \in States, NEW x \in Chains \union Cancels, On(x) = s,
         NEW a \in {"running", "deleted"}, life[x] # "unborn",
         cancelBox' = [cancelBox EXCEPT ![s] = RemoveFirst(@, x)],
         life' = IF x \in Cancels THEN [life EXCEPT ![x] = a] ELSE life, box' = box
  PROVE  /\ cancelBox' \in [States -> Seq(Chains \union Cancels)]
         /\ life' \in [Links \union Cancels -> {"unborn", "linked", "running", "deleted"}]
         /\ \A y \in Links \union Cancels :
              life'[y] = IF y = x /\ x \in Cancels THEN a ELSE life[y]
         /\ \A i \in States : Range(cancelBox'[i]) = Range(cancelBox[i]) \ {x}
         /\ \A i \in States : i # s => cancelBox'[i] = cancelBox[i]
         /\ cancelBox[s] # <<>> /\ Head(cancelBox[s]) # x =>
              cancelBox'[s] # <<>> /\ Head(cancelBox'[s]) = Head(cancelBox[s])
         /\ Boxes' /\ LivesOn
<1>1. /\ life \in [Links \union Cancels -> {"unborn", "linked", "running", "deleted"}]
      /\ box \in [States -> Seq(Links)]
      /\ cancelBox \in [States -> Seq(Chains \union Cancels)]
  BY DEF Shape, Typed
<1>2. /\ life' \in [Links \union Cancels -> {"unborn", "linked", "running", "deleted"}]
      /\ \A y \in Links \union Cancels :
           life'[y] = IF y = x /\ x \in Cancels THEN a ELSE life[y]
  BY <1>1, Consts
<1>3. /\ cancelBox'[s] \in Seq(Chains \union Cancels) /\ IsInjective(cancelBox'[s])
      /\ Range(cancelBox'[s]) = Range(cancelBox[s]) \ {x}
      /\ cancelBox[s] # <<>> /\ Head(cancelBox[s]) # x =>
              cancelBox'[s] # <<>> /\ Head(cancelBox'[s]) = Head(cancelBox[s])
  <2>1. cancelBox[s] \in Seq(Chains \union Cancels) /\ IsInjective(cancelBox[s])
    BY <1>1 DEF Shape, Boxes
  <2>2. PICK b \in Seq(Chains \union Cancels) : b = cancelBox[s] BY <2>1
  <2>3. /\ RemoveFirst(b, x) \in Seq(Chains \union Cancels) /\ IsInjective(RemoveFirst(b, x))
        /\ Range(RemoveFirst(b, x)) = Range(b) \ {x}
        /\ b # <<>> /\ Head(b) # x => RemoveFirst(b, x) # <<>> /\ Head(RemoveFirst(b, x)) = Head(b)
    BY <2>1, <2>2, Removed
  <2>4. cancelBox'[s] = RemoveFirst(b, x) BY <1>1, <2>2
  <2> QED BY <2>2, <2>3, <2>4
<1>4. \A i \in States : i # s => cancelBox'[i] = cancelBox[i] BY <1>1
<1>5. cancelBox' \in [States -> Seq(Chains \union Cancels)] BY <1>1, <1>3
<1>6. ASSUME NEW i \in States PROVE Range(cancelBox'[i]) = Range(cancelBox[i]) \ {x}
  <2>1. i # s => x \notin Range(cancelBox[i]) BY DEF Shape, Boxes
  <2> QED BY <1>3, <1>4, <2>1
<1>7. Boxes'
  <2> SUFFICES ASSUME NEW i \in States
               PROVE  /\ IsInjective(box'[i]) /\ IsInjective(cancelBox'[i])
                      /\ \A n \in Links : n \in Range(box'[i]) <=> Src[n] = i /\ life'[n] = "linked"
                      /\ \A n \in Range(cancelBox'[i]) :
                           On(n) = i /\ life'[n] # "unborn" /\ (n \in Cancels => life'[n] = "linked")
    BY DEF Boxes, On
  <2>1. IsInjective(box'[i]) /\ IsInjective(cancelBox'[i]) BY <1>3, <1>4 DEF Shape, Boxes
  <2>2. ASSUME NEW n \in Links PROVE n \in Range(box'[i]) <=> Src[n] = i /\ life'[n] = "linked"
    <3>1. n \in Range(box[i]) <=> Src[n] = i /\ life[n] = "linked" BY DEF Shape, Boxes
    <3>2. life'[n] = life[n] BY <1>2, Consts
    <3> QED BY <3>1, <3>2
  <2>3. ASSUME NEW n \in Range(cancelBox'[i])
        PROVE  On(n) = i /\ life'[n] # "unborn" /\ (n \in Cancels => life'[n] = "linked")
    <3>1. n \in Range(cancelBox[i]) /\ n # x BY <1>6
    <3>2. /\ On(n) = i /\ life[n] # "unborn"
          /\ (n \in Cancels => life[n] = "linked")
      BY <3>1 DEF Shape, Boxes
    <3>3. n \in Chains \union Cancels BY <1>1, <3>1 DEF Range
    <3> QED BY <1>2, <3>1, <3>2, <3>3, Consts
  <2> QED BY <2>1, <2>2, <2>3
<1>8. LivesOn BY <1>2 DEF LivesOn
<1> QED BY <1>2, <1>3, <1>4, <1>5, <1>6, <1>7, <1>8

LEMMA CallLinkShape ==
  ASSUME Shape, CallLink PROVE Shape'
<1>1. PICK t \in Items, l \in Links, v \in Seq(Items) :
           /\ life[l] = "linked" /\ l \in Range(box[Src[l]])
           /\ box' = [box EXCEPT ![Src[l]] = RemoveFirst(@, l)]
           /\ life' = [life EXCEPT ![l] = "running"]
           /\ futures' = [futures EXCEPT ![Src[l]] = @ + 1]
           /\ work' = Over(Do("call", l), v)
           /\ \A z \in Range(v) : \E y \in Range(work) : Loses(y, z, "links", l)
           /\ UNCHANGED <<mode, promises, cancelBox, out, futH, proH, asked>>
  BY CallLinkStep
<1>2. PICK x \in Items : x = Do("call", l) /\ x.op = "call" /\ x.on = l /\ x.todo = <<>>
  BY Made DEF Ops
<1>3. work' \in Seq(Items) /\ Range(work') = {x} \union Range(v) BY <1>1, <1>2, PushItem
<1>4. /\ box' \in [States -> Seq(Links)]
      /\ life' \in [Links \union Cancels -> {"unborn", "linked", "running", "deleted"}]
      /\ \A y \in Links \union Cancels : life'[y] = IF y = l THEN "running" ELSE life[y]
      /\ \A i \in States : Range(box'[i]) = Range(box[i]) \ {l}
      /\ \A i \in States : i # Src[l] => box'[i] = box[i]
      /\ Boxes' /\ LivesOn
  BY <1>1, BoxLess
<1>5. Src[l] \in States /\ mode[Src[l]] # "unborn" BY <1>1, Consts DEF Shape, Born
<1>6. futures' \in [States -> Int] /\ \A i \in States : i # Src[l] => futures'[i] = futures[i]
  BY <1>1, <1>5 DEF Shape, Typed
<1>7. Typed' BY <1>1, <1>3, <1>4, <1>6 DEF Shape, Typed
<1>8. Real(x)' BY <1>2, <1>4 DEF Real
<1>9. ASSUME NEW z \in Range(v) PROVE Real(z)'
  <2>1. PICK y \in Range(work) : Loses(y, z, "links", l) BY <1>1
  <2>2. Real(y) BY DEF Shape
  <2> QED BY <1>1, <1>4, <2>1, <2>2, LosesReal
<1>10. \A y \in Links \union Cancels : life'[y] = "unborn" <=> life[y] = "unborn" BY <1>1, <1>4
<1>11. \A i \in States : mode[i] = "unborn" => box'[i] = box[i] /\ futures'[i] = futures[i]
  BY <1>4, <1>5, <1>6
<1>12. \A z \in Range(work') : Real(z)' BY <1>3, <1>8, <1>9
<1> QED BY <1>1, <1>4, <1>7, <1>10, <1>11, <1>12, MovedShape

LEMMA CallCancelShape ==
  ASSUME Shape, CallCancel PROVE Shape'
<1>1. PICK t \in Items, x \in Chains \union Cancels, v \in Seq(Items) :
           /\ t.on \in States /\ t.on = On(x) /\ life[x] # "unborn"
           /\ cancelBox' = [cancelBox EXCEPT ![t.on] = RemoveFirst(@, x)]
           /\ \/ /\ x \in Chains
                 /\ futures' = [futures EXCEPT ![Src[x]] = @ + 1] /\ life' = life
                 /\ work' = Over(Do("delete", x), Over(Do("cancel", Src[x]),
                                                       Over(Do("decFuture", Src[x]), v)))
              \/ /\ x \in Cancels
                 /\ futures' = futures /\ life' = [life EXCEPT ![x] = "running"]
                 /\ work' = Over(Do("call", x), v)
           /\ \A z \in Range(v) : \E y \in Range(work) : Loses(y, z, "cancels", x)
           /\ UNCHANGED <<mode, promises, box, out, futH, proH, asked>>
  BY CallCancelStep
<1>2. life' = IF x \in Cancels THEN [life EXCEPT ![x] = "running"] ELSE life
  BY <1>1, Consts
<1>3. PICK s \in States : s = t.on BY <1>1
<1>4. On(x) = s /\ cancelBox' = [cancelBox EXCEPT ![s] = RemoveFirst(@, x)] /\ box' = box
  BY <1>1, <1>3
<1>5. /\ cancelBox' \in [States -> Seq(Chains \union Cancels)]
      /\ life' \in [Links \union Cancels -> {"unborn", "linked", "running", "deleted"}]
      /\ \A y \in Links \union Cancels :
           life'[y] = IF y = x /\ x \in Cancels THEN "running" ELSE life[y]
      /\ \A i \in States : i # s => cancelBox'[i] = cancelBox[i]
      /\ Boxes' /\ LivesOn
  BY <1>1, <1>2, <1>4, CancelBoxLess
<1>6. x \in Links \union Cancels BY Consts
<1>7. ASSUME NEW z \in Range(v) PROVE Real(z)'
  <2>1. PICK y \in Range(work) : Loses(y, z, "cancels", x) BY <1>1
  <2>2. Real(y) BY DEF Shape
  <2> QED BY <1>1, <1>5, <2>1, <2>2, LosesReal
<1>8. /\ work' \in Seq(Items) /\ \A z \in Range(work') : Real(z)'
      /\ futures' \in [States -> Int]
      /\ \A i \in States : mode[i] = "unborn" => futures'[i] = futures[i]
  <2>1. CASE x \in Cancels
    <3>1. PICK a \in Items : a = Do("call", x) /\ a.op = "call" /\ a.on = x /\ a.todo = <<>>
      BY <1>6, Made DEF Ops
    <3>2. x \notin Chains BY <2>1, Consts
    <3>3. work' = Over(a, v) /\ futures' = futures BY <1>1, <2>1, <3>1, <3>2
    <3>4. work' \in Seq(Items) /\ Range(work') = {a} \union Range(v) BY <3>3, PushItem
    <3>5. Real(a)' BY <1>5, <1>6, <2>1, <3>1 DEF Real
    <3> QED BY <1>7, <3>3, <3>4, <3>5 DEF Shape, Typed
  <2>2. CASE x \in Chains
    <3>1. x \in Links /\ Src[x] \in States /\ mode[Src[x]] # "unborn" /\ x \notin Cancels
      BY <1>1, <2>2, Consts DEF Shape, Born
    <3>2. PICK a \in Items : a = Do("delete", x) /\ a.op = "delete" /\ a.on = x /\ a.todo = <<>>
      BY <1>6, Made DEF Ops
    <3>3. PICK b \in Items : b = Do("cancel", Src[x]) /\ b.op = "cancel" /\ b.on = Src[x] /\ b.todo = <<>>
      BY <3>1, Made DEF Ops
    <3>4. PICK c \in Items : c = Do("decFuture", Src[x]) /\ c.op = "decFuture" /\ c.on = Src[x] /\ c.todo = <<>>
      BY <3>1, Made DEF Ops
    <3>5. /\ work' = Over(a, Over(b, Over(c, v)))
          /\ futures' = [futures EXCEPT ![Src[x]] = @ + 1]
      <4>1. /\ work' = Over(Do("delete", x), Over(Do("cancel", Src[x]), Over(Do("decFuture", Src[x]), v)))
            /\ futures' = [futures EXCEPT ![Src[x]] = @ + 1]
        BY <1>1, <3>1
      <4> QED BY <3>2, <3>3, <3>4, <4>1
    <3>6. work' \in Seq(Items) /\ Range(work') = {a, b, c} \union Range(v)
      <4>1. /\ Over(a, Over(b, Over(c, v))) \in Seq(Items)
            /\ Range(Over(a, Over(b, Over(c, v)))) = {a, b, c} \union Range(v)
        BY OverThree
      <4> QED BY <3>5, <4>1
    <3>7. Real(a)' BY <1>1, <1>5, <3>1, <3>2 DEF Real
    <3>8. Real(b)' /\ Real(c)' BY <1>1, <3>1, <3>3, <3>4 DEF Real
    <3>9. futures' \in [States -> Int] /\ \A i \in States : mode[i] = "unborn" => futures'[i] = futures[i]
      BY <3>1, <3>5 DEF Shape, Typed
    <3> QED BY <1>7, <3>6, <3>7, <3>8, <3>9
  <2> QED BY <2>1, <2>2
<1>9. Typed' BY <1>1, <1>5, <1>8 DEF Shape, Typed
<1>10. \A y \in Links \union Cancels : life'[y] = "unborn" <=> life[y] = "unborn" BY <1>1, <1>5
<1>11. mode[s] # "unborn"
  <2>1. x \in Chains => mode[Dst[x]] # "unborn" BY <1>1 DEF Shape, Born
  <2>2. x \in Cancels => mode[Src[x]] # "unborn" BY <1>1 DEF Shape, Born
  <2> QED BY <1>4, <2>1, <2>2, Consts DEF On
<1>12. \A i \in States : mode[i] = "unborn" => cancelBox'[i] = cancelBox[i] BY <1>5, <1>11
<1> QED BY <1>1, <1>5, <1>8, <1>9, <1>10, <1>12, MovedShape

LEMMA DeleteShape ==
  ASSUME Shape, Delete PROVE Shape'
<1>1. PICK l \in Links, w \in Seq(Items), v \in Seq(Items) :
           /\ Range(work) = {Do("delete", l)} \union Range(w)
           /\ life[l] # "unborn"
           /\ life' = [life EXCEPT ![l] = "deleted"]
           /\ box' = [box EXCEPT ![Src[l]] = RemoveFirst(@, l)]
           /\ out' = out \ {l}
           /\ work' = Over(Do("decFuture", Src[l]),
                           IF l \in out THEN Over(Do("decPromise", Dst[l]), v) ELSE v)
           /\ \A z \in Range(v) : \E y \in Range(w) : Loses(y, z, "links", l)
           /\ UNCHANGED <<mode, futures, promises, cancelBox, futH, proH, asked>>
  BY DeleteStep
<1>2. /\ box' \in [States -> Seq(Links)]
      /\ life' \in [Links \union Cancels -> {"unborn", "linked", "running", "deleted"}]
      /\ \A y \in Links \union Cancels : life'[y] = IF y = l THEN "deleted" ELSE life[y]
      /\ \A i \in States : Range(box'[i]) = Range(box[i]) \ {l}
      /\ \A i \in States : i # Src[l] => box'[i] = box[i]
      /\ Boxes' /\ LivesOn
  BY <1>1, BoxLess
<1>3. Src[l] \in States /\ mode[Src[l]] # "unborn" BY <1>1, Consts DEF Shape, Born
<1>4. PICK a \in Items : a = Do("decFuture", Src[l]) /\ a.op = "decFuture" /\ a.on = Src[l] /\ a.todo = <<>>
  BY <1>3, Made DEF Ops
<1>5. Real(a)' BY <1>1, <1>3, <1>4 DEF Real
<1>6. ASSUME NEW z \in Range(v) PROVE Real(z)'
  <2>1. PICK y \in Range(work) : Loses(y, z, "links", l) BY <1>1
  <2>2. Real(y) BY DEF Shape
  <2> QED BY <1>1, <1>2, <2>1, <2>2, LosesReal
<1>7. work' \in Seq(Items) /\ \A z \in Range(work') : Real(z)'
  <2>1. CASE l \in out
    <3>1. l \in Chains /\ Dst[l] \in States /\ mode[Dst[l]] # "unborn"
      BY <1>1, <2>1, Consts DEF Shape, Typed, Born
    <3>2. PICK b \in Items : b = Do("decPromise", Dst[l]) /\ b.op = "decPromise" /\ b.on = Dst[l] /\ b.todo = <<>>
      BY <3>1, Made DEF Ops
    <3>3. work' = Over(a, Over(b, v)) BY <1>1, <1>4, <2>1, <3>2
    <3>4. work' \in Seq(Items) /\ Range(work') = {a, b} \union Range(v) BY <3>3, OverTwo
    <3>5. Real(b)' BY <1>1, <3>1, <3>2 DEF Real
    <3> QED BY <1>5, <1>6, <3>4, <3>5
  <2>2. CASE l \notin out
    <3>1. work' = Over(a, v) BY <1>1, <1>4, <2>2
    <3>2. work' \in Seq(Items) /\ Range(work') = {a} \union Range(v) BY <3>1, PushItem
    <3> QED BY <1>5, <1>6, <3>2
  <2> QED BY <2>1, <2>2
<1>8. Typed' BY <1>1, <1>2, <1>7 DEF Shape, Typed
<1>9. \A y \in Links \union Cancels : life'[y] = "unborn" <=> life[y] = "unborn" BY <1>1, <1>2
<1>10. \A i \in States : mode[i] = "unborn" => box'[i] = box[i] BY <1>2, <1>3
<1>11. out' \subseteq out BY <1>1
<1> QED BY <1>1, <1>2, <1>7, <1>8, <1>9, <1>10, <1>11, MovedShape

LEMMA ReturnShape ==
  ASSUME Shape, NEW b \in BOOLEAN, Return(b) PROVE Shape'
<1>1. PICK x \in Links \union Cancels, w \in Seq(Items), e \in Seq(Items) :
           /\ Range(work) = {Do("call", x)} \union Range(w)
           /\ life[x] \in {"running", "deleted"}
           /\ e = IF x \in Links THEN Over(Do("decFuture", Src[x]), Over(Do("delete", x), w)) ELSE w
           /\ b => x \in out /\ mode[Dst[x]] = "unresolved"
           /\ mode' = IF b THEN [mode EXCEPT ![Dst[x]] = "value"] ELSE mode
           /\ work' = IF b THEN Over(Do("execute", Dst[x]), e) ELSE e
           /\ life' = IF x \in Links THEN life ELSE [life EXCEPT ![x] = "deleted"]
           /\ UNCHANGED <<futures, promises, box, cancelBox, out, futH, proH, asked>>
  BY ReturnStep
<1>2. /\ life' \in [Links \union Cancels -> {"unborn", "linked", "running", "deleted"}]
      /\ \A y \in Links \union Cancels :
           life'[y] = IF y = x /\ x \notin Links THEN "deleted" ELSE life[y]
  BY <1>1 DEF Shape, Typed
<1>3. /\ mode' \in [States -> {"unborn", "unresolved", "deleted"} \union Resolved]
      /\ \A i \in States : mode'[i] = "unborn" <=> mode[i] = "unborn"
  <2>1. CASE b
    <3>1. Dst[x] \in States BY <1>1, <2>1, Consts DEF Shape, Typed
    <3> QED BY <1>1, <2>1, <3>1 DEF Shape, Typed, Resolved
  <2>2. CASE ~ b BY <1>1, <2>2 DEF Shape, Typed
  <2> QED BY <2>1, <2>2
<1>4. LivesOn BY <1>1, <1>2 DEF LivesOn
<1>5. \A z \in Range(work) : Real(z)' BY <1>1, <1>3, <1>4, RealFrame
<1>6. \A z \in Range(e) : Real(z)'
  <2>1. CASE x \in Links
    <3>1. Src[x] \in States /\ mode[Src[x]] # "unborn" BY <1>1, <2>1, Consts DEF Shape, Born
    <3>2. PICK g \in Items : g = Do("decFuture", Src[x]) /\ g.op = "decFuture" /\ g.on = Src[x] /\ g.todo = <<>>
      BY <3>1, Made DEF Ops
    <3>3. PICK h \in Items : h = Do("delete", x) /\ h.op = "delete" /\ h.on = x /\ h.todo = <<>>
      BY Made DEF Ops
    <3>4. e = Over(g, Over(h, w)) BY <1>1, <2>1, <3>2, <3>3
    <3>5. Range(e) = {g, h} \union Range(w) BY <3>4, OverTwo
    <3>6. Real(g)' BY <1>3, <3>1, <3>2 DEF Real
    <3>7. Real(h)' BY <1>1, <1>2, <2>1, <3>3 DEF Real
    <3> QED BY <1>1, <1>5, <3>5, <3>6, <3>7
  <2>2. CASE x \notin Links BY <1>1, <1>5, <2>2
  <2> QED BY <2>1, <2>2
<1>7. work' \in Seq(Items) /\ \A z \in Range(work') : Real(z)'
  <2>1. CASE b
    <3>1. Dst[x] \in States /\ mode[Dst[x]] # "unborn" BY <1>1, <2>1, Consts DEF Shape, Typed
    <3>2. PICK g \in Items : g = Do("execute", Dst[x]) /\ g.op = "execute" /\ g.on = Dst[x] /\ g.todo = <<>>
      BY <3>1, Made DEF Ops
    <3>3. work' = Over(g, e) BY <1>1, <2>1, <3>2
    <3>4. work' \in Seq(Items) /\ Range(work') = {g} \union Range(e) BY <3>3, PushItem
    <3>5. Real(g)' BY <1>3, <3>1, <3>2 DEF Real
    <3> QED BY <1>6, <3>4, <3>5
  <2>2. CASE ~ b BY <1>1, <1>6, <2>2
  <2> QED BY <2>1, <2>2
<1>8. Typed' BY <1>1, <1>2, <1>3, <1>7 DEF Shape, Typed
<1>9. Boxes'
  <2> SUFFICES ASSUME NEW i \in States
               PROVE  /\ IsInjective(box'[i]) /\ IsInjective(cancelBox'[i])
                      /\ \A n \in Links : n \in Range(box'[i]) <=> Src[n] = i /\ life'[n] = "linked"
                      /\ \A n \in Range(cancelBox'[i]) :
                           On(n) = i /\ life'[n] # "unborn" /\ (n \in Cancels => life'[n] = "linked")
    BY DEF Boxes, On
  <2>1. IsInjective(box'[i]) /\ IsInjective(cancelBox'[i]) BY <1>1 DEF Shape, Boxes
  <2>2. \A n \in Links : n \in Range(box'[i]) <=> Src[n] = i /\ life'[n] = "linked"
    BY <1>1, <1>2 DEF Shape, Boxes
  <2>3. ASSUME NEW n \in Range(cancelBox'[i])
        PROVE  On(n) = i /\ life'[n] # "unborn" /\ (n \in Cancels => life'[n] = "linked")
    <3>1. /\ n \in Range(cancelBox[i]) /\ On(n) = i /\ life[n] # "unborn"
          /\ (n \in Cancels => life[n] = "linked")
      BY <1>1 DEF Shape, Boxes
    <3>2. n \in Chains \union Cancels BY <3>1 DEF Range, Shape, Typed
    <3> QED BY <1>1, <1>2, <3>1, <3>2, Consts
  <2> QED BY <2>1, <2>2, <2>3
<1>10. \A y \in Links \union Cancels : life'[y] = "unborn" <=> life[y] = "unborn" BY <1>1, <1>2
<1> QED BY <1>1, <1>3, <1>7, <1>8, <1>9, <1>10, MovedShape

(* What chain does.                                                          *)
LEMMA ChainStep ==
  ASSUME Shape, NEW l \in Links, Chain(l)
  PROVE  \E s \in States, d \in States, u \in Seq(Items) :
           /\ s = Src[l] /\ d = Dst[l] /\ s # d /\ l \in Chains
           /\ UserCode /\ HasFuture(s) /\ life[l] = "unborn"
           /\ mode[s] # "unborn" /\ mode[d] = "unborn"
           /\ life' = [life EXCEPT ![l] = "linked"]
           /\ mode' = [mode EXCEPT ![d] = "unresolved"]
           /\ promises' = [promises EXCEPT ![d] = 1]
           /\ cancelBox' = [cancelBox EXCEPT ![d] = <<l>>]
           /\ out' = out \union {l}
           /\ futH' = [futH EXCEPT ![d] = 1]
           /\ asked' = asked \union {d}
           /\ box' = [box EXCEPT ![s] = Append(@, l)]
           /\ futures' \in [States -> Int]
           /\ \A i \in States : futures'[i] = IF i = d THEN 1
                                             ELSE IF i = s THEN futures[i] + 1 ELSE futures[i]
           /\ proH' = proH
           /\ u = Over(Do("ofFuture", s), Over(Do("ofFuture", d), work))
           /\ work' = IF mode[s] \in Resolved THEN Over(Do("execute", s), u) ELSE u
<1>1. PICK s, d : s = Src[l] /\ d = Dst[l] OBVIOUS
<1>2. /\ UserCode /\ HasFuture(s) /\ life[l] = "unborn" /\ l \in Chains
      /\ life' = [life EXCEPT ![l] = "linked"]
      /\ mode' = [mode EXCEPT ![d] = "unresolved"]
      /\ promises' = [promises EXCEPT ![d] = 1]
      /\ cancelBox' = [cancelBox EXCEPT ![d] = <<l>>]
      /\ out' = out \union {l}
      /\ futH' = [futH EXCEPT ![d] = 1]
      /\ asked' = asked \union {d}
      /\ box' = [box EXCEPT ![s] = Append(@, l)]
      /\ futures' = [futures EXCEPT ![d] = 1, ![s] = @ + 1]
      /\ proH' = proH
      /\ work' = Pushed(s, "ofFuture") \o <<Do("ofFuture", d)>> \o work
  BY <1>1 DEF Chain
<1>3. s \in States /\ d \in States BY <1>1, <1>2, Consts
<1>4. mode[s] # "unborn" BY <1>2, <1>3, HeldExists
<1>5. mode[d] = "unborn" BY <1>1, <1>2 DEF Shape, Born
<1>6. PICK a \in Items : a = Do("ofFuture", s) BY <1>3, Made DEF Ops
<1>7. PICK b \in Items : b = Do("ofFuture", d) BY <1>3, Made DEF Ops
<1>8. PICK c \in Items : c = Do("execute", s) BY <1>3, Made DEF Ops
<1>9. work \in Seq(Items) BY DEF Shape, Typed
<1>10. PICK w \in Seq(Items) : w = Over(b, work) BY <1>9, PushItem
<1>11. PICK u \in Seq(Items) : u = Over(a, w) BY <1>10, PushItem
<1>12. PICK p \in Seq(Items) : p = Pushed(s, "ofFuture")
  <2>1. <<c>> \o <<a>> \in Seq(Items) /\ <<>> \o <<a>> \in Seq(Items) OBVIOUS
  <2>2. Pushed(s, "ofFuture") \in {<<c>> \o <<a>>, <<>> \o <<a>>} BY <1>6, <1>8 DEF Pushed
  <2> QED BY <2>1, <2>2
<1>13. p \o w = IF mode[s] \in Resolved THEN Over(c, u) ELSE u
  BY <1>3, <1>6, <1>8, <1>10, <1>11, <1>12, PushedFacts DEF Ops
<1>14. <<b>> \in Seq(Items) OBVIOUS
<1>15. (p \o <<b>>) \o work = p \o (<<b>> \o work) BY <1>9, <1>14, ConcatAssociative
<1>16. work' = p \o w BY <1>2, <1>7, <1>10, <1>12, <1>15 DEF Over
<1>17. u = Over(Do("ofFuture", s), Over(Do("ofFuture", d), work)) BY <1>6, <1>7, <1>10, <1>11
<1>18. work' = IF mode[s] \in Resolved THEN Over(Do("execute", s), u) ELSE u
  BY <1>8, <1>13, <1>16
<1>19. PICK f : f = [futures EXCEPT ![d] = 1] OBVIOUS
<1>20. f \in [States -> Int] /\ \A i \in States : f[i] = IF i = d THEN 1 ELSE futures[i]
  BY <1>3, <1>19 DEF Shape, Typed
<1>21. futures' = [f EXCEPT ![s] = @ + 1] /\ s # d
  BY <1>2, <1>4, <1>5, <1>19
<1>22. /\ futures' \in [States -> Int]
       /\ \A i \in States : futures'[i] = IF i = d THEN 1
                                         ELSE IF i = s THEN futures[i] + 1 ELSE futures[i]
  BY <1>3, <1>20, <1>21
<1> USE <1>3
<1> WITNESS s \in States, d \in States, u \in Seq(Items)
<1> QED BY <1>1, <1>2, <1>4, <1>5, <1>17, <1>18, <1>21, <1>22

LEMMA ChainShape ==
  ASSUME Shape, NEW l \in Links, Chain(l) PROVE Shape'
<1>1. PICK s \in States, d \in States, u \in Seq(Items) :
           /\ s = Src[l] /\ d = Dst[l] /\ s # d /\ l \in Chains
           /\ life[l] = "unborn"
           /\ mode[s] # "unborn" /\ mode[d] = "unborn"
           /\ life' = [life EXCEPT ![l] = "linked"]
           /\ mode' = [mode EXCEPT ![d] = "unresolved"]
           /\ promises' = [promises EXCEPT ![d] = 1]
           /\ cancelBox' = [cancelBox EXCEPT ![d] = <<l>>]
           /\ out' = out \union {l}
           /\ futH' = [futH EXCEPT ![d] = 1]
           /\ asked' = asked \union {d}
           /\ box' = [box EXCEPT ![s] = Append(@, l)]
           /\ futures' \in [States -> Int]
           /\ \A i \in States : futures'[i] = IF i = d THEN 1
                                             ELSE IF i = s THEN futures[i] + 1 ELSE futures[i]
           /\ proH' = proH
           /\ u = Over(Do("ofFuture", s), Over(Do("ofFuture", d), work))
           /\ work' = IF mode[s] \in Resolved THEN Over(Do("execute", s), u) ELSE u
  BY ChainStep
<1>2. /\ mode \in [States -> {"unborn", "unresolved", "deleted"} \union Resolved]
      /\ life \in [Links \union Cancels -> {"unborn", "linked", "running", "deleted"}]
      /\ box \in [States -> Seq(Links)] /\ cancelBox \in [States -> Seq(Chains \union Cancels)]
      /\ work \in Seq(Items)
  BY DEF Shape, Typed
<1>3. /\ \A i \in States : mode'[i] = IF i = d THEN "unresolved" ELSE mode[i]
      /\ \A x \in Links \union Cancels : life'[x] = IF x = l THEN "linked" ELSE life[x]
      /\ mode' \in [States -> {"unborn", "unresolved", "deleted"} \union Resolved]
      /\ life' \in [Links \union Cancels -> {"unborn", "linked", "running", "deleted"}]
  BY <1>1, <1>2
<1>4. PICK a \in Items : a = Do("ofFuture", s) /\ a.op = "ofFuture" /\ a.on = s /\ a.todo = <<>>
  BY Made DEF Ops
<1>5. PICK b \in Items : b = Do("ofFuture", d) /\ b.op = "ofFuture" /\ b.on = d /\ b.todo = <<>>
  BY Made DEF Ops
<1>6. PICK c \in Items : c = Do("execute", s) /\ c.op = "execute" /\ c.on = s /\ c.todo = <<>>
  BY Made DEF Ops
<1>7. u = Over(a, Over(b, work)) BY <1>1, <1>4, <1>5
<1>8. Range(u) = {a, b} \union Range(work) BY <1>2, <1>7, OverTwo
<1>9. work' = IF mode[s] \in Resolved THEN Over(c, u) ELSE u BY <1>1, <1>6
<1>10. work' \in Seq(Items) /\ Range(work') \subseteq {a, b, c} \union Range(work)
  <2>1. Over(c, u) \in Seq(Items) /\ Range(Over(c, u)) = {c} \union Range(u) BY PushItem
  <2> QED BY <1>8, <1>9, <2>1
<1>11. /\ \A i \in States : i # s => box'[i] = box[i]
       /\ box' \in [States -> Seq(Links)] /\ Range(box'[s]) = Range(box[s]) \union {l}
       /\ IsInjective(box'[s])
  <2>1. box[s] \in Seq(Links) /\ IsInjective(box[s]) /\ l \notin Range(box[s])
    BY <1>1, <1>2 DEF Shape, Boxes
  <2>2. /\ Append(box[s], l) \in Seq(Links) /\ IsInjective(Append(box[s], l))
        /\ Range(Append(box[s], l)) = Range(box[s]) \union {l}
    BY <2>1, AppendFacts
  <2> QED BY <1>1, <1>2, <2>2
<1>12. /\ \A i \in States : i # d => cancelBox'[i] = cancelBox[i]
       /\ cancelBox'[d] = <<l>> /\ <<l>> \in Seq(Chains \union Cancels)
       /\ Range(<<l>>) = {l} /\ IsInjective(<<l>>)
       /\ cancelBox' \in [States -> Seq(Chains \union Cancels)]
  <2>1. <<l>> \in Seq(Chains \union Cancels) BY <1>1
  <2>2. Range(<<l>>) = {l} /\ IsInjective(<<l>>) BY DEF Range, IsInjective
  <2> QED BY <1>1, <1>2, <2>1, <2>2
<1>13. Typed'
  <2>1. /\ promises' \in [States -> Int] /\ futures' \in [States -> Int]
        /\ asked' \subseteq States /\ out' \subseteq Chains
    <3>1. promises' \in [States -> Int] BY <1>1 DEF Shape, Typed
    <3>2. asked' \subseteq States /\ out' \subseteq Chains BY <1>1 DEF Shape, Typed
    <3> QED BY <1>1, <3>1, <3>2
  <2>2. futH' \in [States -> 0 .. MaxHandles] /\ proH' \in [States -> 0 .. MaxHandles]
    BY <1>1, Consts, SMTT(30) DEF Shape, Typed
  <2> QED BY <1>3, <1>10, <1>11, <1>12, <2>1, <2>2 DEF Typed
<1>14. Boxes'
  <2> SUFFICES ASSUME NEW i \in States
               PROVE  /\ IsInjective(box'[i]) /\ IsInjective(cancelBox'[i])
                      /\ \A n \in Links : n \in Range(box'[i]) <=> Src[n] = i /\ life'[n] = "linked"
                      /\ \A n \in Range(cancelBox'[i]) :
                           On(n) = i /\ life'[n] # "unborn" /\ (n \in Cancels => life'[n] = "linked")
    BY DEF Boxes, On
  <2>1. IsInjective(box'[i]) /\ IsInjective(cancelBox'[i])
    BY <1>11, <1>12 DEF Shape, Boxes
  <2>3. ASSUME NEW n \in Links PROVE n \in Range(box'[i]) <=> Src[n] = i /\ life'[n] = "linked"
    <3>1. n \in Range(box[i]) <=> Src[n] = i /\ life[n] = "linked" BY DEF Shape, Boxes
    <3> QED BY <1>1, <1>3, <1>11, <3>1
  <2>4. ASSUME NEW n \in Range(cancelBox'[i])
        PROVE  On(n) = i /\ life'[n] # "unborn" /\ (n \in Cancels => life'[n] = "linked")
    <3>1. CASE i = d
      <4>1. n = l /\ n \notin Cancels BY <1>12, <3>1, Consts
      <4> QED BY <1>1, <1>3, <3>1, <4>1 DEF On
    <3>2. CASE i # d
      <4>1. /\ n \in Range(cancelBox[i]) /\ On(n) = i /\ life[n] # "unborn"
            /\ (n \in Cancels => life[n] = "linked")
        BY <1>12, <3>2 DEF Shape, Boxes
      <4>2. n \in Links \union Cancels BY <1>2, <4>1, Consts DEF Range
      <4> QED BY <1>3, <4>1, <4>2
    <3> QED BY <3>1, <3>2
  <2> QED BY <2>1, <2>3, <2>4
<1>15. Born'
  <2>1. \A i \in States : mode'[i] = "unborn" =>
       /\ futH'[i] = 0 /\ proH'[i] = 0 /\ futures'[i] = 0 /\ promises'[i] = 0 /\ i \notin asked'
       /\ box'[i] = <<>> /\ cancelBox'[i] = <<>>
    <3> SUFFICES ASSUME NEW i \in States, mode'[i] = "unborn"
                 PROVE  /\ futH'[i] = 0 /\ proH'[i] = 0 /\ futures'[i] = 0 /\ promises'[i] = 0
                        /\ i \notin asked' /\ box'[i] = <<>> /\ cancelBox'[i] = <<>>
      OBVIOUS
    <3>1. i # d /\ i # s /\ mode[i] = "unborn" BY <1>1, <1>3
    <3>2. /\ futH'[i] = futH[i] /\ proH'[i] = proH[i] /\ futures'[i] = futures[i]
          /\ promises'[i] = promises[i]
          /\ (i \in asked' => i \in asked) /\ box'[i] = box[i] /\ cancelBox'[i] = cancelBox[i]
      BY <1>1, <1>11, <1>12, <3>1 DEF Shape, Typed
    <3> QED BY <3>1, <3>2 DEF Shape, Born
  <2>2. \A x \in Links \union Cancels : life'[x] # "unborn" => mode'[Src[x]] # "unborn"
    BY <1>1, <1>3, Consts DEF Shape, Born
  <2>3. \A n \in Chains : life'[n] = "unborn" <=> mode'[Dst[n]] = "unborn"
    BY <1>1, <1>3, Consts DEF Shape, Born
  <2>4. \A n \in out' : life'[n] # "unborn"
    <3>1. \A n \in out : n \in Links \union Cancels /\ life[n] # "unborn"
      BY Consts DEF Shape, Typed, Born
    <3> QED BY <1>1, <1>3, <3>1
  <2> QED BY <2>1, <2>2, <2>3, <2>4 DEF Born
<1>16. Real(a)' /\ Real(b)' /\ Real(c)' BY <1>1, <1>3, <1>4, <1>5, <1>6 DEF Real
<1>17. \A z \in Range(work) : Real(z)'
  <2>1. LivesOn BY <1>1, <1>3 DEF LivesOn
  <2>2. \A i \in States : Range(box[i]) \subseteq Range(box'[i]) BY <1>11
  <2> QED BY <1>3, <2>1, <2>2, RealFrame
<1> QED BY <1>10, <1>13, <1>14, <1>15, <1>16, <1>17 DEF Shape

LEMMA OnCancelShape ==
  ASSUME Shape, NEW k \in Cancels, OnCancel(k) PROVE Shape'
<1>0. PICK s : s = Src[k] OBVIOUS
<1>1. /\ HasPromise(s) /\ life[k] = "unborn"
      /\ life' = [life EXCEPT ![k] = "linked"]
      /\ cancelBox' = [cancelBox EXCEPT ![s] = Append(@, k)]
      /\ work' = Pushed(s, "ofPromise") \o work
      /\ UNCHANGED <<mode, futures, promises, box, out, futH, proH, asked>>
  BY <1>0 DEF OnCancel
<1>2. s \in States /\ k \notin Links BY <1>0, Consts
<1>3. PICK x \in Items : x = Do("execute", s) /\ x.op = "execute" /\ x.on = s /\ x.todo = <<>>
  BY <1>2, Made DEF Ops
<1>4. PICK y \in Items : y = Do("ofPromise", s) /\ y.op = "ofPromise" /\ y.on = s /\ y.todo = <<>>
  BY <1>2, Made DEF Ops
<1>5. work \in Seq(Items) /\ mode[s] # "unborn"
  BY <1>1, <1>2, HeldExists DEF Shape, Typed
<1>6. work' \in Seq(Items) /\ Range(work') \subseteq {x, y} \union Range(work)
  <2>1. work' = Over(x, Over(y, work)) \/ work' = Over(y, work)
    BY <1>1, <1>2, <1>3, <1>4, <1>5, PushedFacts DEF Ops
  <2> QED BY <1>5, <2>1, PushItem, OverTwo
<1>7. /\ cancelBox \in [States -> Seq(Chains \union Cancels)]
      /\ life \in [Links \union Cancels -> {"unborn", "linked", "running", "deleted"}]
  BY DEF Shape, Typed
<1>8. /\ \A i \in States : i # s => cancelBox'[i] = cancelBox[i]
      /\ cancelBox' \in [States -> Seq(Chains \union Cancels)]
      /\ Range(cancelBox'[s]) = Range(cancelBox[s]) \union {k}
      /\ IsInjective(cancelBox'[s])
  <2>1. cancelBox[s] \in Seq(Chains \union Cancels) /\ IsInjective(cancelBox[s]) /\ k \notin Range(cancelBox[s])
    BY <1>1, <1>2, <1>7 DEF Shape, Boxes
  <2>2. /\ Append(cancelBox[s], k) \in Seq(Chains \union Cancels) /\ IsInjective(Append(cancelBox[s], k))
        /\ Range(Append(cancelBox[s], k)) = Range(cancelBox[s]) \union {k}
    BY <2>1, AppendFacts
  <2> QED BY <1>1, <1>2, <1>7, <2>2
<1>9. /\ \A z \in Links \union Cancels : life'[z] = IF z = k THEN "linked" ELSE life[z]
      /\ life' \in [Links \union Cancels -> {"unborn", "linked", "running", "deleted"}]
  BY <1>1, <1>7
<1>10. Typed' BY <1>1, <1>6, <1>8, <1>9 DEF Shape, Typed
<1>11. Boxes'
  <2> SUFFICES ASSUME NEW i \in States
               PROVE  /\ IsInjective(box'[i]) /\ IsInjective(cancelBox'[i])
                      /\ \A n \in Links : n \in Range(box'[i]) <=> Src[n] = i /\ life'[n] = "linked"
                      /\ \A n \in Range(cancelBox'[i]) :
                           On(n) = i /\ life'[n] # "unborn" /\ (n \in Cancels => life'[n] = "linked")
    BY DEF Boxes, On
  <2>1. IsInjective(box'[i]) /\ IsInjective(cancelBox'[i])
    BY <1>1, <1>8 DEF Shape, Boxes
  <2>2. \A n \in Links : n \in Range(box'[i]) <=> Src[n] = i /\ life'[n] = "linked"
    BY <1>1, <1>2, <1>9 DEF Shape, Boxes
  <2>3. ASSUME NEW n \in Range(cancelBox'[i])
        PROVE  On(n) = i /\ life'[n] # "unborn" /\ (n \in Cancels => life'[n] = "linked")
    <3>1. CASE n = k
      <4>1. k \notin Range(cancelBox[i]) BY <1>1 DEF Shape, Boxes
      <4>2. i = s BY <1>8, <3>1, <4>1
      <4> QED BY <1>0, <1>2, <1>9, <3>1, <4>2 DEF On
    <3>2. CASE n # k
      <4>1. n \in Range(cancelBox[i]) BY <1>8, <3>2
      <4>2. On(n) = i /\ life[n] # "unborn" /\ (n \in Cancels => life[n] = "linked")
        BY <4>1 DEF Shape, Boxes
      <4>3. n \in Links \union Cancels BY <1>7, <4>1, Consts DEF Range
      <4> QED BY <1>9, <3>2, <4>2, <4>3
    <3> QED BY <3>1, <3>2
  <2> QED BY <2>1, <2>2, <2>3
<1>12. Born'
  <2>1. \A i \in States : mode'[i] = "unborn" =>
       /\ futH'[i] = 0 /\ proH'[i] = 0 /\ futures'[i] = 0 /\ promises'[i] = 0 /\ i \notin asked'
       /\ box'[i] = <<>> /\ cancelBox'[i] = <<>>
    BY <1>1, <1>5, <1>8 DEF Shape, Born
  <2>2. \A x_1 \in Links \union Cancels : life'[x_1] # "unborn" => mode'[Src[x_1]] # "unborn"
    BY <1>0, <1>1, <1>5, <1>9 DEF Shape, Born
  <2>3. \A n \in Chains : life'[n] = "unborn" <=> mode'[Dst[n]] = "unborn"
    BY <1>1, <1>2, <1>9, Consts DEF Shape, Born
  <2>4. \A n \in out' : life'[n] # "unborn"
    <3>1. \A n \in out : n \in Links \union Cancels /\ life[n] # "unborn"
      BY Consts DEF Shape, Typed, Born
    <3> QED BY <1>1, <1>9, <3>1
  <2> QED BY <2>1, <2>2, <2>3, <2>4 DEF Born
<1>13. Real(x)' /\ Real(y)' BY <1>1, <1>2, <1>3, <1>4, <1>5 DEF Real
<1>14. \A z \in Range(work) : Real(z)'
  <2>1. LivesOn BY <1>1, <1>9 DEF LivesOn
  <2> QED BY <1>1, <2>1, RealFrame
<1> QED BY <1>6, <1>10, <1>11, <1>12, <1>13, <1>14 DEF Shape

LEMMA FlushCancelStep ==
  ASSUME Shape, NEW k \in Cancels, FlushCancel(k)
  PROVE  \E s \in States :
           /\ s = Src[k] /\ On(k) = s /\ life[k] = "linked" /\ UserCode
           /\ life' = [life EXCEPT ![k] = "deleted"]
           /\ cancelBox' = [cancelBox EXCEPT ![s] = RemoveFirst(@, k)]
           /\ Like(work', work)
           /\ \A z \in Range(work') : \E y \in Range(work) : Loses(y, z, "cancels", k)
           /\ \A y \in Range(work) : \E z \in Range(work') : Loses(y, z, "cancels", k)
           /\ UNCHANGED <<mode, futures, promises, box, out, futH, proH, asked>>
<1>1. PICK s, v : s = Src[k] /\ v = Without(work, "cancels", k) OBVIOUS
<1>2. /\ life[k] = "linked" /\ UserCode
      /\ life' = [life EXCEPT ![k] = "deleted"]
      /\ cancelBox' = [cancelBox EXCEPT ![s] = RemoveFirst(@, k)]
      /\ work' = v
      /\ UNCHANGED <<mode, futures, promises, box, out, futH, proH, asked>>
  BY <1>1 DEF FlushCancel
<1>3. s \in States /\ On(k) = s BY <1>1, Consts DEF On
<1>4. work \in Seq(Items) /\ \A y \in Range(work) : y.op = "cancels" => IsInjective(y.todo)
  BY DEF Shape, Typed, Real
<1>5. /\ Like(v, work)
      /\ \A z \in Range(v) : \E y \in Range(work) : Loses(y, z, "cancels", k)
      /\ \A y \in Range(work) : \E z \in Range(v) : Loses(y, z, "cancels", k)
  BY <1>1, <1>4, WithoutFacts
<1> QED BY <1>1, <1>2, <1>3, <1>5

LEMMA FlushCancelShape ==
  ASSUME Shape, NEW k \in Cancels, FlushCancel(k) PROVE Shape'
<1>1. PICK s \in States :
           /\ s = Src[k] /\ On(k) = s /\ life[k] = "linked"
           /\ life' = [life EXCEPT ![k] = "deleted"]
           /\ cancelBox' = [cancelBox EXCEPT ![s] = RemoveFirst(@, k)]
           /\ Like(work', work)
           /\ \A z \in Range(work') : \E y \in Range(work) : Loses(y, z, "cancels", k)
           /\ UNCHANGED <<mode, futures, promises, box, out, futH, proH, asked>>
  BY FlushCancelStep
<1>2. /\ cancelBox' \in [States -> Seq(Chains \union Cancels)]
      /\ life' \in [Links \union Cancels -> {"unborn", "linked", "running", "deleted"}]
      /\ \A y \in Links \union Cancels :
           life'[y] = IF y = k /\ k \in Cancels THEN "deleted" ELSE life[y]
      /\ \A i \in States : i # s => cancelBox'[i] = cancelBox[i]
      /\ Boxes' /\ LivesOn
  <2>1. k \in Chains \union Cancels OBVIOUS
  <2>2. life' = IF k \in Cancels THEN [life EXCEPT ![k] = "deleted"] ELSE life BY <1>1
  <2> QED BY <1>1, <2>1, <2>2, CancelBoxLess
<1>3. ASSUME NEW z \in Range(work') PROVE Real(z)'
  <2>1. PICK y \in Range(work) : Loses(y, z, "cancels", k) BY <1>1
  <2>2. Real(y) BY DEF Shape
  <2> QED BY <1>1, <1>2, <2>1, <2>2, LosesReal
<1>4. Typed' BY <1>1, <1>2 DEF Shape, Typed, Like
<1>5. mode[s] # "unborn" BY <1>1 DEF Shape, Born
<1>6. \A y \in Links \union Cancels : life'[y] = "unborn" <=> life[y] = "unborn" BY <1>1, <1>2
<1>7. \A i \in States : mode[i] = "unborn" => cancelBox'[i] = cancelBox[i] BY <1>2, <1>5
<1> QED BY <1>1, <1>2, <1>3, <1>4, <1>6, <1>7, MovedShape

(* Shape is inductive.                                                       *)
LEMMA ShapeInit == Init => Shape
<1> SUFFICES ASSUME Init PROVE Shape OBVIOUS
<1>1. Typed
  <2>1. \A T : <<>> \in Seq(T) OBVIOUS
  <2>2. 0 \in 0 .. MaxHandles BY Consts
  <2> QED BY <2>1, <2>2 DEF Init, Typed
<1>2. Range(<<>>) = {} /\ IsInjective(<<>>) BY DEF Range, IsInjective
<1>3. Boxes BY <1>2 DEF Init, Boxes
<1>4. Born BY Consts DEF Init, Born
<1>5. \A x \in Range(work) : Real(x) BY <1>2 DEF Init
<1> QED BY <1>1, <1>3, <1>4, <1>5 DEF Shape

(* Steps that change nothing, and all steps.                                 *)
LEMMA ShapeStays ==
  ASSUME Shape, UNCHANGED vars PROVE Shape'
<1>1. Typed' BY DEF vars, Shape, Typed
<1>2. Boxes' BY DEF vars, Shape, Boxes
<1>3. Born' BY DEF vars, Shape, Born
<1>4. \A x \in Range(work') : Real(x)'
  <2>1. work' = work /\ LivesOn BY DEF vars, LivesOn
  <2>2. \A x \in Range(work) : Real(x)' BY <2>1, RealFrame DEF vars
  <2> QED BY <2>1, <2>2
<1> QED BY <1>1, <1>2, <1>3, <1>4 DEF Shape

LEMMA ShapeStep ==
  ASSUME Shape, [Next]_vars PROVE Shape'
<1>1. CASE Internal
  BY <1>1, DecShape, ExecuteShape, ActivateShape, CallLinkShape, CallCancelShape, MethodEndsShape,
     DeleteShape, CancelSourceShape DEF Internal
<1>2. ASSUME NEW b \in BOOLEAN, Return(b) PROVE Shape' BY <1>2, ReturnShape
<1>3. ASSUME NEW s \in States,
             \/ NewPromise(s) \/ CopyPromise(s) \/ GetFuture(s)
             \/ DropPromise(s) \/ DropFuture(s)
             \/ ResolveValue(s) \/ ResolveCancel(s)
      PROVE  Shape'
  BY <1>3, NewPromiseShape, CopyPromiseShape, GetFutureShape, DropPromiseShape, DropFutureShape,
     ResolveValueShape, ResolveCancelShape
<1>4. ASSUME NEW l \in Links, Then(l) \/ Chain(l) \/ FlushOwner(l) PROVE Shape'
  BY <1>4, ThenShape, ChainShape, FlushOwnerShape
<1>5. ASSUME NEW k \in Cancels, OnCancel(k) \/ FlushCancel(k) PROVE Shape'
  BY <1>5, OnCancelShape, FlushCancelShape
<1>6. CASE UNCHANGED vars BY <1>6, ShapeStays
<1> QED BY <1>1, <1>2, <1>3, <1>4, <1>5, <1>6 DEF Next

-----------------------------------------------------------------------------
(* Whatever the program does, boxes list what is attached and calls under    *)
(* way name what exists.                                                     *)
THEOREM ShapeHolds == Spec => []Shape
<1> QED BY ShapeInit, ShapeStep, PTL DEF Spec

(* No step takes a state out of the resolution it has.                       *)
Fine == \A s \in States : mode[s] \in Resolved => mode'[s] \in {mode[s], "deleted"}

(* No step takes a resolution back.                                          *)
LEMMA ResolvedStep ==
  ASSUME Shape, [Next]_vars PROVE Fine
<1> USE DEF Fine
<1>1. mode \in [States -> {"unborn", "unresolved", "deleted"} \union Resolved]
  BY DEF Shape, Typed
<1>2. CASE DecFuture \/ DecPromise
  <2>1. PICK s \in States, w \in Seq(Items) : Gone(s, w) \/ Closed(s, w) \/ Stays(s, w)
    BY <1>2, DecStep
  <2> QED BY <1>1, <2>1 DEF Gone, Closed, Stays, Resolved
<1>3. ASSUME UNCHANGED mode PROVE Fine BY <1>3
<1>4. ASSUME NEW s \in States, NEW w, Cancelled(s, w) PROVE Fine
  BY <1>1, <1>4 DEF Cancelled, Resolved
<1>5. CASE Execute \/ Activate \/ CallLink \/ CallCancel \/ WalkEnds \/ Delete \/ MethodEnds
  <2>1. UNCHANGED mode
    BY <1>5 DEF Execute, Activate, CallLink, CallCancel, WalkEnds, Delete, MethodEnds
  <2> QED BY <1>3, <2>1
<1>6. CASE CancelSource
  <2>1. work # <<>> /\ Top.op = "cancel" /\ Cancelled(Top.on, Tail(work))
    BY <1>6 DEF CancelSource, Is
  <2>2. Top.on \in States BY <2>1, WorkTop DEF Real
  <2> QED BY <1>4, <2>1, <2>2
<1>7. ASSUME NEW b \in BOOLEAN, Return(b) PROVE Fine
  <2>1. PICK x \in Links \union Cancels :
           /\ b => x \in out /\ mode[Dst[x]] = "unresolved"
           /\ mode' = IF b THEN [mode EXCEPT ![Dst[x]] = "value"] ELSE mode
    BY <1>7, ReturnStep
  <2> QED BY <1>1, <2>1 DEF Resolved
<1>8. ASSUME NEW s \in States,
             \/ NewPromise(s) \/ CopyPromise(s) \/ GetFuture(s)
             \/ DropPromise(s) \/ DropFuture(s) \/ ResolveValue(s)
      PROVE  Fine
  <2>1. \/ mode' = mode
        \/ mode[s] = "unborn" /\ mode' = [mode EXCEPT ![s] = "unresolved"]
        \/ mode[s] = "unresolved" /\ mode' = [mode EXCEPT ![s] = "value"]
    BY <1>8 DEF NewPromise, CopyPromise, GetFuture, DropPromise, DropFuture, ResolveValue
  <2> QED BY <1>1, <2>1 DEF Resolved
<1>9. ASSUME NEW s \in States, ResolveCancel(s) PROVE Fine
  <2>1. Cancelled(s, <<Do("ofPromise", s)>> \o work) \/ Cancelled(s, <<Do("ofFuture", s)>> \o work)
    BY <1>9 DEF ResolveCancel
  <2> QED BY <1>4, <2>1
<1>10. ASSUME NEW l \in Links, Then(l) \/ FlushOwner(l) PROVE Fine
  BY <1>3, <1>10 DEF Then, FlushOwner
<1>11. ASSUME NEW l \in Links, Chain(l) PROVE Fine
  <2>1. PICK d \in States : mode[d] = "unborn" /\ mode' = [mode EXCEPT ![d] = "unresolved"]
    BY <1>11, ChainStep
  <2> QED BY <1>1, <2>1 DEF Resolved
<1>12. ASSUME NEW k \in Cancels, OnCancel(k) \/ FlushCancel(k) PROVE Fine
  BY <1>3, <1>12 DEF OnCancel, FlushCancel
<1>13. CASE UNCHANGED vars BY <1>3, <1>13 DEF vars
<1> HIDE DEF Fine
<1>14. CASE Internal BY <1>2, <1>5, <1>6, <1>14 DEF Internal
<1>15. ASSUME NEW s \in States,
              \/ NewPromise(s) \/ CopyPromise(s) \/ GetFuture(s)
              \/ DropPromise(s) \/ DropFuture(s)
              \/ ResolveValue(s) \/ ResolveCancel(s)
       PROVE  Fine
  BY <1>8, <1>9, <1>15
<1>16. ASSUME NEW l \in Links, Then(l) \/ Chain(l) \/ FlushOwner(l) PROVE Fine
  BY <1>10, <1>11, <1>16
<1> QED BY <1>7, <1>12, <1>13, <1>14, <1>15, <1>16 DEF Next

(* A state is resolved once, whoever resolves, cancels or drops it first,    *)
(* in every program.                                                         *)
THEOREM ResolvesOnce == Spec => ResolvedOnce
<1>1. Spec => []Shape BY ShapeHolds
<1>2. Shape /\ [Next]_vars =>
        [\A s \in States : mode[s] \in Resolved => mode'[s] \in {mode[s], "deleted"}]_vars
  BY ResolvedStep DEF Fine
<1> QED BY <1>1, <1>2, PTL DEF Spec, ResolvedOnce

-----------------------------------------------------------------------------
(* Counting.  The calls that have a future of s to give back, and those that *)
(* have a promise to.                                                        *)
Count(w, E) == Cardinality({i \in DOMAIN w : w[i] \in E})

CallsOn(s)  == {Do("call", l) : l \in {n \in Links : Src[n] = s}}
FutureOf(s) == {Do("decFuture", s)} \union CallsOn(s)

(* The continuations that are attached to s, and the chains that resolve it. *)
Alive(f, l) == f[l] \in {"linked", "running"}
Live(f, s)  == {l \in Links : Src[l] = s /\ Alive(f, l)}
Ends(o, s)  == {l \in o : Dst[l] = s}

(* The counters of a state count the objects of the program, the calls that  *)
(* have one of its futures or promises to give back, and what is attached to *)
(* it or resolves it.                                                        *)
Balance ==
  \A s \in States :
    /\ IsFiniteSet(Live(life, s))
    /\ futures[s] = futH[s] + Count(work, FutureOf(s)) + Cardinality(Live(life, s))
    /\ promises[s] = proH[s] + Count(work, {Do("decPromise", s)}) + Cardinality(Ends(out, s))

(* What keeps a state as it is.                                              *)
Kept ==
  \A s \in States :
    /\ mode[s] = "unresolved" => promises[s] > 0 /\ (s \in asked => futures[s] > 0)
    /\ mode[s] \in Resolved => futures[s] > 0 \/ promises[s] > 0
    /\ mode[s] \in {"unborn", "deleted"} =>
         futures[s] = 0 /\ promises[s] = 0 /\ box[s] = <<>> /\ cancelBox[s] = <<>>

(* What a call under way may rely on.                                        *)
Standing(x) ==
  /\ x.op \in {"execute", "activate"} => mode[x.on] \in Resolved
  /\ x.op = "cancels" => mode[x.on] = "cancel" /\ Range(x.todo) \subseteq Range(cancelBox[x.on])
  /\ x.op = "links" => mode[x.on] \in Resolved \union {"deleted"}
  /\ x.op = "call" /\ x.on \in Links => mode[Src[x.on]] \in Resolved

(* A counter is held below what must find its state in place.                *)
Guards(x) ==
  CASE x.op = "cancels"  -> {Do("decPromise", x.on)}
    [] x.op = "cancel"   -> {Do("decFuture", x.on)}
    [] x.op = "activate" -> {Do("decPromise", x.on), Do("decFuture", x.on)}

(* The calls that return to a state.                                         *)
Held(x) == x.op \in {"cancels", "cancel", "activate"}

(* Of w, what x rests on; and of a whole stack: no execute, and every call   *)
(* that returns to a state finds a counter of it held further down.          *)
Guarded(x, w) == Held(x) => \E y \in Range(w) : y \in Guards(x)

Sound(w) ==
  \A i \in 1 .. Len(w) :
    w[i].op # "execute" /\ (Held(w[i]) => \E j \in i + 1 .. Len(w) : w[j] \in Guards(w[i]))

(* So is the stack, or what is below its top.                                *)
Steady ==
  Sound(work) \/ (work # <<>> /\ Top.op \in {"execute", "activate"} /\ Sound(Tail(work)))

(* Of a resolved state, what is left in the boxes is about to be called.     *)
Delivers(x, s, l) ==
  x \in {Do("execute", s), Do("activate", s)} \/ (x.op = "links" /\ x.on = s /\ l \in Range(x.todo))
DeliversCancel(x, s, y) ==
  x = Do("execute", s) \/ (x.op = "cancels" /\ x.on = s /\ y \in Range(x.todo))
Delivering ==
  \A s \in States : mode[s] \in Resolved =>
    /\ \A l \in Range(box[s]) : \E x \in Range(work) : Delivers(x, s, l)
    /\ \A y \in Range(cancelBox[s]) : \E x \in Range(work) : DeliversCancel(x, s, y)

(* All of it: as long as Safe, no step breaks it.                            *)
Counts == Balance /\ Kept /\ (\A x \in Range(work) : Standing(x)) /\ Steady /\ Delivering

(* No continuation is destroyed twice.                                       *)
Safe ==
  /\ Is("delete") => life[Top.on] # "deleted"
  /\ Is("cancels") /\ Top.todo # <<>> /\ Head(Top.todo) \in Links => life[Head(Top.todo)] # "deleted"

-----------------------------------------------------------------------------
(* The calls that a continuation is marked by while it is being called or    *)
(* destroyed; and whether it is: there is one mark of it then, and none      *)
(* otherwise. A chain has its promise as long as it is attached or running,  *)
(* and the program has none.                                                 *)
Marks(l) == {Do("call", l), Do("delete", l)}

Due(l) == life[l] = "running" \/ (life[l] = "linked" /\ work # <<>> /\ Top = Do("delete", l))

Placed ==
  /\ \A l \in Links : Count(work, Marks(l)) = IF Due(l) THEN 1 ELSE 0
  /\ \A l \in Chains : l \in out <=> Alive(life, l)
  /\ \A l \in Chains : proH[Dst[l]] = 0

(* The open result of a chain has that one promise, and its cancelBox lists  *)
(* the chain first: whoever cancels the result meets the chain first of all. *)
OnePromise ==
  \A l \in Chains : mode[Dst[l]] = "unresolved" =>
    /\ promises[Dst[l]] = 1
    /\ cancelBox[Dst[l]] # <<>> /\ Head(cancelBox[Dst[l]]) = l

(* The next thing on the stack is to call what cancels chain l.              *)
First(l) ==
  work # <<>> /\ \/ Top = Do("execute", Dst[l])
                 \/ Top.op = "cancels" /\ Top.on = Dst[l] /\ Top.todo # <<>> /\ Head(Top.todo) = l

(* A resolved result lists its chain only until that next thing is done; and *)
(* the result of an attached chain is open, or has been cancelled a moment   *)
(* ago, or the chain is on the point of being destroyed.                     *)
Immediate ==
  \A l \in Chains :
    /\ mode[Dst[l]] \in Resolved /\ l \in Range(cancelBox[Dst[l]]) =>
         /\ First(l) /\ Head(cancelBox[Dst[l]]) = l
         /\ mode[Dst[l]] = "cancel" /\ promises[Dst[l]] > 0 => life[l] = "linked"
    /\ life[l] = "linked" => \/ mode[Dst[l]] = "unresolved"
                             \/ mode[Dst[l]] = "cancel" /\ l \in Range(cancelBox[Dst[l]])
                             \/ work # <<>> /\ Top = Do("delete", l)

(* Chains of chains have no rings: r grows along every chain.                *)
Ordered(f, r) == r \in [States -> Nat] /\ \A n \in Chains : f[n] # "unborn" => r[Src[n]] < r[Dst[n]]

(* A call that cannot resolve a state of D: it gives no counter of one back, *)
(* cancels none, and destroys no chain that ends or begins at one.           *)
Harmless(x, D) ==
  /\ x.op \in {"decFuture", "decPromise", "cancel"} => x.on \notin D
  /\ x.op = "delete" => Src[x.on] \notin D /\ Dst[x.on] \notin D
(* Above the first call of M on the stack w, all calls are harmless to D.    *)
Shielded(w, M, D) ==
  \E i \in 1 .. Len(w) : w[i] \in M /\ \A j \in 1 .. i - 1 : Harmless(w[j], D)
(* All of S hang on d by attached chains; S is closed under attached chains; *)
(* and the tree of the result of chain l: open states that hang on it, all   *)
(* that do.                                                                  *)
Hang(f, S, d) == \A s \in S : s = d \/ \E n \in Chains : f[n] = "linked" /\ Dst[n] = s /\ Src[n] \in S
Closure(f, S) == \A n \in Chains : f[n] = "linked" /\ Src[n] \in S => Dst[n] \in S
Tree(m, f, r, D, l) ==
  /\ Dst[l] \in D /\ (\A d \in D : m[d] = "unresolved" /\ r[Dst[l]] <= r[d])
  /\ Hang(f, D, Dst[l]) /\ Closure(f, D)
(* Where a running or destroyed chain stands on the stack: its call, its     *)
(* destruction, or the drop of its promise.                                  *)
Markers(l) == Marks(l) \union {Do("decPromise", Dst[l])}

(* The tree of the result of a chain that runs or is being destroyed is left *)
(* alone by all calls above the marker of the chain: so nothing resolves it, *)
(* and the chain is not destroyed by what it has itself set off.             *)
Calm(r) ==
  \A l \in Chains : life[l] \in {"running", "deleted"} /\ mode[Dst[l]] = "unresolved" =>
    \E D \in SUBSET States : Tree(mode, life, r, D, l) /\ Shielded(work, Markers(l), D)

(* What Tame gives, beyond Shape and Counts.                                 *)
Tidy == Placed /\ OnePromise /\ Immediate /\ \E r \in [States -> Nat] : Ordered(life, r) /\ Calm(r)

(* Counting calls: what one more and one less add up to.                     *)
LEMMA CountType ==
  ASSUME NEW w \in Seq(Items), NEW E
  PROVE  /\ Count(w, E) \in Nat
         /\ Count(w, E) > 0 <=> \E x \in Range(w) : x \in E
<1> DEFINE I == {i \in DOMAIN w : w[i] \in E}
<1>1. DOMAIN w = 1 .. Len(w) /\ Len(w) \in Nat OBVIOUS
<1>2. IsFiniteSet(1 .. Len(w)) BY <1>1, FS_Interval
<1>3. I \in SUBSET (1 .. Len(w)) BY <1>1
<1> HIDE DEF I
<1>4. IsFiniteSet(I) /\ Cardinality(I) \in Nat BY <1>2, <1>3, FS_Subset, FS_CardinalityType
<1>5. Cardinality(I) = 0 <=> I = {} BY <1>4, FS_EmptySet
<1>6. I # {} <=> \E x \in Range(w) : x \in E BY DEF I, Range
<1>7. Count(w, E) = Cardinality(I) BY DEF Count, I
<1> QED BY <1>4, <1>5, <1>6, <1>7

(* One call more.                                                            *)
LEMMA CountOver ==
  ASSUME NEW w \in Seq(Items), NEW x \in Items, NEW E
  PROVE  Count(Over(x, w), E) = Count(w, E) + (IF x \in E THEN 1 ELSE 0)
<1> DEFINE I == {i \in DOMAIN w : w[i] \in E}
           v == Over(x, w)
           J == {j \in DOMAIN v : v[j] \in E}
           K == {j \in 2 .. Len(w) + 1 : w[j - 1] \in E}
           f == [i \in I |-> i + 1]
<1>1. DOMAIN w = 1 .. Len(w) /\ Len(w) \in Nat OBVIOUS
<1>2. /\ v \in Seq(Items) /\ Len(v) = Len(w) + 1 /\ v[1] = x
      /\ \A i \in 1 .. Len(w) : v[i + 1] = w[i]
  BY PushItem, PushPlaces
<1>3. DOMAIN v = 1 .. Len(w) + 1 BY <1>2
<1>4. \A j \in 2 .. Len(w) + 1 : v[j] = w[j - 1]
  <2> SUFFICES ASSUME NEW j \in 2 .. Len(w) + 1 PROVE v[j] = w[j - 1] OBVIOUS
  <2> HIDE DEF v
  <2>1. j - 1 \in 1 .. Len(w) /\ (j - 1) + 1 = j BY <1>1
  <2> QED BY <1>2, <2>1
<1>5. J = K \union (IF x \in E THEN {1} ELSE {})
  <2> HIDE DEF v
  <2>1. \A j : j \in 1 .. Len(w) + 1 <=> j = 1 \/ j \in 2 .. Len(w) + 1 BY <1>1
  <2> QED BY <1>2, <1>3, <1>4, <2>1
<1>6. f \in Bijection(I, K)
  <2>1. \A i \in I : i \in Nat /\ i + 1 \in K BY <1>1
  <2>2. \A j \in K : j - 1 \in I /\ (j - 1) + 1 = j BY <1>1
  <2> HIDE DEF I, K
  <2>3. f \in Injection(I, K) BY <2>1 DEF Injection, IsInjective
  <2>4. f \in Surjection(I, K)
    <3>1. f \in [I -> K] BY <2>1
    <3>2. \A j \in K : f[j - 1] = j BY <2>2
    <3> QED BY <2>2, <3>1, <3>2 DEF Surjection
  <2> QED BY <2>3, <2>4 DEF Bijection
<1>7. IsFiniteSet(I) /\ Cardinality(I) \in Nat
  <2>1. I \in SUBSET (1 .. Len(w)) BY <1>1
  <2>2. IsFiniteSet(1 .. Len(w)) BY <1>1, FS_Interval
  <2> HIDE DEF I
  <2> QED BY <2>1, <2>2, FS_Subset, FS_CardinalityType
<1>8. 1 \notin K BY <1>1
<1>9. Count(w, E) = Cardinality(I) /\ Count(Over(x, w), E) = Cardinality(J) BY DEF Count
<1> HIDE DEF I, J, K, f
<1>10. IsFiniteSet(K) /\ Cardinality(K) = Cardinality(I)
  BY <1>6, <1>7, FS_Bijection DEF ExistsBijection
<1>11. CASE x \in E
  <2>1. J = K \union {1} BY <1>5, <1>11
  <2>2. Cardinality(K \union {1}) = Cardinality(K) + 1 BY <1>8, <1>10, FS_AddElement
  <2> QED BY <1>9, <1>10, <1>11, <2>1, <2>2
<1>12. CASE x \notin E
  <2>1. J = K BY <1>5, <1>12
  <2> QED BY <1>7, <1>9, <1>10, <1>12, <2>1
<1> QED BY <1>11, <1>12

(* Walks are not counted.                                                    *)
LEMMA CountLike ==
  ASSUME NEW w \in Seq(Items), NEW v, Like(v, w), NEW E,
         \A x \in E : x.op \notin {"links", "cancels"}
  PROVE  Count(v, E) = Count(w, E)
<1>1. /\ v \in Seq(Items) /\ Len(v) = Len(w)
      /\ \A i \in 1 .. Len(w) : v[i].op = w[i].op /\ (w[i].op \notin {"links", "cancels"} => v[i] = w[i])
  BY DEF Like
<1>2. DOMAIN v = 1 .. Len(w) /\ DOMAIN w = 1 .. Len(w) BY <1>1
<1>3. \A i \in 1 .. Len(w) : v[i] \in E <=> w[i] \in E BY <1>1
<1>4. {i \in DOMAIN v : v[i] \in E} = {i \in DOMAIN w : w[i] \in E} BY <1>2, <1>3
<1> QED BY <1>4 DEF Count

(* What is counted.                                                          *)
LEMMA CountedItems ==
  /\ \A s, x : x \in FutureOf(s) <=>
       \/ x = Do("decFuture", s)
       \/ \E l \in Links : Src[l] = s /\ x = Do("call", l)
  /\ \A s : \A x \in FutureOf(s) : x.op \notin {"links", "cancels"}
  /\ \A s : \A x \in {Do("decPromise", s)} : x.op \notin {"links", "cancels"}
  /\ \A l : \A x \in Marks(l) : x.op \notin {"links", "cancels"}
<1>1. \A s, x : x \in FutureOf(s) <=>
       \/ x = Do("decFuture", s)
       \/ \E l \in Links : Src[l] = s /\ x = Do("call", l)
  BY DEF FutureOf, CallsOn
<1>2. \A o, n : Do(o, n).op = o BY DEF Do
<1> QED BY <1>1, <1>2 DEF Marks

LEMMA DoCounted ==
  ASSUME NEW o \in Ops, NEW n, NEW s
  PROVE  /\ Do(o, n) \in FutureOf(s) <=>
              (o = "decFuture" /\ n = s) \/ (o = "call" /\ n \in Links /\ Src[n] = s)
         /\ Do(o, n) \in {Do("decPromise", s)} <=> o = "decPromise" /\ n = s
         /\ Do(o, n) \in Marks(s) <=> o \in {"call", "delete"} /\ n = s
<1>1. \A p, q, m, k : Do(p, m) = Do(q, k) <=> p = q /\ m = k BY DEF Do
<1>2. Do(o, n) \in {Do("decPromise", s)} <=> o = "decPromise" /\ n = s BY <1>1
<1>3. Do(o, n) \in Marks(s) <=> o \in {"call", "delete"} /\ n = s BY <1>1 DEF Marks
<1>4. Do(o, n) \in FutureOf(s) <=>
              (o = "decFuture" /\ n = s) \/ (o = "call" /\ n \in Links /\ Src[n] = s)
  BY <1>1, CountedItems
<1> QED BY <1>2, <1>3, <1>4

(* One continuation more, or one less.                                       *)
LEMMA LiveStep ==
  ASSUME NEW f, NEW g, NEW l \in Links, ~ Alive(f, l), Alive(g, l),
         \A n \in Links : n # l => (Alive(g, n) <=> Alive(f, n)), NEW s \in States
  PROVE  /\ IsFiniteSet(Live(g, s)) <=> IsFiniteSet(Live(f, s))
         /\ IsFiniteSet(Live(f, s)) =>
              /\ Cardinality(Live(f, s)) \in Nat
              /\ Cardinality(Live(g, s)) = Cardinality(Live(f, s)) + (IF s = Src[l] THEN 1 ELSE 0)
<1>1. CASE s = Src[l]
  <2>1. Live(g, s) = Live(f, s) \union {l} /\ l \notin Live(f, s) BY <1>1 DEF Live
  <2>2. Live(f, s) \in SUBSET Live(g, s) BY <2>1
  <2>3. IsFiniteSet(Live(g, s)) => IsFiniteSet(Live(f, s)) BY <2>2, FS_Subset
  <2>4. ASSUME IsFiniteSet(Live(f, s))
        PROVE  /\ IsFiniteSet(Live(g, s)) /\ Cardinality(Live(f, s)) \in Nat
               /\ Cardinality(Live(g, s)) = Cardinality(Live(f, s)) + 1
    BY <2>1, <2>4, FS_AddElement, FS_CardinalityType
  <2> QED BY <1>1, <2>3, <2>4
<1>2. CASE s # Src[l]
  <2>1. Live(g, s) = Live(f, s) BY <1>2 DEF Live
  <2>2. IsFiniteSet(Live(f, s)) => Cardinality(Live(f, s)) \in Nat BY FS_CardinalityType
  <2> QED BY <1>2, <2>1, <2>2
<1> QED BY <1>1, <1>2

LEMMA LiveSame ==
  ASSUME NEW f, NEW g, \A n \in Links : Alive(g, n) <=> Alive(f, n)
  PROVE  \A s : Live(g, s) = Live(f, s)
  BY DEF Live

(* Two chains do not have the same result.                                   *)
LEMMA EndsFacts ==
  ASSUME NEW o \in SUBSET Chains, NEW s
  PROVE  Cardinality(Ends(o, s)) = IF \E l \in o : Dst[l] = s THEN 1 ELSE 0
<1>1. CASE \E l \in o : Dst[l] = s
  <2>1. PICK l \in o : Dst[l] = s BY <1>1
  <2>2. Ends(o, s) = {l} BY <2>1, Consts DEF Ends
  <2> QED BY <1>1, <2>2, FS_Singleton
<1>2. CASE ~ \E l \in o : Dst[l] = s
  <2>1. Ends(o, s) = {} BY <1>2 DEF Ends
  <2> QED BY <1>2, <2>1, FS_EmptySet
<1> QED BY <1>1, <1>2

-----------------------------------------------------------------------------
(* What lies below a call, when one is pushed on top.                        *)
LEMMA LaterOver ==
  ASSUME NEW w \in Seq(Items), NEW x \in Items, NEW E, NEW i \in 0 .. Len(w)
  PROVE  (\E j \in i + 2 .. Len(Over(x, w)) : Over(x, w)[j] \in E)
           <=> (\E j \in i + 1 .. Len(w) : w[j] \in E)
<1>1. PICK v : v = Over(x, w) OBVIOUS
<1>2. Len(v) = Len(w) + 1 /\ \A k \in 1 .. Len(w) : v[k + 1] = w[k] BY <1>1, PushPlaces
<1>3. Len(w) \in Nat OBVIOUS
<1>4. ASSUME NEW j \in i + 2 .. Len(v), v[j] \in E
      PROVE  \E k \in i + 1 .. Len(w) : w[k] \in E
  <2>1. j - 1 \in i + 1 .. Len(w) /\ j - 1 \in 1 .. Len(w) /\ (j - 1) + 1 = j BY <1>2, <1>3
  <2>2. w[j - 1] = v[j] BY <1>2, <2>1
  <2> QED BY <1>4, <2>1, <2>2
<1>5. ASSUME NEW k \in i + 1 .. Len(w), w[k] \in E
      PROVE  \E j \in i + 2 .. Len(v) : v[j] \in E
  <2>1. k + 1 \in i + 2 .. Len(v) /\ k \in 1 .. Len(w) BY <1>2, <1>3
  <2>2. v[k + 1] = w[k] BY <1>2, <2>1
  <2> QED BY <1>5, <2>1, <2>2
<1> QED BY <1>1, <1>4, <1>5

(* Soundness of a stack over another, and of one of the same calls.          *)
LEMMA SoundOver ==
  ASSUME NEW w \in Seq(Items), NEW x \in Items
  PROVE  Sound(Over(x, w)) <=> x.op # "execute" /\ Guarded(x, w) /\ Sound(w)
<1>1. PICK v : v = Over(x, w) OBVIOUS
<1>2. Len(v) = Len(w) + 1 /\ v[1] = x /\ \A k \in 1 .. Len(w) : v[k + 1] = w[k] BY <1>1, PushPlaces
<1>3. Len(w) \in Nat /\ DOMAIN w = 1 .. Len(w) OBVIOUS
<1>4. (\E j \in 2 .. Len(v) : v[j] \in Guards(x)) <=> (\E y \in Range(w) : y \in Guards(x))
  <2>1. 0 \in 0 .. Len(w) BY <1>3
  <2>2. (\E j \in 0 + 2 .. Len(v) : v[j] \in Guards(x)) <=> (\E j \in 0 + 1 .. Len(w) : w[j] \in Guards(x))
    BY <1>1, <2>1, LaterOver
  <2>3. (\E j \in 1 .. Len(w) : w[j] \in Guards(x)) <=> (\E y \in Range(w) : y \in Guards(x))
    BY <1>3 DEF Range
  <2> QED BY <2>2, <2>3
<1>5. \A i \in 1 .. Len(w) :
        (\E j \in (i + 1) + 1 .. Len(v) : v[j] \in Guards(w[i]))
          <=> (\E j \in i + 1 .. Len(w) : w[j] \in Guards(w[i]))
  <2> SUFFICES ASSUME NEW i \in 1 .. Len(w)
               PROVE  (\E j \in (i + 1) + 1 .. Len(v) : v[j] \in Guards(w[i]))
                        <=> (\E j \in i + 1 .. Len(w) : w[j] \in Guards(w[i]))
    OBVIOUS
  <2>1. i \in 0 .. Len(w) /\ (i + 1) + 1 = i + 2 BY <1>3
  <2> QED BY <1>1, <2>1, LaterOver
<1>6. ASSUME Sound(v) PROVE x.op # "execute" /\ Guarded(x, w) /\ Sound(w)
  <2>1. 1 \in 1 .. Len(v) /\ 1 + 1 = 2 BY <1>2, <1>3
  <2>2. x.op # "execute" /\ (Held(x) => \E j \in 2 .. Len(v) : v[j] \in Guards(x))
    BY <1>2, <1>6, <2>1 DEF Sound
  <2>3. ASSUME NEW i \in 1 .. Len(w)
        PROVE  w[i].op # "execute" /\ (Held(w[i]) => \E j \in i + 1 .. Len(w) : w[j] \in Guards(w[i]))
    <3>1. i + 1 \in 1 .. Len(v) /\ v[i + 1] = w[i] BY <1>2, <1>3
    <3>2. w[i].op # "execute" /\ (Held(w[i]) => \E j \in (i + 1) + 1 .. Len(v) : v[j] \in Guards(w[i]))
      BY <1>6, <3>1 DEF Sound
    <3> QED BY <1>5, <3>2
  <2> QED BY <1>4, <2>2, <2>3 DEF Guarded, Sound
<1>7. ASSUME x.op # "execute", Guarded(x, w), Sound(w) PROVE Sound(v)
  <2> SUFFICES ASSUME NEW k \in 1 .. Len(v)
               PROVE  v[k].op # "execute" /\ (Held(v[k]) => \E j \in k + 1 .. Len(v) : v[j] \in Guards(v[k]))
    BY DEF Sound
  <2>1. CASE k = 1
    <3>1. v[k] = x /\ k + 1 = 2 BY <1>2, <2>1
    <3> QED BY <1>4, <1>7, <3>1 DEF Guarded
  <2>2. CASE k # 1
    <3>1. PICK i \in 1 .. Len(w) : k = i + 1
      <4>1. k - 1 \in 1 .. Len(w) /\ k = (k - 1) + 1 BY <1>2, <1>3, <2>2
      <4> QED BY <4>1
    <3>2. v[k] = w[i] BY <1>2, <3>1
    <3>3. w[i].op # "execute" /\ (Held(w[i]) => \E j \in i + 1 .. Len(w) : w[j] \in Guards(w[i]))
      BY <1>7 DEF Sound
    <3> QED BY <1>5, <3>1, <3>2, <3>3
  <2> QED BY <2>1, <2>2
<1> QED BY <1>1, <1>6, <1>7

LEMMA SoundLike ==
  ASSUME NEW w \in Seq(Items), NEW v, Like(v, w), Sound(w)
  PROVE  Sound(v)
<1>1. /\ v \in Seq(Items) /\ Len(v) = Len(w)
      /\ \A i \in 1 .. Len(w) : v[i].op = w[i].op /\ v[i].on = w[i].on
      /\ \A i \in 1 .. Len(w) : w[i].op \notin {"links", "cancels"} => v[i] = w[i]
  BY DEF Like
<1>2. Len(w) \in Nat OBVIOUS
<1>3. ASSUME NEW i \in 1 .. Len(w)
      PROVE  v[i].op # "execute" /\ (Held(v[i]) => \E j \in i + 1 .. Len(v) : v[j] \in Guards(v[i]))
  <2>1. v[i].op = w[i].op /\ v[i].on = w[i].on BY <1>1
  <2>2. Held(v[i]) <=> Held(w[i]) BY <2>1 DEF Held
  <2>3. Held(w[i]) => Guards(v[i]) = Guards(w[i]) BY <2>1 DEF Guards, Held
  <2>4. w[i].op # "execute" /\ (Held(w[i]) => \E j \in i + 1 .. Len(w) : w[j] \in Guards(w[i]))
    BY DEF Sound
  <2>5. ASSUME NEW j \in i + 1 .. Len(w), w[j] \in Guards(w[i]), Held(w[i]) PROVE v[j] = w[j]
    <3>1. w[j].op \in {"decPromise", "decFuture"} BY <2>5 DEF Guards, Held, Do
    <3>2. j \in 1 .. Len(w) BY <1>2
    <3> QED BY <1>1, <3>1, <3>2
  <2> QED BY <1>1, <2>1, <2>2, <2>3, <2>4, <2>5
<1> QED BY <1>1, <1>3 DEF Sound

(* A guard is a counter.                                                     *)
LEMMA GuardsAre ==
  ASSUME NEW x, Held(x), NEW y \in Guards(x)
  PROVE  y = Do("decPromise", x.on) \/ y = Do("decFuture", x.on)
  BY DEF Held, Guards

(* Harmless calls above a marker keep it a shield.                           *)
LEMMA ShieldOver ==
  ASSUME NEW w \in Seq(Items), NEW x \in Items, NEW M, NEW D
  PROVE  Shielded(Over(x, w), M, D) <=> x \in M \/ (Harmless(x, D) /\ Shielded(w, M, D))
<1>1. PICK v : v = Over(x, w) OBVIOUS
<1>2. Len(v) = Len(w) + 1 /\ v[1] = x /\ \A k \in 1 .. Len(w) : v[k + 1] = w[k] BY <1>1, PushPlaces
<1>3. Len(w) \in Nat OBVIOUS
<1>4. ASSUME NEW i \in 1 .. Len(v), v[i] \in M, \A j \in 1 .. i - 1 : Harmless(v[j], D), x \notin M
      PROVE  Harmless(x, D) /\ Shielded(w, M, D)
  <2>1. i # 1 BY <1>2, <1>4
  <2>2. i - 1 \in 1 .. Len(w) /\ (i - 1) + 1 = i /\ 1 \in 1 .. i - 1 BY <1>2, <1>3, <2>1
  <2>3. Harmless(x, D) /\ w[i - 1] = v[i] BY <1>2, <1>4, <2>2
  <2>4. ASSUME NEW j \in 1 .. (i - 1) - 1 PROVE Harmless(w[j], D)
    <3>1. j + 1 \in 1 .. i - 1 /\ j \in 1 .. Len(w) BY <1>3, <2>2
    <3>2. v[j + 1] = w[j] BY <1>2, <3>1
    <3> QED BY <1>4, <3>1, <3>2
  <2> QED BY <1>4, <2>2, <2>3, <2>4 DEF Shielded
<1>5. ASSUME x \in M PROVE Shielded(v, M, D)
  <2>1. 1 \in 1 .. Len(v) /\ \A j \in 1 .. 1 - 1 : Harmless(v[j], D) BY <1>2, <1>3
  <2> QED BY <1>2, <1>5, <2>1 DEF Shielded
<1>6. ASSUME Harmless(x, D), NEW i \in 1 .. Len(w), w[i] \in M, \A j \in 1 .. i - 1 : Harmless(w[j], D)
      PROVE  Shielded(v, M, D)
  <2>1. i + 1 \in 1 .. Len(v) /\ v[i + 1] = w[i] BY <1>2, <1>3
  <2>2. ASSUME NEW j \in 1 .. (i + 1) - 1 PROVE Harmless(v[j], D)
    <3>1. CASE j = 1 BY <1>2, <1>6, <3>1
    <3>2. CASE j # 1
      <4>1. j - 1 \in 1 .. i - 1 /\ j - 1 \in 1 .. Len(w) /\ (j - 1) + 1 = j BY <1>3, <3>2
      <4>2. v[j] = w[j - 1] BY <1>2, <4>1
      <4> QED BY <1>6, <4>1, <4>2
    <3> QED BY <3>1, <3>2
  <2> QED BY <1>6, <2>1, <2>2 DEF Shielded
<1>7. Shielded(v, M, D) => x \in M \/ (Harmless(x, D) /\ Shielded(w, M, D))
  BY <1>4 DEF Shielded
<1>8. Harmless(x, D) /\ Shielded(w, M, D) => Shielded(v, M, D)
  <2> SUFFICES ASSUME Harmless(x, D), Shielded(w, M, D) PROVE Shielded(v, M, D) OBVIOUS
  <2>1. PICK i \in 1 .. Len(w) : w[i] \in M /\ \A j \in 1 .. i - 1 : Harmless(w[j], D)
    BY DEF Shielded
  <2> QED BY <1>6, <2>1
<1> QED BY <1>1, <1>5, <1>7, <1>8

LEMMA ShieldLike ==
  ASSUME NEW w \in Seq(Items), NEW v, Like(v, w), NEW M, NEW D,
         \A x \in M : x.op \notin {"links", "cancels"}, Shielded(w, M, D)
  PROVE  Shielded(v, M, D)
<1>1. /\ Len(v) = Len(w)
      /\ \A i \in 1 .. Len(w) : v[i].op = w[i].op /\ v[i].on = w[i].on
      /\ \A i \in 1 .. Len(w) : w[i].op \notin {"links", "cancels"} => v[i] = w[i]
  BY DEF Like
<1>2. PICK i \in 1 .. Len(w) : w[i] \in M /\ \A j \in 1 .. i - 1 : Harmless(w[j], D)
  BY DEF Shielded
<1>3. v[i] \in M BY <1>1, <1>2
<1>4. ASSUME NEW j \in 1 .. i - 1 PROVE Harmless(v[j], D)
  <2>1. j \in 1 .. Len(w) BY <1>2
  <2>2. v[j].op = w[j].op /\ v[j].on = w[j].on /\ Harmless(w[j], D) BY <1>1, <1>2, <2>1
  <2> QED BY <2>2 DEF Harmless
<1> QED BY <1>1, <1>2, <1>3, <1>4 DEF Shielded

-----------------------------------------------------------------------------
(* What the counts give.                                                     *)
LEMMA BalanceGives ==
  ASSUME Shape, Balance, NEW s \in States
  PROVE  /\ futures[s] \in Nat /\ promises[s] \in Nat
         /\ Do("decFuture", s) \in Range(work) => futures[s] > 0
         /\ Do("decPromise", s) \in Range(work) => promises[s] > 0
         /\ \A l \in Links : Src[l] = s /\ (Alive(life, l) \/ Do("call", l) \in Range(work)) => futures[s] > 0
         /\ \A l \in out : Dst[l] = s => promises[s] > 0
         /\ HasFuture(s) => futures[s] > 0
         /\ HasPromise(s) => promises[s] > 0
<1>1. work \in Seq(Items) /\ futH[s] \in Nat /\ proH[s] \in Nat /\ out \in SUBSET Chains
  BY Consts DEF Shape, Typed
<1>2. PICK f, p, a, b :
        /\ f = Count(work, FutureOf(s)) /\ p = Count(work, {Do("decPromise", s)})
        /\ a = Cardinality(Live(life, s)) /\ b = Cardinality(Ends(out, s))
  OBVIOUS
<1>3. f \in Nat /\ p \in Nat BY <1>1, <1>2, CountType
<1>4. a \in Nat /\ (a = 0 => Live(life, s) = {})
  BY <1>2, FS_CardinalityType, FS_EmptySet DEF Balance
<1>5. b = IF \E l \in out : Dst[l] = s THEN 1 ELSE 0 BY <1>1, <1>2, EndsFacts
<1>6. futures[s] = futH[s] + f + a /\ promises[s] = proH[s] + p + b BY <1>2 DEF Balance
<1>7. /\ futures[s] \in Nat /\ promises[s] \in Nat
      /\ (futH[s] > 0 \/ f > 0 \/ a > 0) => futures[s] > 0
      /\ (proH[s] > 0 \/ p > 0 \/ b > 0) => promises[s] > 0
  BY <1>1, <1>3, <1>4, <1>5, <1>6, SMTT(30)
<1>8. Do("decFuture", s) \in Range(work) => f > 0 BY <1>1, <1>2, CountType, CountedItems
<1>9. Do("decPromise", s) \in Range(work) => p > 0 BY <1>1, <1>2, CountType
<1>10. \A l \in Links : Src[l] = s /\ Do("call", l) \in Range(work) => f > 0
  BY <1>1, <1>2, CountType, CountedItems
<1>11. \A l \in Links : Src[l] = s /\ Alive(life, l) => a > 0 BY <1>4 DEF Live
<1>12. \A l \in out : Dst[l] = s => b > 0 BY <1>5
<1>13. HasFuture(s) => futures[s] > 0
  <2>1. ASSUME Is("call"), Top.on \in Links, Src[Top.on] = s PROVE f > 0
    <3>1. work # <<>> /\ Top.op = "call" BY <2>1 DEF Is
    <3>2. Top \in Items /\ Real(Top) /\ Top \in Range(work) BY <3>1, WorkTop
    <3>3. Top = Do("call", Top.on) BY <3>1, <3>2, Same DEF Real
    <3> QED BY <1>10, <2>1, <3>2, <3>3
  <2> QED BY <1>7, <2>1 DEF HasFuture
<1>14. HasPromise(s) => promises[s] > 0 BY <1>7, <1>12 DEF HasPromise
<1> QED BY <1>7, <1>8, <1>9, <1>10, <1>11, <1>12, <1>13, <1>14

(* The numbers of one state.                                                 *)
LEMMA BalanceAt ==
  ASSUME Shape, Balance, NEW s \in States
  PROVE  \E f, p, a, b \in Nat :
           /\ f = Count(work, FutureOf(s)) /\ p = Count(work, {Do("decPromise", s)})
           /\ IsFiniteSet(Live(life, s)) /\ a = Cardinality(Live(life, s))
           /\ b = Cardinality(Ends(out, s))
           /\ futH[s] \in Nat /\ proH[s] \in Nat
           /\ futures[s] = futH[s] + f + a /\ promises[s] = proH[s] + p + b
<1>1. work \in Seq(Items) /\ futH[s] \in Nat /\ proH[s] \in Nat /\ out \in SUBSET Chains
  BY Consts DEF Shape, Typed
<1>2. Count(work, FutureOf(s)) \in Nat /\ Count(work, {Do("decPromise", s)}) \in Nat
  BY <1>1, CountType
<1>3. IsFiniteSet(Live(life, s)) BY DEF Balance
<1>4. Cardinality(Live(life, s)) \in Nat BY <1>3, FS_CardinalityType
<1>5. Cardinality(Ends(out, s)) \in Nat BY <1>1, EndsFacts, SMTT(30)
<1>6. /\ futures[s] = futH[s] + Count(work, FutureOf(s)) + Cardinality(Live(life, s))
      /\ promises[s] = proH[s] + Count(work, {Do("decPromise", s)}) + Cardinality(Ends(out, s))
  BY DEF Balance
<1> QED BY <1>1, <1>2, <1>3, <1>4, <1>5, <1>6

LEMMA InPlace ==
  ASSUME Kept, NEW s \in States, futures[s] > 0 \/ promises[s] > 0
  PROVE  mode[s] \notin {"unborn", "deleted"}
  BY DEF Kept

(* The stack below the innermost call.                                       *)
LEMMA StackFacts ==
  ASSUME Shape, Steady, work # <<>>, NEW t \in Items, NEW w \in Seq(Items),
         t = Top, w = Tail(work), work = Over(t, w)
  PROVE  Sound(w) /\ (t.op \notin {"execute", "activate"} => Sound(work))
<1>1. CASE Sound(work) BY <1>1, SoundOver
<1>2. CASE ~ Sound(work) BY <1>2 DEF Steady
<1> QED BY <1>1, <1>2

LEMMA UserStack ==
  ASSUME Shape, Steady, UserCode
  PROVE  work \in Seq(Items) /\ Sound(work)
<1>1. work \in Seq(Items) BY DEF Shape, Typed
<1>2. CASE work = <<>> BY <1>2 DEF Sound
<1>3. CASE work # <<>>
  <2>1. PICK t \in Items, w \in Seq(Items) : t = Top /\ w = Tail(work) /\ work = Over(t, w)
    BY <1>3, TopFacts
  <2>2. t.op = "call" BY <1>3, <2>1 DEF UserCode, Is
  <2> QED BY <1>1, <1>3, <2>1, <2>2, StackFacts
<1> QED BY <1>1, <1>2, <1>3

(* Steps that delete no state.                                               *)
Firm == \A s \in States : mode[s] \in Resolved \union {"deleted"} => mode'[s] = mode[s]

LEMMA StandingKept ==
  ASSUME NEW x, Real(x), Standing(x), Firm,
         x.op = "cancels" => Range(x.todo) \subseteq Range(cancelBox'[x.on])
  PROVE  Standing(x)'
<1>1. x.op \notin {"call", "delete"} => x.on \in States BY DEF Real
<1>2. x.op = "call" /\ x.on \in Links => Src[x.on] \in States BY Consts
<1> QED BY <1>1, <1>2 DEF Standing, Firm, Resolved

LEMMA StandingFrame ==
  ASSUME Shape, Firm, \A x \in Range(work) : Standing(x),
         \A s \in States : Range(cancelBox[s]) \subseteq Range(cancelBox'[s])
  PROVE  \A x \in Range(work) : Standing(x)'
<1> SUFFICES ASSUME NEW x \in Range(work) PROVE Standing(x)' OBVIOUS
<1>1. Real(x) BY DEF Shape
<1>2. x.op = "cancels" => x.on \in States /\ Range(x.todo) \subseteq Range(cancelBox[x.on])
  BY <1>1 DEF Real, Standing
<1> QED BY <1>1, <1>2, StandingKept

LEMMA StandingLoses ==
  ASSUME NEW y, NEW z, NEW o \in {"links", "cancels"}, NEW x,
         Loses(y, z, o, x), Real(y), Standing(y), Firm,
         \A s \in States : \A n \in Range(cancelBox[s]) :
           n \in Range(cancelBox'[s]) \/ (o = "cancels" /\ n = x)
  PROVE  Standing(z)'
<1>1. z.op = y.op /\ z.on = y.on BY DEF Loses
<1>2. y.op \notin {"call", "delete"} => y.on \in States BY DEF Real
<1>3. y.op = "call" /\ y.on \in Links => Src[y.on] \in States BY Consts
<1>4. ASSUME y.op = "cancels" PROVE Range(z.todo) \subseteq Range(cancelBox'[z.on])
  <2>1. Range(y.todo) \subseteq Range(cancelBox[y.on]) BY <1>4 DEF Standing
  <2>2. CASE o = "cancels"
    <3>1. Range(z.todo) = Range(y.todo) \ {x} BY <1>4, <2>2 DEF Loses
    <3> QED BY <1>1, <1>2, <1>4, <2>1, <3>1
  <2>3. CASE o = "links"
    <3>1. z = y BY <1>4, <2>3 DEF Loses
    <3> QED BY <1>2, <1>4, <2>1, <2>3, <3>1
  <2> QED BY <2>2, <2>3
<1> QED BY <1>1, <1>2, <1>3, <1>4 DEF Standing, Firm, Resolved

(* Steps that call nothing of what is left in the boxes.                     *)
LEMMA DeliverMore ==
  ASSUME Delivering,
         \A s \in States : mode'[s] \in Resolved =>
           \/ Do("execute", s) \in Range(work')
           \/ /\ mode[s] \in Resolved
              /\ Range(box'[s]) \subseteq Range(box[s])
              /\ Range(cancelBox'[s]) \subseteq Range(cancelBox[s]),
         \A x \in Range(work) :
           x.op \in {"execute", "activate"} \/ (x.op \in {"links", "cancels"} /\ x.todo # <<>>)
             => x \in Range(work')
  PROVE  Delivering'
<1> SUFFICES ASSUME NEW s \in States, mode'[s] \in Resolved
             PROVE  /\ \A l \in Range(box'[s]) : \E x \in Range(work') : Delivers(x, s, l)
                    /\ \A y \in Range(cancelBox'[s]) : \E x \in Range(work') : DeliversCancel(x, s, y)
  BY DEF Delivering, Delivers, DeliversCancel
<1>1. CASE Do("execute", s) \in Range(work') BY <1>1 DEF Delivers, DeliversCancel
<1>2. CASE Do("execute", s) \notin Range(work')
  <2>1. /\ mode[s] \in Resolved
        /\ Range(box'[s]) \subseteq Range(box[s])
        /\ Range(cancelBox'[s]) \subseteq Range(cancelBox[s])
    BY <1>2
  <2>2. \A o : Do(o, s).op = o BY DEF Do
  <2>3. Range(<<>>) = {} BY DEF Range
  <2>4. ASSUME NEW l \in Range(box'[s]) PROVE \E x \in Range(work') : Delivers(x, s, l)
    <3>1. PICK x \in Range(work) : Delivers(x, s, l) BY <2>1, <2>4 DEF Delivering
    <3>2. x.op \in {"execute", "activate"} \/ (x.op = "links" /\ x.todo # <<>>)
      BY <2>2, <2>3, <3>1 DEF Delivers
    <3> QED BY <3>1, <3>2
  <2>5. ASSUME NEW y \in Range(cancelBox'[s]) PROVE \E x \in Range(work') : DeliversCancel(x, s, y)
    <3>1. PICK x \in Range(work) : DeliversCancel(x, s, y) BY <2>1, <2>5 DEF Delivering
    <3>2. x.op = "execute" \/ (x.op = "cancels" /\ x.todo # <<>>)
      BY <2>2, <2>3, <3>1 DEF DeliversCancel
    <3> QED BY <3>1, <3>2
  <2> QED BY <2>4, <2>5
<1> QED BY <1>1, <1>2

(* Steps by which one leaves its box, and the walks over it.                 *)
LEMMA DeliverLess ==
  ASSUME Delivering, UNCHANGED mode, NEW o \in {"links", "cancels"}, NEW x,
         \A s \in States : /\ Range(box'[s]) \subseteq Range(box[s])
                           /\ Range(cancelBox'[s]) \subseteq Range(cancelBox[s])
                           /\ o = "links" => x \notin Range(box'[s])
                           /\ o = "cancels" => x \notin Range(cancelBox'[s]),
         \A y \in Range(work) : y.op \in {"execute", "activate", "links", "cancels"}
           => \E z \in Range(work') : Loses(y, z, o, x)
  PROVE  Delivering'
<1> SUFFICES ASSUME NEW s \in States, mode'[s] \in Resolved
             PROVE  /\ \A l \in Range(box'[s]) : \E y \in Range(work') : Delivers(y, s, l)
                    /\ \A n \in Range(cancelBox'[s]) : \E y \in Range(work') : DeliversCancel(y, s, n)
  BY DEF Delivering, Delivers, DeliversCancel
<1>1. \A p : Do(p, s).op = p BY DEF Do
<1>2. ASSUME NEW l \in Range(box'[s]) PROVE \E z \in Range(work') : Delivers(z, s, l)
  <2>1. PICK y \in Range(work) : Delivers(y, s, l) BY <1>2 DEF Delivering
  <2>2. y.op \in {"execute", "activate", "links"} BY <1>1, <2>1 DEF Delivers
  <2>3. PICK z \in Range(work') : Loses(y, z, o, x) BY <2>2
  <2>4. CASE y.op # o BY <2>1, <2>3, <2>4 DEF Loses
  <2>5. CASE y.op = o
    <3>1. o = "links" /\ l # x BY <1>2, <2>2, <2>5
    <3>2. y.on = s /\ l \in Range(y.todo) BY <1>1, <2>1, <2>5, <3>1 DEF Delivers
    <3>3. z.op = "links" /\ z.on = s /\ l \in Range(z.todo) BY <2>3, <2>5, <3>1, <3>2 DEF Loses
    <3> QED BY <3>3 DEF Delivers
  <2> QED BY <2>4, <2>5
<1>3. ASSUME NEW n \in Range(cancelBox'[s]) PROVE \E z \in Range(work') : DeliversCancel(z, s, n)
  <2>1. PICK y \in Range(work) : DeliversCancel(y, s, n) BY <1>3 DEF Delivering
  <2>2. y.op \in {"execute", "cancels"} BY <1>1, <2>1 DEF DeliversCancel
  <2>3. PICK z \in Range(work') : Loses(y, z, o, x) BY <2>2
  <2>4. CASE y.op # o BY <2>1, <2>3, <2>4 DEF Loses
  <2>5. CASE y.op = o
    <3>1. o = "cancels" /\ n # x BY <1>3, <2>2, <2>5
    <3>2. y.on = s /\ n \in Range(y.todo) BY <1>1, <2>1, <2>5, <3>1 DEF DeliversCancel
    <3>3. z.op = "cancels" /\ z.on = s /\ n \in Range(z.todo) BY <2>3, <2>5, <3>1, <3>2 DEF Loses
    <3> QED BY <3>3 DEF DeliversCancel
  <2> QED BY <2>4, <2>5
<1> QED BY <1>2, <1>3

-----------------------------------------------------------------------------
(* What the counts say goes on to hold, step by step.                        *)
LEMMA GetFutureCounts ==
  ASSUME Shape, Counts, NEW s \in States, GetFuture(s) PROVE Counts'
<1>1. /\ HasPromise(s) \/ HasFuture(s)
      /\ futures' = [futures EXCEPT ![s] = @ + 1] /\ futH' = [futH EXCEPT ![s] = @ + 1]
      /\ asked' = asked \union {s}
      /\ UNCHANGED <<mode, promises, box, cancelBox, life, out, proH, work>>
  BY DEF GetFuture
<1>2. futures[s] \in Nat /\ (futures[s] > 0 \/ promises[s] > 0)
  BY <1>1, BalanceGives DEF Counts
<1>3. mode[s] \notin {"unborn", "deleted"} BY <1>2, InPlace DEF Counts
<1>4. \A i \in States : /\ futures'[i] = IF i = s THEN futures[i] + 1 ELSE futures[i]
                        /\ futH'[i] = IF i = s THEN futH[i] + 1 ELSE futH[i]
  BY <1>1 DEF Shape, Typed
<1>5. Balance'
  <2> SUFFICES ASSUME NEW i \in States
               PROVE  /\ IsFiniteSet(Live(life', i))
                      /\ futures'[i] = futH'[i] + Count(work', FutureOf(i)) + Cardinality(Live(life', i))
                      /\ promises'[i] = proH'[i] + Count(work', {Do("decPromise", i)}) + Cardinality(Ends(out', i))
    BY DEF Balance
  <2>1. PICK f, p, a, b \in Nat :
           /\ f = Count(work, FutureOf(i)) /\ p = Count(work, {Do("decPromise", i)})
           /\ IsFiniteSet(Live(life, i)) /\ a = Cardinality(Live(life, i))
           /\ b = Cardinality(Ends(out, i))
           /\ futH[i] \in Nat /\ proH[i] \in Nat
           /\ futures[i] = futH[i] + f + a /\ promises[i] = proH[i] + p + b
    BY BalanceAt DEF Counts
  <2>2. futures'[i] = futH'[i] + f + a BY <1>4, <2>1
  <2> QED BY <1>1, <2>1, <2>2
<1>6. Kept'
  <2>1. ASSUME NEW i \in States, i # s
        PROVE  /\ mode'[i] = mode[i] /\ futures'[i] = futures[i] /\ promises'[i] = promises[i]
               /\ box'[i] = box[i] /\ cancelBox'[i] = cancelBox[i] /\ (i \in asked' => i \in asked)
    BY <1>1, <1>4, <2>1
  <2>2. mode'[s] = mode[s] /\ futures'[s] > 0 /\ promises'[s] = promises[s] BY <1>1, <1>2, <1>4
  <2>3. mode[s] = "unresolved" => promises'[s] > 0 BY <2>2 DEF Counts, Kept
  <2> QED BY <1>3, <2>1, <2>2, <2>3 DEF Counts, Kept
<1>7. \A x \in Range(work') : Standing(x)'
  BY <1>1 DEF Counts, Standing
<1>8. Steady' BY <1>1 DEF Counts, Steady, Top
<1>9. Delivering' BY <1>1 DEF Counts, Delivering, Delivers, DeliversCancel
<1> QED BY <1>5, <1>6, <1>7, <1>8, <1>9 DEF Counts

(* Calls that have no counter to give back.                                  *)
Plain(x) == x.op \notin {"decFuture", "decPromise"} /\ (x.op = "call" => x.on \notin Links)

LEMMA Uncounted ==
  ASSUME NEW w \in Seq(Items), NEW x \in Items, Plain(x)
  PROVE  \A s : /\ Count(Over(x, w), FutureOf(s)) = Count(w, FutureOf(s))
                /\ Count(Over(x, w), {Do("decPromise", s)}) = Count(w, {Do("decPromise", s)})
<1> SUFFICES ASSUME NEW s
             PROVE  /\ Count(Over(x, w), FutureOf(s)) = Count(w, FutureOf(s))
                    /\ Count(Over(x, w), {Do("decPromise", s)}) = Count(w, {Do("decPromise", s)})
  OBVIOUS
<1>1. x \notin FutureOf(s) /\ x \notin {Do("decPromise", s)}
  <2>1. \A o, n : Do(o, n).op = o /\ Do(o, n).on = n BY DEF Do
  <2> QED BY <2>1, CountedItems DEF Plain
<1>2. Count(w, FutureOf(s)) \in Nat /\ Count(w, {Do("decPromise", s)}) \in Nat BY CountType
<1>3. Count(Over(x, w), FutureOf(s)) = Count(w, FutureOf(s)) + 0 BY <1>1, CountOver
<1>4. Count(Over(x, w), {Do("decPromise", s)}) = Count(w, {Do("decPromise", s)}) + 0
  BY <1>1, CountOver
<1> QED BY <1>2, <1>3, <1>4

LEMMA BalanceFrame ==
  ASSUME Shape, Balance, UNCHANGED <<futures, promises, futH, proH, out>>,
         \A n \in Links : Alive(life', n) <=> Alive(life, n),
         \A s \in States : /\ Count(work', FutureOf(s)) = Count(work, FutureOf(s))
                           /\ Count(work', {Do("decPromise", s)}) = Count(work, {Do("decPromise", s)})
  PROVE  Balance'
<1> SUFFICES ASSUME NEW i \in States
             PROVE  /\ IsFiniteSet(Live(life', i))
                    /\ futures'[i] = futH'[i] + Count(work', FutureOf(i)) + Cardinality(Live(life', i))
                    /\ promises'[i] = proH'[i] + Count(work', {Do("decPromise", i)}) + Cardinality(Ends(out', i))
  BY DEF Balance
<1>1. Live(life', i) = Live(life, i) BY LiveSame
<1>2. /\ IsFiniteSet(Live(life, i))
      /\ futures[i] = futH[i] + Count(work, FutureOf(i)) + Cardinality(Live(life, i))
      /\ promises[i] = proH[i] + Count(work, {Do("decPromise", i)}) + Cardinality(Ends(out, i))
  BY DEF Balance
<1> QED BY <1>1, <1>2

(* A step that resolves, or nothing, and leaves what is attached alone.      *)
LEMMA TurnCounts ==
  ASSUME Shape, Counts,
         UNCHANGED <<futures, promises, box, cancelBox, out, futH, proH, asked>>,
         \A n \in Links : Alive(life', n) <=> Alive(life, n),
         \A s \in States :
           \/ mode'[s] = mode[s]
           \/ mode[s] = "unresolved" /\ mode'[s] \in Resolved /\ Do("execute", s) \in Range(work'),
         \A s \in States : /\ Count(work', FutureOf(s)) = Count(work, FutureOf(s))
                           /\ Count(work', {Do("decPromise", s)}) = Count(work, {Do("decPromise", s)}),
         \A x \in Range(work) :
           x.op \in {"execute", "activate"} \/ (x.op \in {"links", "cancels"} /\ x.todo # <<>>)
             => x \in Range(work'),
         \A x \in Range(work') : x \in Range(work) \/ Standing(x)',
         Steady'
  PROVE  Counts'
<1>1. Balance' BY BalanceFrame DEF Counts
<1>2. Kept' BY DEF Counts, Kept, Resolved
<1>3. Firm BY DEF Firm, Resolved
<1>4. \A x \in Range(work) : Standing(x)' BY <1>3, StandingFrame DEF Counts
<1>5. Delivering' BY DeliverMore DEF Counts
<1> QED BY <1>1, <1>2, <1>4, <1>5 DEF Counts

LEMMA SteadyTop ==
  ASSUME NEW x \in Items, NEW w \in Seq(Items), work' = Over(x, w), Sound(w),
         x.op \in {"execute", "activate"} \/ Guarded(x, w)
  PROVE  Steady'
<1>1. work' # <<>> /\ Head(work') = x /\ Tail(work') = w BY PushItem
<1>2. CASE x.op \in {"execute", "activate"} BY <1>1, <1>2 DEF Steady, Top
<1>3. CASE x.op \notin {"execute", "activate"}
  <2>1. Sound(work') BY <1>3, SoundOver
  <2> QED BY <2>1 DEF Steady
<1> QED BY <1>2, <1>3

LEMMA ResolveValueCounts ==
  ASSUME Shape, Counts, NEW s \in States, ResolveValue(s) PROVE Counts'
<1>0. PICK x, y : x = Do("execute", s) /\ y = Do("ofPromise", s) OBVIOUS
<1>1. /\ UserCode /\ mode[s] = "unresolved" /\ mode' = [mode EXCEPT ![s] = "value"]
      /\ work' = <<x, y>> \o work
      /\ UNCHANGED <<futures, promises, box, cancelBox, life, out, futH, proH, asked>>
  BY <1>0 DEF ResolveValue
<1>2. /\ x \in Items /\ x.op = "execute" /\ x.on = s /\ x.todo = <<>>
      /\ y \in Items /\ y.op = "ofPromise" /\ y.on = s /\ y.todo = <<>>
  BY <1>0, Made DEF Ops
<1>3. work \in Seq(Items) /\ Sound(work) BY <1>1, UserStack DEF Counts
<1>4. PICK v \in Seq(Items) : v = Over(y, work) BY <1>2, <1>3, PushItem
<1>5. work' = Over(x, v) BY <1>1, <1>2, <1>3, <1>4, PushItems
<1>6. Range(v) = {y} \union Range(work) /\ Range(work') = {x} \union Range(v)
  BY <1>2, <1>3, <1>4, <1>5, PushItem
<1>7. mode'[s] = "value" /\ \A i \in States \ {s} : mode'[i] = mode[i] BY <1>1 DEF Shape, Typed
<1>8. Plain(x) /\ Plain(y) BY <1>2 DEF Plain
<1>9. \A i \in States : /\ Count(work', FutureOf(i)) = Count(work, FutureOf(i))
                        /\ Count(work', {Do("decPromise", i)}) = Count(work, {Do("decPromise", i)})
  BY <1>2, <1>3, <1>4, <1>5, <1>8, Uncounted, SMTT(30)
<1>10. Sound(v)
  <2>1. Guarded(y, work) BY <1>2 DEF Guarded, Held
  <2> QED BY <1>2, <1>3, <1>4, <2>1, SoundOver
<1>11. Steady' BY <1>2, <1>5, <1>10, SteadyTop
<1>12. Standing(x)' /\ Standing(y)' BY <1>2, <1>7 DEF Standing, Resolved
<1>13. \A i \in States :
           \/ mode'[i] = mode[i]
           \/ mode[i] = "unresolved" /\ mode'[i] \in Resolved /\ Do("execute", i) \in Range(work')
  BY <1>0, <1>1, <1>6, <1>7 DEF Resolved
<1> QED BY <1>1, <1>6, <1>9, <1>11, <1>12, <1>13, TurnCounts

(* One more call on a stack that is in order.                                *)
LEMMA SoundMore ==
  ASSUME NEW w \in Seq(Items), Sound(w), NEW x \in Items, x.op # "execute", ~ Held(x)
  PROVE  Over(x, w) \in Seq(Items) /\ Sound(Over(x, w))
<1>1. Guarded(x, w) BY DEF Guarded
<1>2. Sound(Over(x, w)) BY <1>1, SoundOver
<1> QED BY <1>2, PushItem

LEMMA CancelledCounts ==
  ASSUME Shape, Counts, NEW s \in States, NEW w \in Seq(Items), Cancelled(s, w), Sound(w),
         UNCHANGED <<futures, promises, box, cancelBox, life, out, futH, proH, asked>>,
         \A i \in States : /\ Count(w, FutureOf(i)) = Count(work, FutureOf(i))
                           /\ Count(w, {Do("decPromise", i)}) = Count(work, {Do("decPromise", i)}),
         \A x \in Range(work) :
           x.op \in {"execute", "activate"} \/ (x.op \in {"links", "cancels"} /\ x.todo # <<>>)
             => x \in Range(w),
         \A x \in Range(w) : x \in Range(work) \/ x.op \in {"ofPromise", "ofFuture"}
  PROVE  Counts'
<1>1. \A x : x.op \in {"ofPromise", "ofFuture"} => Standing(x)' BY DEF Standing
<1>2. CASE mode[s] = "unresolved"
  <2>1. PICK x : x = Do("execute", s) OBVIOUS
  <2>2. x \in Items /\ x.op = "execute" /\ x.on = s /\ x.todo = <<>> BY <2>1, Made DEF Ops
  <2>3. mode' = [mode EXCEPT ![s] = "cancel"] /\ work' = Over(x, w)
    BY <1>2, <2>1 DEF Cancelled, Over
  <2>4. Range(work') = {x} \union Range(w) BY <2>2, <2>3, PushItem
  <2>5. mode'[s] = "cancel" /\ \A i \in States \ {s} : mode'[i] = mode[i]
    BY <2>3 DEF Shape, Typed
  <2>6. Plain(x) BY <2>2 DEF Plain
  <2>7. \A i \in States : /\ Count(work', FutureOf(i)) = Count(work, FutureOf(i))
                          /\ Count(work', {Do("decPromise", i)}) = Count(work, {Do("decPromise", i)})
    BY <2>2, <2>3, <2>6, Uncounted
  <2>8. Steady' BY <2>2, <2>3, SteadyTop
  <2>9. Standing(x)' BY <2>2, <2>5 DEF Standing, Resolved
  <2>10. \A i \in States :
           \/ mode'[i] = mode[i]
           \/ mode[i] = "unresolved" /\ mode'[i] \in Resolved /\ Do("execute", i) \in Range(work')
    BY <1>2, <2>1, <2>4, <2>5 DEF Resolved
  <2> QED BY <1>1, <2>4, <2>7, <2>8, <2>9, <2>10, TurnCounts
<1>3. CASE mode[s] # "unresolved"
  <2>1. mode' = mode /\ work' = w BY <1>3 DEF Cancelled
  <2>2. Steady' BY <2>1 DEF Steady
  <2> QED BY <1>1, <2>1, <2>2, TurnCounts
<1> QED BY <1>2, <1>3

LEMMA ResolveCancelCounts ==
  ASSUME Shape, Counts, NEW s \in States, ResolveCancel(s) PROVE Counts'
<1>1. UserCode /\ UNCHANGED <<futures, promises, box, cancelBox, life, out, futH, proH, asked>>
  BY DEF ResolveCancel
<1>2. PICK m \in {"ofPromise", "ofFuture"} : Cancelled(s, <<Do(m, s)>> \o work)
  <2>1. \/ HasPromise(s) /\ Cancelled(s, <<Do("ofPromise", s)>> \o work)
        \/ HasFuture(s) /\ Cancelled(s, <<Do("ofFuture", s)>> \o work)
    BY DEF ResolveCancel
  <2> QED BY <2>1, Zenon
<1>3. PICK x : x = Do(m, s) OBVIOUS
<1>4. x \in Items /\ x.op = m /\ x.on = s /\ x.todo = <<>>
  <2>1. m \in Ops BY DEF Ops
  <2> QED BY <1>3, <2>1, Made
<1>5. Cancelled(s, Over(x, work)) BY <1>2, <1>3 DEF Over
<1>6. work \in Seq(Items) /\ Sound(work) BY <1>1, UserStack DEF Counts
<1>7. PICK w \in Seq(Items) : w = Over(x, work) /\ Range(w) = {x} \union Range(work)
  BY <1>4, <1>6, PushItem
<1>8. ~ Held(x) /\ Plain(x) BY <1>4 DEF Held, Plain
<1>9. Sound(w) BY <1>4, <1>6, <1>7, <1>8, SoundMore
<1>10. \A i \in States : /\ Count(w, FutureOf(i)) = Count(work, FutureOf(i))
                         /\ Count(w, {Do("decPromise", i)}) = Count(work, {Do("decPromise", i)})
  BY <1>4, <1>6, <1>7, <1>8, Uncounted
<1> QED BY <1>1, <1>4, <1>5, <1>7, <1>9, <1>10, CancelledCounts

LEMMA CancelSourceCounts ==
  ASSUME Shape, Counts, CancelSource PROVE Counts'
<1>1. /\ work # <<>> /\ Top.op = "cancel" /\ Cancelled(Top.on, Tail(work))
      /\ UNCHANGED <<futures, promises, box, cancelBox, life, out, futH, proH, asked>>
  BY DEF CancelSource, Is
<1>2. PICK t \in Items, w \in Seq(Items) :
           /\ t = Top /\ w = Tail(work) /\ Real(t)
           /\ work = Over(t, w) /\ Range(work) = {t} \union Range(w)
  BY <1>1, TopFacts
<1>3. t.on \in States /\ Cancelled(t.on, w) BY <1>1, <1>2 DEF Real
<1>4. Sound(w) BY <1>1, <1>2, StackFacts DEF Counts
<1>5. Plain(t) BY <1>1, <1>2 DEF Plain
<1>6. \A i \in States : /\ Count(w, FutureOf(i)) = Count(work, FutureOf(i))
                        /\ Count(w, {Do("decPromise", i)}) = Count(work, {Do("decPromise", i)})
  <2>1. t \in Items /\ w \in Seq(Items) /\ work = Over(t, w) BY <1>2
  <2>2. \A i : /\ Count(Over(t, w), FutureOf(i)) = Count(w, FutureOf(i))
               /\ Count(Over(t, w), {Do("decPromise", i)}) = Count(w, {Do("decPromise", i)})
    BY <2>1, <1>5, Uncounted
  <2> QED BY <2>1, <2>2
<1> QED BY <1>1, <1>2, <1>3, <1>4, <1>6, CancelledCounts

LEMMA MethodEndsCounts ==
  ASSUME Shape, Counts, MethodEnds \/ WalkEnds PROVE Counts'
<1>1. /\ work # <<>> /\ work' = Tail(work)
      /\ Top.op \in {"ofPromise", "ofFuture"} \/ (Top.op \in {"links", "cancels"} /\ Top.todo = <<>>)
      /\ UNCHANGED <<mode, futures, promises, box, cancelBox, life, out, futH, proH, asked>>
  BY DEF MethodEnds, WalkEnds, Is
<1>2. PICK t \in Items, w \in Seq(Items) :
           /\ t = Top /\ w = Tail(work) /\ Real(t)
           /\ work = Over(t, w) /\ Range(work) = {t} \union Range(w)
  BY <1>1, TopFacts
<1>3. Sound(w) BY <1>1, <1>2, StackFacts DEF Counts
<1>4. Plain(t) BY <1>1, <1>2 DEF Plain
<1>5. \A i \in States : /\ Count(w, FutureOf(i)) = Count(work, FutureOf(i))
                        /\ Count(w, {Do("decPromise", i)}) = Count(work, {Do("decPromise", i)})
  <2>1. t \in Items /\ w \in Seq(Items) /\ work = Over(t, w) BY <1>2
  <2>2. \A i : /\ Count(Over(t, w), FutureOf(i)) = Count(w, FutureOf(i))
               /\ Count(Over(t, w), {Do("decPromise", i)}) = Count(w, {Do("decPromise", i)})
    BY <2>1, <1>4, Uncounted
  <2> QED BY <2>1, <2>2
<1>6. Steady' BY <1>1, <1>2, <1>3 DEF Steady
<1> QED BY <1>1, <1>2, <1>5, <1>6, TurnCounts

LEMMA FlushOwnerCounts ==
  ASSUME Shape, Counts, NEW l \in Links, FlushOwner(l) PROVE Counts'
<1>0. PICK x : x = Do("delete", l) OBVIOUS
<1>1. /\ UserCode /\ work' = Over(x, work)
      /\ UNCHANGED <<mode, futures, promises, box, cancelBox, life, out, futH, proH, asked>>
  BY <1>0 DEF FlushOwner, Over
<1>2. x \in Items /\ x.op = "delete" /\ x.on = l /\ x.todo = <<>> BY <1>0, Made DEF Ops
<1>3. work \in Seq(Items) /\ Sound(work) BY <1>1, UserStack DEF Counts
<1>4. Range(work') = {x} \union Range(work) BY <1>1, <1>2, <1>3, PushItem
<1>5. ~ Held(x) /\ Plain(x) BY <1>2 DEF Held, Plain
<1>6. Steady' BY <1>1, <1>2, <1>3, <1>5, SoundMore DEF Steady
<1>7. \A i \in States : /\ Count(work', FutureOf(i)) = Count(work, FutureOf(i))
                        /\ Count(work', {Do("decPromise", i)}) = Count(work, {Do("decPromise", i)})
  BY <1>1, <1>2, <1>3, <1>5, Uncounted
<1>8. Standing(x)' BY <1>2 DEF Standing
<1> QED BY <1>1, <1>4, <1>6, <1>7, <1>8, TurnCounts

LEMMA ActivateCounts ==
  ASSUME Shape, Counts, Activate PROVE Counts'
<1>0. PICK s, x : s = Top.on /\ x = Walk("links", s, box[s]) OBVIOUS
<1>1. /\ work # <<>> /\ Top.op = "activate" /\ work' = Over(x, Tail(work))
      /\ UNCHANGED <<mode, futures, promises, box, cancelBox, life, out, futH, proH, asked>>
  BY <1>0 DEF Activate, Is, Over
<1>2. PICK t \in Items, w \in Seq(Items) :
           /\ t = Top /\ w = Tail(work) /\ Real(t)
           /\ work = Over(t, w) /\ Range(work) = {t} \union Range(w)
  BY <1>1, TopFacts
<1>3. s \in States /\ mode[s] \in Resolved
  <2>1. Standing(t) BY <1>2 DEF Counts
  <2> QED BY <1>0, <1>1, <1>2, <2>1 DEF Real, Standing
<1>4. x \in Items /\ x.op = "links" /\ x.on = s /\ x.todo = box[s]
  <2>1. box[s] \in Seq(Links \union Cancels) BY <1>3, SeqMonotonic DEF Shape, Typed
  <2> QED BY <1>0, <1>3, <2>1, MadeWalk DEF Ops
<1>5. work' = Over(x, w) /\ Range(work') = {x} \union Range(w)
  <2>1. w \in Seq(Items) /\ work' = Over(x, w) BY <1>1, <1>2
  <2> QED BY <1>4, <2>1, PushItem
<1>6. Sound(w) BY <1>1, <1>2, StackFacts DEF Counts
<1>7. Steady'
  <2>1. ~ Held(x) BY <1>4 DEF Held
  <2> QED BY <1>4, <1>5, <1>6, <2>1, SoundMore DEF Steady
<1>8. Balance'
  <2>1. Plain(t) /\ Plain(x) BY <1>1, <1>2, <1>4 DEF Plain
  <2>2. t \in Items /\ w \in Seq(Items) /\ work = Over(t, w) BY <1>2
  <2>3. \A i : /\ Count(Over(t, w), FutureOf(i)) = Count(w, FutureOf(i))
               /\ Count(Over(t, w), {Do("decPromise", i)}) = Count(w, {Do("decPromise", i)})
    BY <2>1, <2>2, Uncounted
  <2>4. \A i : /\ Count(Over(x, w), FutureOf(i)) = Count(w, FutureOf(i))
               /\ Count(Over(x, w), {Do("decPromise", i)}) = Count(w, {Do("decPromise", i)})
    BY <1>4, <2>1, <2>2, Uncounted
  <2>5. \A i \in States : /\ Count(work', FutureOf(i)) = Count(work, FutureOf(i))
                          /\ Count(work', {Do("decPromise", i)}) = Count(work, {Do("decPromise", i)})
    BY <1>5, <2>2, <2>3, <2>4
  <2> QED BY <1>1, <2>5, BalanceFrame DEF Counts
<1>9. Kept' BY <1>1 DEF Counts, Kept
<1>10. \A y \in Range(work') : Standing(y)'
  <2>1. Standing(x)' BY <1>1, <1>3, <1>4 DEF Standing
  <2>2. Firm BY <1>1 DEF Firm
  <2> QED BY <1>1, <1>2, <1>5, <2>1, <2>2, StandingFrame DEF Counts
<1>11. Delivering'
  <2> SUFFICES ASSUME NEW i \in States, mode[i] \in Resolved
               PROVE  /\ \A l \in Range(box[i]) : \E y \in Range(work') : Delivers(y, i, l)
                      /\ \A n \in Range(cancelBox[i]) : \E y \in Range(work') : DeliversCancel(y, i, n)
    BY <1>1 DEF Delivering, Delivers, DeliversCancel
  <2>1. \A o, n : Do(o, n).op = o /\ Do(o, n).on = n BY DEF Do
  <2>2. ASSUME NEW l \in Range(box[i]) PROVE \E y \in Range(work') : Delivers(y, i, l)
    <3>1. PICK y \in Range(work) : Delivers(y, i, l) BY <2>2 DEF Counts, Delivering
    <3>2. CASE y = t
      <4>1. s = i BY <1>0, <1>1, <1>2, <2>1, <3>1, <3>2 DEF Delivers
      <4> QED BY <1>4, <1>5, <2>2, <4>1 DEF Delivers
    <3>3. CASE y # t BY <1>2, <1>5, <3>1, <3>3
    <3> QED BY <3>2, <3>3
  <2>3. ASSUME NEW n \in Range(cancelBox[i]) PROVE \E y \in Range(work') : DeliversCancel(y, i, n)
    <3>1. PICK y \in Range(work) : DeliversCancel(y, i, n) BY <2>3 DEF Counts, Delivering
    <3>2. y # t BY <1>1, <1>2, <2>1, <3>1 DEF DeliversCancel
    <3> QED BY <1>2, <1>5, <3>1, <3>2
  <2> QED BY <2>2, <2>3
<1> QED BY <1>7, <1>8, <1>9, <1>10, <1>11 DEF Counts

(* How the objects that a call on the stack holds are counted.               *)
LEMMA CountFuture ==
  ASSUME NEW w \in Seq(Items), NEW s \in States
  PROVE  \A i :
           /\ Count(Over(Do("decFuture", s), w), FutureOf(i)) = Count(w, FutureOf(i)) + (IF i = s THEN 1 ELSE 0)
           /\ Count(Over(Do("decFuture", s), w), {Do("decPromise", i)}) = Count(w, {Do("decPromise", i)})
<1> SUFFICES ASSUME NEW i
             PROVE  /\ Count(Over(Do("decFuture", s), w), FutureOf(i)) = Count(w, FutureOf(i)) + (IF i = s THEN 1 ELSE 0)
                    /\ Count(Over(Do("decFuture", s), w), {Do("decPromise", i)}) = Count(w, {Do("decPromise", i)})
  OBVIOUS
<1>1. "decFuture" \in Ops BY DEF Ops
<1>2. Do("decFuture", s) \in Items BY <1>1, Made
<1>3. Count(w, FutureOf(i)) \in Nat /\ Count(w, {Do("decPromise", i)}) \in Nat BY CountType
<1>4. \A x \in Items :
         /\ Count(Over(x, w), FutureOf(i)) = Count(w, FutureOf(i)) + (IF x \in FutureOf(i) THEN 1 ELSE 0)
         /\ Count(Over(x, w), {Do("decPromise", i)})
              = Count(w, {Do("decPromise", i)}) + (IF x \in {Do("decPromise", i)} THEN 1 ELSE 0)
  BY CountOver
<1>5. (Do("decFuture", s) \in FutureOf(i) <=> i = s) /\ Do("decFuture", s) \notin {Do("decPromise", i)}
  <2>1. \A p, q, n, k : Do(p, n) = Do(q, k) <=> p = q /\ n = k BY DEF Do
  <2>2. Do("decFuture", s) \in FutureOf(i) <=> i = s BY <2>1, CountedItems
  <2>3. Do("decFuture", s) \notin {Do("decPromise", i)} BY <2>1
  <2> QED BY <2>2, <2>3
<1>6. Count(Over(Do("decFuture", s), w), FutureOf(i)) = Count(w, FutureOf(i)) + (IF i = s THEN 1 ELSE 0)
  BY <1>2, <1>4, <1>5
<1>7. Count(Over(Do("decFuture", s), w), {Do("decPromise", i)}) = Count(w, {Do("decPromise", i)}) + 0
  BY <1>2, <1>4, <1>5
<1> QED BY <1>3, <1>6, <1>7

LEMMA CountPromise ==
  ASSUME NEW w \in Seq(Items), NEW s \in States
  PROVE  \A i :
           /\ Count(Over(Do("decPromise", s), w), {Do("decPromise", i)})
                = Count(w, {Do("decPromise", i)}) + (IF i = s THEN 1 ELSE 0)
           /\ Count(Over(Do("decPromise", s), w), FutureOf(i)) = Count(w, FutureOf(i))
<1>1. "decPromise" \in Ops BY DEF Ops
<1>2. PICK x \in Items : x = Do("decPromise", s) BY <1>1, Made
<1>3. \A i : Count(w, FutureOf(i)) \in Nat BY CountType
<1>4. \A p, q, n, k : Do(p, n) = Do(q, k) <=> p = q /\ n = k BY DEF Do
<1>5. \A i : x \notin FutureOf(i) BY <1>2, <1>4, CountedItems
<1>6. \A i : Count(Over(x, w), FutureOf(i)) = Count(w, FutureOf(i)) + (IF x \in FutureOf(i) THEN 1 ELSE 0)
  BY CountOver
<1>7. \A i : Count(Over(x, w), FutureOf(i)) = Count(w, FutureOf(i)) BY <1>3, <1>5, <1>6
<1>8. \A i : x \in {Do("decPromise", i)} <=> i = s BY <1>2, <1>4
<1>9. \A i : Count(Over(x, w), {Do("decPromise", i)})
               = Count(w, {Do("decPromise", i)}) + (IF x \in {Do("decPromise", i)} THEN 1 ELSE 0)
  BY CountOver
<1>10. \A i : Count(Over(x, w), {Do("decPromise", i)})
                = Count(w, {Do("decPromise", i)}) + (IF i = s THEN 1 ELSE 0)
  BY <1>8, <1>9
<1> QED BY <1>2, <1>7, <1>10

LEMMA CountCall ==
  ASSUME NEW w \in Seq(Items), NEW l \in Links
  PROVE  \A i :
           /\ Count(Over(Do("call", l), w), FutureOf(i)) = Count(w, FutureOf(i)) + (IF i = Src[l] THEN 1 ELSE 0)
           /\ Count(Over(Do("call", l), w), {Do("decPromise", i)}) = Count(w, {Do("decPromise", i)})
<1> SUFFICES ASSUME NEW i
             PROVE  /\ Count(Over(Do("call", l), w), FutureOf(i)) = Count(w, FutureOf(i)) + (IF i = Src[l] THEN 1 ELSE 0)
                    /\ Count(Over(Do("call", l), w), {Do("decPromise", i)}) = Count(w, {Do("decPromise", i)})
  OBVIOUS
<1>1. "call" \in Ops BY DEF Ops
<1>2. Do("call", l) \in Items BY <1>1, Made
<1>3. Count(w, FutureOf(i)) \in Nat /\ Count(w, {Do("decPromise", i)}) \in Nat BY CountType
<1>4. \A x \in Items :
         /\ Count(Over(x, w), FutureOf(i)) = Count(w, FutureOf(i)) + (IF x \in FutureOf(i) THEN 1 ELSE 0)
         /\ Count(Over(x, w), {Do("decPromise", i)})
              = Count(w, {Do("decPromise", i)}) + (IF x \in {Do("decPromise", i)} THEN 1 ELSE 0)
  BY CountOver
<1>5. (Do("call", l) \in FutureOf(i) <=> i = Src[l]) /\ Do("call", l) \notin {Do("decPromise", i)}
  <2>1. \A p, q, n, k : Do(p, n) = Do(q, k) <=> p = q /\ n = k BY DEF Do
  <2>2. Do("call", l) \in FutureOf(i) <=> i = Src[l] BY <2>1, CountedItems
  <2>3. Do("call", l) \notin {Do("decPromise", i)} BY <2>1
  <2> QED BY <2>2, <2>3
<1>6. Count(Over(Do("call", l), w), FutureOf(i)) = Count(w, FutureOf(i)) + (IF i = Src[l] THEN 1 ELSE 0)
  BY <1>2, <1>4, <1>5
<1>7. Count(Over(Do("call", l), w), {Do("decPromise", i)}) = Count(w, {Do("decPromise", i)}) + 0
  BY <1>2, <1>4, <1>5
<1> QED BY <1>3, <1>6, <1>7

(* A step that changes counters, and objects of the program, and nothing of  *)
(* what the counters keep.                                                   *)
LEMMA HandleCounts ==
  ASSUME Shape, Counts, Balance',
         UNCHANGED <<mode, box, cancelBox, life>>,
         \A s \in States : /\ futures'[s] = futures[s] \/ futures'[s] > 0
                           /\ promises'[s] = promises[s] \/ promises'[s] > 0
                           /\ mode[s] \in {"unborn", "deleted"} =>
                                futures'[s] = futures[s] /\ promises'[s] = promises[s]
                           /\ s \in asked' /\ s \notin asked => futures'[s] > 0,
         \A x \in Range(work) : x \in Range(work'),
         \A x \in Range(work') : x \in Range(work) \/ Standing(x)',
         Steady'
  PROVE  Counts'
<1>1. Kept' BY DEF Counts, Kept, Resolved
<1>2. Firm BY DEF Firm
<1>3. \A x \in Range(work) : Standing(x)' BY <1>2, StandingFrame DEF Counts
<1>4. Delivering' BY DeliverMore DEF Counts
<1> QED BY <1>1, <1>3, <1>4 DEF Counts

LEMMA CopyPromiseCounts ==
  ASSUME Shape, Counts, NEW s \in States, CopyPromise(s) PROVE Counts'
<1>1. /\ HasPromise(s)
      /\ promises' = [promises EXCEPT ![s] = @ + 1] /\ proH' = [proH EXCEPT ![s] = @ + 1]
      /\ UNCHANGED <<mode, futures, box, cancelBox, life, out, futH, asked, work>>
  BY DEF CopyPromise
<1>2. promises[s] \in Nat /\ promises[s] > 0
  BY <1>1, BalanceGives DEF Counts
<1>3. mode[s] \notin {"unborn", "deleted"} BY <1>2, InPlace DEF Counts
<1>4. \A i \in States : /\ promises'[i] = IF i = s THEN promises[i] + 1 ELSE promises[i]
                        /\ proH'[i] = IF i = s THEN proH[i] + 1 ELSE proH[i]
  BY <1>1 DEF Shape, Typed
<1>5. Balance'
  <2> SUFFICES ASSUME NEW i \in States
               PROVE  /\ IsFiniteSet(Live(life', i))
                      /\ futures'[i] = futH'[i] + Count(work', FutureOf(i)) + Cardinality(Live(life', i))
                      /\ promises'[i] = proH'[i] + Count(work', {Do("decPromise", i)}) + Cardinality(Ends(out', i))
    BY DEF Balance
  <2>1. PICK f, p, a, b \in Nat :
           /\ f = Count(work, FutureOf(i)) /\ p = Count(work, {Do("decPromise", i)})
           /\ IsFiniteSet(Live(life, i)) /\ a = Cardinality(Live(life, i))
           /\ b = Cardinality(Ends(out, i))
           /\ futH[i] \in Nat /\ proH[i] \in Nat
           /\ futures[i] = futH[i] + f + a /\ promises[i] = proH[i] + p + b
    BY BalanceAt DEF Counts
  <2>2. promises'[i] = proH'[i] + p + b
    <3>1. proH[i] \in Nat /\ promises[i] = proH[i] + p + b BY <2>1
    <3>2. CASE i = s BY <1>4, <3>1, <3>2
    <3>3. CASE i # s BY <1>4, <3>1, <3>3
    <3> QED BY <3>2, <3>3
  <2> QED BY <1>1, <2>1, <2>2
<1>6. Steady' BY <1>1 DEF Counts, Steady, Top
<1>7. \A i \in States : /\ promises'[i] = promises[i] \/ promises'[i] > 0
                        /\ mode[i] \in {"unborn", "deleted"} => promises'[i] = promises[i]
  BY <1>2, <1>3, <1>4
<1> QED BY <1>1, <1>5, <1>6, <1>7, HandleCounts

(* A handle of the program becomes a call that gives it back.                *)
LEMMA DropCounts ==
  ASSUME Shape, Counts, NEW s \in States, NEW m \in {"decFuture", "decPromise"},
         UserCode, work' = Over(Do(m, s), work),
         \A i \in States :
           /\ futH'[i] = futH[i] - (IF m = "decFuture" /\ i = s THEN 1 ELSE 0)
           /\ proH'[i] = proH[i] - (IF m = "decPromise" /\ i = s THEN 1 ELSE 0),
         UNCHANGED <<mode, futures, promises, box, cancelBox, life, out, asked>>
  PROVE  Counts'
<1>1. work \in Seq(Items) /\ Sound(work) BY UserStack DEF Counts
<1>2. PICK x : x = Do(m, s) OBVIOUS
<1>3. m \in Ops BY DEF Ops
<1>4. x \in Items /\ x.op = m /\ x.on = s /\ x.todo = <<>> BY <1>2, <1>3, Made
<1>5. Range(work') = {x} \union Range(work) BY <1>1, <1>2, <1>4, PushItem
<1>6. Balance'
  <2> SUFFICES ASSUME NEW i \in States
               PROVE  /\ IsFiniteSet(Live(life', i))
                      /\ futures'[i] = futH'[i] + Count(work', FutureOf(i)) + Cardinality(Live(life', i))
                      /\ promises'[i] = proH'[i] + Count(work', {Do("decPromise", i)}) + Cardinality(Ends(out', i))
    BY DEF Balance
  <2>1. PICK f, p, a, b \in Nat :
           /\ f = Count(work, FutureOf(i)) /\ p = Count(work, {Do("decPromise", i)})
           /\ IsFiniteSet(Live(life, i)) /\ a = Cardinality(Live(life, i))
           /\ b = Cardinality(Ends(out, i))
           /\ futH[i] \in Nat /\ proH[i] \in Nat
           /\ futures[i] = futH[i] + f + a /\ promises[i] = proH[i] + p + b
    BY BalanceAt DEF Counts
  <2>2. /\ Count(work', FutureOf(i)) = Count(work, FutureOf(i)) + (IF m = "decFuture" /\ i = s THEN 1 ELSE 0)
        /\ Count(work', {Do("decPromise", i)})
             = Count(work, {Do("decPromise", i)}) + (IF m = "decPromise" /\ i = s THEN 1 ELSE 0)
    <3>1. CASE m = "decFuture" BY <1>1, <2>1, <3>1, CountFuture
    <3>2. CASE m = "decPromise" BY <1>1, <2>1, <3>2, CountPromise
    <3> QED BY <3>1, <3>2
  <2> QED BY <2>1, <2>2
<1>7. ~ Held(x) BY <1>4 DEF Held
<1>8. Steady' BY <1>1, <1>2, <1>4, <1>7, SoundMore DEF Steady
<1>9. Standing(x)' BY <1>4 DEF Standing
<1> QED BY <1>5, <1>6, <1>8, <1>9, HandleCounts

LEMMA DropFutureCounts ==
  ASSUME Shape, Counts, NEW s \in States, DropFuture(s) PROVE Counts'
<1>1. /\ UserCode /\ futH' = [futH EXCEPT ![s] = @ - 1] /\ work' = Over(Do("decFuture", s), work)
      /\ UNCHANGED <<mode, futures, promises, box, cancelBox, life, out, proH, asked>>
  BY DEF DropFuture, Over
<1>2. \A i \in States : /\ futH'[i] = futH[i] - (IF i = s THEN 1 ELSE 0)
                        /\ proH'[i] = proH[i] - 0
  BY <1>1, Consts DEF Shape, Typed
<1> QED BY <1>1, <1>2, DropCounts

LEMMA DropPromiseCounts ==
  ASSUME Shape, Counts, NEW s \in States, DropPromise(s) PROVE Counts'
<1>1. /\ UserCode /\ proH' = [proH EXCEPT ![s] = @ - 1] /\ work' = Over(Do("decPromise", s), work)
      /\ UNCHANGED <<mode, futures, promises, box, cancelBox, life, out, futH, asked>>
  BY DEF DropPromise, Over
<1>2. \A i \in States : /\ proH'[i] = proH[i] - (IF i = s THEN 1 ELSE 0)
                        /\ futH'[i] = futH[i] - 0
  BY <1>1, Consts DEF Shape, Typed
<1> QED BY <1>1, <1>2, DropCounts

LEMMA NewPromiseCounts ==
  ASSUME Shape, Counts, NEW s \in States, NewPromise(s) PROVE Counts'
<1>1. /\ mode[s] = "unborn"
      /\ mode' = [mode EXCEPT ![s] = "unresolved"]
      /\ promises' = [promises EXCEPT ![s] = 1] /\ proH' = [proH EXCEPT ![s] = 1]
      /\ UNCHANGED <<futures, box, cancelBox, life, out, futH, asked, work>>
  BY DEF NewPromise
<1>2. promises[s] = 0 /\ proH[s] = 0 /\ s \notin asked BY <1>1 DEF Shape, Born
<1>3. \A i \in States : /\ promises'[i] = IF i = s THEN 1 ELSE promises[i]
                        /\ proH'[i] = IF i = s THEN 1 ELSE proH[i]
                        /\ mode'[i] = IF i = s THEN "unresolved" ELSE mode[i]
  BY <1>1 DEF Shape, Typed
<1>4. Balance'
  <2> SUFFICES ASSUME NEW i \in States
               PROVE  /\ IsFiniteSet(Live(life', i))
                      /\ futures'[i] = futH'[i] + Count(work', FutureOf(i)) + Cardinality(Live(life', i))
                      /\ promises'[i] = proH'[i] + Count(work', {Do("decPromise", i)}) + Cardinality(Ends(out', i))
    BY DEF Balance
  <2>1. PICK f, p, a, b \in Nat :
           /\ f = Count(work, FutureOf(i)) /\ p = Count(work, {Do("decPromise", i)})
           /\ IsFiniteSet(Live(life, i)) /\ a = Cardinality(Live(life, i))
           /\ b = Cardinality(Ends(out, i))
           /\ futH[i] \in Nat /\ proH[i] \in Nat
           /\ futures[i] = futH[i] + f + a /\ promises[i] = proH[i] + p + b
    BY BalanceAt DEF Counts
  <2>2. promises'[i] = proH'[i] + p + b
    <3>1. proH[i] \in Nat /\ promises[i] = proH[i] + p + b BY <2>1
    <3>2. CASE i = s BY <1>2, <1>3, <3>1, <3>2
    <3>3. CASE i # s BY <1>3, <3>1, <3>3
    <3> QED BY <3>2, <3>3
  <2> QED BY <1>1, <2>1, <2>2
<1>5. Steady' BY <1>1 DEF Counts, Steady, Top
<1>6. Kept' BY <1>1, <1>2, <1>3 DEF Counts, Kept, Resolved
<1>7. Firm BY <1>1, <1>3 DEF Firm, Resolved
<1>8. \A x \in Range(work) : Standing(x)' BY <1>1, <1>7, StandingFrame DEF Counts
<1>9. Delivering'
  <2>1. \A i \in States : mode'[i] \in Resolved => mode[i] \in Resolved BY <1>3 DEF Resolved
  <2> QED BY <1>1, <2>1, DeliverMore DEF Counts
<1> QED BY <1>1, <1>4, <1>5, <1>6, <1>8, <1>9 DEF Counts

(* What attaching a continuation of s puts on the stack w.                   *)
LEMMA AttachStack ==
  ASSUME NEW s \in States, NEW m \in {"ofPromise", "ofFuture"}, NEW w \in Seq(Items), Sound(w),
         work' = Pushed(s, m) \o w
  PROVE  /\ Steady'
         /\ \A i : /\ Count(work', FutureOf(i)) = Count(w, FutureOf(i))
                   /\ Count(work', {Do("decPromise", i)}) = Count(w, {Do("decPromise", i)})
         /\ \A x \in Range(w) : x \in Range(work')
         /\ mode[s] \in Resolved => Do("execute", s) \in Range(work')
         /\ \A x \in Range(work') : \/ x \in Range(w) \/ x.op \in {"ofPromise", "ofFuture"}
                                    \/ x = Do("execute", s) /\ mode[s] \in Resolved
<1>0. PICK x, y : x = Do("execute", s) /\ y = Do(m, s) OBVIOUS
<1>1. m \in Ops BY DEF Ops
<1>2. /\ x \in Items /\ x.op = "execute" /\ x.on = s /\ x.todo = <<>>
      /\ y \in Items /\ y.op = m /\ y.on = s /\ y.todo = <<>>
  BY <1>0, <1>1, Made DEF Ops
<1>3. ~ Held(y) /\ Plain(y) /\ Plain(x) BY <1>2 DEF Held, Plain
<1>4. PICK v \in Seq(Items) : v = Over(y, w) /\ Sound(v) /\ Range(v) = {y} \union Range(w)
  <2>1. y.op # "execute" BY <1>2
  <2>2. Over(y, w) \in Seq(Items) /\ Sound(Over(y, w)) BY <1>2, <1>3, <2>1, SoundMore
  <2>3. Range(Over(y, w)) = {y} \union Range(w) BY <1>2, PushItem
  <2> QED BY <2>2, <2>3
<1>5. \A i : /\ Count(v, FutureOf(i)) = Count(w, FutureOf(i))
             /\ Count(v, {Do("decPromise", i)}) = Count(w, {Do("decPromise", i)})
  BY <1>2, <1>3, <1>4, Uncounted
<1>6. work' = IF mode[s] \in Resolved THEN Over(x, v) ELSE v
  <2>1. Pushed(s, m) \o w = IF mode[s] \in Resolved
                             THEN Over(Do("execute", s), Over(Do(m, s), w))
                             ELSE Over(Do(m, s), w)
    BY <1>1, PushedFacts
  <2> QED BY <1>0, <1>4, <2>1
<1>7. CASE mode[s] \in Resolved
  <2>1. work' = Over(x, v) BY <1>6, <1>7
  <2>2. Range(work') = {x} \union Range(v) BY <1>2, <2>1, PushItem
  <2>3. \A i : /\ Count(work', FutureOf(i)) = Count(v, FutureOf(i))
               /\ Count(work', {Do("decPromise", i)}) = Count(v, {Do("decPromise", i)})
    BY <1>2, <1>3, <2>1, Uncounted, SMTT(30)
  <2>4. Steady' BY <1>2, <1>4, <2>1, SteadyTop
  <2> QED BY <1>0, <1>2, <1>4, <1>5, <1>7, <2>2, <2>3, <2>4
<1>8. CASE mode[s] \notin Resolved
  <2>1. work' = v BY <1>6, <1>8
  <2>2. Steady' BY <1>4, <2>1 DEF Steady
  <2> QED BY <1>2, <1>4, <1>5, <1>8, <2>1, <2>2
<1> QED BY <1>7, <1>8

LEMMA ThenCounts ==
  ASSUME Shape, Counts, NEW l \in Links, Then(l) PROVE Counts'
<1>0. PICK s : s = Src[l] OBVIOUS
<1>1. /\ UserCode /\ HasFuture(s) /\ life[l] = "unborn"
      /\ life' = [life EXCEPT ![l] = "linked"]
      /\ box' = [box EXCEPT ![s] = Append(@, l)]
      /\ futures' = [futures EXCEPT ![s] = @ + 1]
      /\ work' = Pushed(s, "ofFuture") \o work
      /\ UNCHANGED <<mode, promises, cancelBox, out, futH, proH, asked>>
  BY <1>0 DEF Then
<1>2. s \in States BY <1>0, Consts
<1>3. futures[s] \in Nat /\ futures[s] > 0 BY <1>1, <1>2, BalanceGives DEF Counts
<1>4. mode[s] \notin {"unborn", "deleted"} BY <1>2, <1>3, InPlace DEF Counts
<1>5. work \in Seq(Items) /\ Sound(work) BY <1>1, UserStack DEF Counts
<1>6. /\ Steady'
      /\ \A i : /\ Count(work', FutureOf(i)) = Count(work, FutureOf(i))
                /\ Count(work', {Do("decPromise", i)}) = Count(work, {Do("decPromise", i)})
      /\ \A x \in Range(work) : x \in Range(work')
      /\ mode[s] \in Resolved => Do("execute", s) \in Range(work')
      /\ \A x \in Range(work') : \/ x \in Range(work) \/ x.op \in {"ofPromise", "ofFuture"}
                                 \/ x = Do("execute", s) /\ mode[s] \in Resolved
  BY <1>1, <1>2, <1>5, AttachStack
<1>7. /\ \A i \in States : futures'[i] = IF i = s THEN futures[i] + 1 ELSE futures[i]
      /\ \A i \in States \ {s} : box'[i] = box[i]
      /\ \A n \in Links : life'[n] = IF n = l THEN "linked" ELSE life[n]
  BY <1>1, <1>2 DEF Shape, Typed
<1>8. Balance'
  <2> SUFFICES ASSUME NEW i \in States
               PROVE  /\ IsFiniteSet(Live(life', i))
                      /\ futures'[i] = futH'[i] + Count(work', FutureOf(i)) + Cardinality(Live(life', i))
                      /\ promises'[i] = proH'[i] + Count(work', {Do("decPromise", i)}) + Cardinality(Ends(out', i))
    BY DEF Balance
  <2>1. PICK f, p, a, b \in Nat :
           /\ f = Count(work, FutureOf(i)) /\ p = Count(work, {Do("decPromise", i)})
           /\ IsFiniteSet(Live(life, i)) /\ a = Cardinality(Live(life, i))
           /\ b = Cardinality(Ends(out, i))
           /\ futH[i] \in Nat /\ proH[i] \in Nat
           /\ futures[i] = futH[i] + f + a /\ promises[i] = proH[i] + p + b
    BY BalanceAt DEF Counts
  <2>2. /\ ~ Alive(life, l) /\ Alive(life', l)
        /\ \A n \in Links : n # l => (Alive(life', n) <=> Alive(life, n))
    BY <1>1, <1>7 DEF Alive
  <2>3. /\ IsFiniteSet(Live(life', i))
        /\ Cardinality(Live(life', i)) = Cardinality(Live(life, i)) + (IF i = s THEN 1 ELSE 0)
    BY <1>0, <2>1, <2>2, LiveStep
  <2>4. futures'[i] = futH[i] + f + (a + (IF i = s THEN 1 ELSE 0)) BY <1>7, <2>1
  <2> QED BY <1>1, <1>6, <2>1, <2>3, <2>4
<1>9. Kept'
  <2>1. ASSUME NEW i \in States, i # s
        PROVE  /\ mode'[i] = mode[i] /\ futures'[i] = futures[i] /\ promises'[i] = promises[i]
               /\ box'[i] = box[i] /\ cancelBox'[i] = cancelBox[i] /\ (i \in asked' => i \in asked)
    BY <1>1, <1>7, <2>1
  <2>2. mode'[s] = mode[s] /\ futures'[s] > 0 /\ promises'[s] = promises[s] BY <1>1, <1>2, <1>3, <1>7
  <2>3. mode[s] = "unresolved" => promises'[s] > 0 BY <1>2, <2>2 DEF Counts, Kept
  <2> QED BY <1>4, <2>1, <2>2, <2>3 DEF Counts, Kept
<1>10. \A x \in Range(work') : Standing(x)'
  <2>1. Firm BY <1>1 DEF Firm
  <2>2. \A x \in Range(work) : Standing(x)' BY <1>1, <2>1, StandingFrame DEF Counts
  <2>3. \A x : x.op \in {"ofPromise", "ofFuture"} => Standing(x)' BY DEF Standing
  <2>4. mode[s] \in Resolved => Standing(Do("execute", s))' BY <1>1 DEF Standing, Do
  <2> QED BY <1>6, <2>2, <2>3, <2>4
<1>11. Delivering'
  <2>1. \A i \in States : mode'[i] \in Resolved =>
           \/ Do("execute", i) \in Range(work')
           \/ /\ mode[i] \in Resolved
              /\ Range(box'[i]) \subseteq Range(box[i])
              /\ Range(cancelBox'[i]) \subseteq Range(cancelBox[i])
    BY <1>1, <1>6, <1>7
  <2> QED BY <1>6, <2>1, DeliverMore DEF Counts
<1> QED BY <1>6, <1>8, <1>9, <1>10, <1>11 DEF Counts

LEMMA OnCancelCounts ==
  ASSUME Shape, Counts, NEW k \in Cancels, OnCancel(k) PROVE Counts'
<1>0. PICK s : s = Src[k] OBVIOUS
<1>1. /\ UserCode /\ HasPromise(s)
      /\ life' = [life EXCEPT ![k] = "linked"]
      /\ cancelBox' = [cancelBox EXCEPT ![s] = Append(@, k)]
      /\ work' = Pushed(s, "ofPromise") \o work
      /\ UNCHANGED <<mode, futures, promises, box, out, futH, proH, asked>>
  BY <1>0 DEF OnCancel
<1>2. s \in States /\ k \notin Links BY <1>0, Consts
<1>3. promises[s] \in Nat /\ promises[s] > 0 BY <1>1, <1>2, BalanceGives DEF Counts
<1>4. mode[s] \notin {"unborn", "deleted"} BY <1>2, <1>3, InPlace DEF Counts
<1>5. work \in Seq(Items) /\ Sound(work) BY <1>1, UserStack DEF Counts
<1>6. /\ Steady'
      /\ \A i : /\ Count(work', FutureOf(i)) = Count(work, FutureOf(i))
                /\ Count(work', {Do("decPromise", i)}) = Count(work, {Do("decPromise", i)})
      /\ \A x \in Range(work) : x \in Range(work')
      /\ mode[s] \in Resolved => Do("execute", s) \in Range(work')
      /\ \A x \in Range(work') : \/ x \in Range(work) \/ x.op \in {"ofPromise", "ofFuture"}
                                 \/ x = Do("execute", s) /\ mode[s] \in Resolved
  BY <1>1, <1>2, <1>5, AttachStack
<1>7. /\ \A i \in States \ {s} : cancelBox'[i] = cancelBox[i]
      /\ cancelBox[s] \in Seq(Chains \union Cancels) /\ cancelBox'[s] = Append(cancelBox[s], k)
      /\ \A n \in Links : life'[n] = life[n]
  BY <1>1, <1>2 DEF Shape, Typed
<1>8. Balance'
  <2>1. \A n \in Links : Alive(life', n) <=> Alive(life, n) BY <1>7 DEF Alive
  <2> QED BY <1>1, <1>6, <2>1, BalanceFrame DEF Counts
<1>9. Kept' BY <1>1, <1>4, <1>7 DEF Counts, Kept
<1>10. \A x \in Range(work') : Standing(x)'
  <2>1. Firm BY <1>1 DEF Firm
  <2>2. Range(cancelBox[s]) \subseteq Range(cancelBox'[s]) BY <1>7 DEF Range
  <2>3. \A x \in Range(work) : Standing(x)' BY <1>1, <1>7, <2>1, <2>2, StandingFrame DEF Counts
  <2>4. \A x : x.op \in {"ofPromise", "ofFuture"} => Standing(x)' BY DEF Standing
  <2>5. mode[s] \in Resolved => Standing(Do("execute", s))' BY <1>1 DEF Standing, Do
  <2> QED BY <1>6, <2>3, <2>4, <2>5
<1>11. Delivering'
  <2>1. \A i \in States : mode'[i] \in Resolved =>
           \/ Do("execute", i) \in Range(work')
           \/ /\ mode[i] \in Resolved
              /\ Range(box'[i]) \subseteq Range(box[i])
              /\ Range(cancelBox'[i]) \subseteq Range(cancelBox[i])
    BY <1>1, <1>6, <1>7
  <2> QED BY <1>6, <2>1, DeliverMore DEF Counts
<1> QED BY <1>6, <1>8, <1>9, <1>10, <1>11 DEF Counts

LEMMA ChainCounts ==
  ASSUME Shape, Counts, NEW l \in Links, Chain(l) PROVE Counts'
<1>1. PICK s \in States, d \in States, u \in Seq(Items) :
           /\ s = Src[l] /\ d = Dst[l] /\ s # d /\ l \in Chains
           /\ UserCode /\ HasFuture(s) /\ life[l] = "unborn"
           /\ mode[s] # "unborn" /\ mode[d] = "unborn"
           /\ life' = [life EXCEPT ![l] = "linked"]
           /\ mode' = [mode EXCEPT ![d] = "unresolved"]
           /\ promises' = [promises EXCEPT ![d] = 1]
           /\ cancelBox' = [cancelBox EXCEPT ![d] = <<l>>]
           /\ out' = out \union {l}
           /\ futH' = [futH EXCEPT ![d] = 1]
           /\ asked' = asked \union {d}
           /\ box' = [box EXCEPT ![s] = Append(@, l)]
           /\ futures' \in [States -> Int]
           /\ \A i \in States : futures'[i] = IF i = d THEN 1
                                             ELSE IF i = s THEN futures[i] + 1 ELSE futures[i]
           /\ proH' = proH
           /\ u = Over(Do("ofFuture", s), Over(Do("ofFuture", d), work))
           /\ work' = IF mode[s] \in Resolved THEN Over(Do("execute", s), u) ELSE u
  BY ChainStep
<1>2. futures[s] \in Nat /\ futures[s] > 0 BY <1>1, BalanceGives DEF Counts
<1>3. mode[s] \notin {"unborn", "deleted"} BY <1>2, InPlace DEF Counts
<1>4. work \in Seq(Items) /\ Sound(work) BY <1>1, UserStack DEF Counts
<1>5. PICK x, y, z : x = Do("execute", s) /\ y = Do("ofFuture", s) /\ z = Do("ofFuture", d) OBVIOUS
<1>6. /\ x \in Items /\ x.op = "execute" /\ x.on = s /\ x.todo = <<>>
      /\ y \in Items /\ y.op = "ofFuture" /\ y.on = s /\ y.todo = <<>>
      /\ z \in Items /\ z.op = "ofFuture" /\ z.on = d /\ z.todo = <<>>
  BY <1>5, Made DEF Ops
<1>7. ~ Held(y) /\ ~ Held(z) /\ Plain(y) /\ Plain(z) /\ Plain(x) BY <1>6 DEF Held, Plain
<1>8. PICK v \in Seq(Items) : v = Over(z, work) /\ Sound(v) /\ Range(v) = {z} \union Range(work)
  <2>1. z.op # "execute" BY <1>6
  <2>2. Over(z, work) \in Seq(Items) /\ Sound(Over(z, work)) BY <1>4, <1>6, <1>7, <2>1, SoundMore
  <2>3. Range(Over(z, work)) = {z} \union Range(work) BY <1>4, <1>6, PushItem
  <2> QED BY <2>2, <2>3
<1>9. u = Over(y, v) /\ Sound(u) /\ Range(u) = {y} \union Range(v)
  <2>1. y.op # "execute" /\ u = Over(y, v) BY <1>1, <1>5, <1>6, <1>8
  <2>2. Sound(Over(y, v)) BY <1>6, <1>7, <1>8, <2>1, SoundMore
  <2>3. Range(Over(y, v)) = {y} \union Range(v) BY <1>6, PushItem
  <2> QED BY <2>1, <2>2, <2>3
<1>10. \A i : /\ Count(u, FutureOf(i)) = Count(work, FutureOf(i))
              /\ Count(u, {Do("decPromise", i)}) = Count(work, {Do("decPromise", i)})
  <2>1. \A i : /\ Count(Over(z, work), FutureOf(i)) = Count(work, FutureOf(i))
               /\ Count(Over(z, work), {Do("decPromise", i)}) = Count(work, {Do("decPromise", i)})
    BY <1>4, <1>6, <1>7, Uncounted
  <2>2. \A i : /\ Count(Over(y, v), FutureOf(i)) = Count(v, FutureOf(i))
               /\ Count(Over(y, v), {Do("decPromise", i)}) = Count(v, {Do("decPromise", i)})
    BY <1>6, <1>7, Uncounted
  <2> QED BY <1>8, <1>9, <2>1, <2>2
<1>11. /\ Steady'
       /\ \A i : /\ Count(work', FutureOf(i)) = Count(work, FutureOf(i))
                 /\ Count(work', {Do("decPromise", i)}) = Count(work, {Do("decPromise", i)})
       /\ \A n \in Range(work) : n \in Range(work')
       /\ mode[s] \in Resolved => x \in Range(work')
       /\ \A n \in Range(work') : \/ n \in Range(work) \/ n \in {y, z}
                                  \/ n = x /\ mode[s] \in Resolved
  <2>1. CASE mode[s] \in Resolved
    <3>1. work' = Over(x, u) BY <1>1, <1>5, <2>1
    <3>2. Range(work') = {x} \union Range(u) BY <1>6, <3>1, PushItem
    <3>3. \A i : /\ Count(Over(x, u), FutureOf(i)) = Count(u, FutureOf(i))
                 /\ Count(Over(x, u), {Do("decPromise", i)}) = Count(u, {Do("decPromise", i)})
      BY <1>6, <1>7, Uncounted
    <3>4. Steady' BY <1>6, <1>9, <3>1, SteadyTop
    <3> QED BY <1>8, <1>9, <1>10, <2>1, <3>1, <3>2, <3>3, <3>4
  <2>2. CASE mode[s] \notin Resolved
    <3>1. work' = u BY <1>1, <2>2
    <3>2. Steady' BY <1>9, <3>1 DEF Steady
    <3> QED BY <1>8, <1>9, <1>10, <2>2, <3>1, <3>2
  <2> QED BY <2>1, <2>2
<1>12. /\ \A i \in States : /\ mode'[i] = IF i = d THEN "unresolved" ELSE mode[i]
                            /\ promises'[i] = IF i = d THEN 1 ELSE promises[i]
                            /\ futH'[i] = IF i = d THEN 1 ELSE futH[i]
                            /\ i # s => box'[i] = box[i]
                            /\ i # d => cancelBox'[i] = cancelBox[i]
       /\ \A n \in Links : life'[n] = IF n = l THEN "linked" ELSE life[n]
  BY <1>1 DEF Shape, Typed
<1>13. futH[d] = 0 /\ proH[d] = 0 /\ futures[d] = 0 /\ promises[d] = 0 /\ cancelBox[d] = <<>> /\ l \notin out
  BY <1>1 DEF Shape, Born
<1>14. Balance'
  <2> SUFFICES ASSUME NEW i \in States
               PROVE  /\ IsFiniteSet(Live(life', i))
                      /\ futures'[i] = futH'[i] + Count(work', FutureOf(i)) + Cardinality(Live(life', i))
                      /\ promises'[i] = proH'[i] + Count(work', {Do("decPromise", i)}) + Cardinality(Ends(out', i))
    BY DEF Balance
  <2>1. PICK f, p, a, b \in Nat :
           /\ f = Count(work, FutureOf(i)) /\ p = Count(work, {Do("decPromise", i)})
           /\ IsFiniteSet(Live(life, i)) /\ a = Cardinality(Live(life, i))
           /\ b = Cardinality(Ends(out, i))
           /\ futH[i] \in Nat /\ proH[i] \in Nat
           /\ futures[i] = futH[i] + f + a /\ promises[i] = proH[i] + p + b
    BY BalanceAt DEF Counts
  <2>2. /\ ~ Alive(life, l) /\ Alive(life', l)
        /\ \A n \in Links : n # l => (Alive(life', n) <=> Alive(life, n))
    BY <1>1, <1>12 DEF Alive
  <2>3. /\ IsFiniteSet(Live(life', i))
        /\ Cardinality(Live(life', i)) = Cardinality(Live(life, i)) + (IF i = s THEN 1 ELSE 0)
    <3>1. s = Src[l] BY <1>1
    <3>2. IsFiniteSet(Live(life, i)) BY <2>1
    <3> QED BY <2>2, <3>1, <3>2, LiveStep
  <2>4. /\ out \in SUBSET Chains /\ out' \in SUBSET Chains
        /\ \E n \in out' : Dst[n] = d
        /\ i # d => ((\E n \in out' : Dst[n] = i) <=> (\E n \in out : Dst[n] = i))
    BY <1>1 DEF Shape, Typed
  <2>5. /\ b = IF \E n \in out : Dst[n] = i THEN 1 ELSE 0
        /\ Cardinality(Ends(out', i)) = IF \E n \in out' : Dst[n] = i THEN 1 ELSE 0
    BY <2>1, <2>4, EndsFacts
  <2>6. CASE i = d
    <3>1. f = 0 /\ a = 0 /\ p = 0
      <4>1. futures[i] = 0 /\ futH[i] = 0 /\ promises[i] = 0 /\ proH[i] = 0 BY <1>13, <2>6
      <4>2. futures[i] = futH[i] + f + a /\ promises[i] = proH[i] + p + b BY <2>1
      <4> QED BY <4>1, <4>2
    <3>2. futures'[i] = 1 /\ futH'[i] = 1 /\ promises'[i] = 1 /\ proH'[i] = 0 /\ i # s
      BY <1>1, <1>12, <1>13, <2>6
    <3>3. Cardinality(Ends(out', i)) = 1 BY <2>4, <2>5, <2>6
    <3>4. Count(work', FutureOf(i)) = 0 /\ Count(work', {Do("decPromise", i)}) = 0
      BY <1>11, <2>1, <3>1
    <3>5. Cardinality(Live(life', i)) = 0 BY <2>1, <2>3, <3>1, <3>2
    <3> QED BY <2>3, <3>2, <3>3, <3>4, <3>5
  <2>7. CASE i # d
    <3>1. Cardinality(Ends(out', i)) = b BY <2>4, <2>5, <2>7
    <3>2. futures'[i] = futH[i] + f + (a + (IF i = s THEN 1 ELSE 0))
      <4>1. futures'[i] = IF i = s THEN futures[i] + 1 ELSE futures[i] BY <1>1, <2>7
      <4>2. futures[i] = futH[i] + f + a /\ futH[i] \in Nat BY <2>1
      <4> QED BY <4>1, <4>2
    <3>3. promises'[i] = proH'[i] + p + b /\ futH'[i] = futH[i]
      <4>1. promises'[i] = promises[i] /\ proH'[i] = proH[i] /\ futH'[i] = futH[i]
        BY <1>1, <1>12, <2>7
      <4> QED BY <2>1, <4>1
    <3> QED BY <1>11, <2>1, <2>3, <3>1, <3>2, <3>3
  <2> QED BY <2>6, <2>7
<1>15. Kept'
  <2>1. ASSUME NEW i \in States, i # s, i # d
        PROVE  /\ mode'[i] = mode[i] /\ futures'[i] = futures[i] /\ promises'[i] = promises[i]
               /\ box'[i] = box[i] /\ cancelBox'[i] = cancelBox[i] /\ (i \in asked' => i \in asked)
    BY <1>1, <1>12, <2>1
  <2>2. mode'[s] = mode[s] /\ futures'[s] > 0 /\ promises'[s] = promises[s] BY <1>1, <1>2, <1>12
  <2>3. mode[s] = "unresolved" => promises'[s] > 0 BY <2>2 DEF Counts, Kept
  <2>4. mode'[d] = "unresolved" /\ futures'[d] > 0 /\ promises'[d] > 0 BY <1>1, <1>12
  <2> QED BY <1>3, <2>1, <2>2, <2>3, <2>4 DEF Counts, Kept, Resolved
<1>16. \A n \in Range(work') : Standing(n)'
  <2>1. Firm BY <1>1, <1>12 DEF Firm, Resolved
  <2>2. \A i \in States : Range(cancelBox[i]) \subseteq Range(cancelBox'[i])
    <3>1. Range(cancelBox[d]) = {} BY <1>13 DEF Range
    <3> QED BY <1>12, <3>1
  <2>3. \A n \in Range(work) : Standing(n)' BY <2>1, <2>2, StandingFrame DEF Counts
  <2>4. Standing(y)' /\ Standing(z)' BY <1>6 DEF Standing
  <2>5. mode[s] \in Resolved => Standing(x)' BY <1>1, <1>6, <1>12 DEF Standing
  <2> QED BY <1>11, <2>3, <2>4, <2>5
<1>17. Delivering'
  <2>1. \A i \in States : mode'[i] \in Resolved => mode[i] \in Resolved /\ i # d
    BY <1>12 DEF Resolved
  <2>2. \A i \in States : mode'[i] \in Resolved =>
           \/ Do("execute", i) \in Range(work')
           \/ /\ mode[i] \in Resolved
              /\ Range(box'[i]) \subseteq Range(box[i])
              /\ Range(cancelBox'[i]) \subseteq Range(cancelBox[i])
    <3> SUFFICES ASSUME NEW i \in States, mode'[i] \in Resolved
                 PROVE  \/ Do("execute", i) \in Range(work')
                        \/ /\ mode[i] \in Resolved
                           /\ Range(box'[i]) \subseteq Range(box[i])
                           /\ Range(cancelBox'[i]) \subseteq Range(cancelBox[i])
      OBVIOUS
    <3>1. CASE i = s BY <1>5, <1>11, <2>1, <3>1
    <3>2. CASE i # s BY <1>12, <2>1, <3>2
    <3> QED BY <3>1, <3>2
  <2> QED BY <1>11, <2>2, DeliverMore DEF Counts
<1> QED BY <1>11, <1>14, <1>15, <1>16, <1>17 DEF Counts

LEMMA NoneLeft ==
  ASSUME NEW S, NEW l \in Seq(S), Range(l) = {}
  PROVE  l = <<>>
<1>1. \A i \in 1 .. Len(l) : l[i] \in Range(l) BY DEF Range
<1>2. Len(l) = 0 BY <1>1
<1> QED BY <1>2

LEMMA FlushCancelCounts ==
  ASSUME Shape, Counts, NEW k \in Cancels, FlushCancel(k) PROVE Counts'
<1>1. PICK s \in States :
           /\ s = Src[k] /\ On(k) = s /\ life[k] = "linked" /\ UserCode
           /\ life' = [life EXCEPT ![k] = "deleted"]
           /\ cancelBox' = [cancelBox EXCEPT ![s] = RemoveFirst(@, k)]
           /\ Like(work', work)
           /\ \A z \in Range(work') : \E y \in Range(work) : Loses(y, z, "cancels", k)
           /\ \A y \in Range(work) : \E z \in Range(work') : Loses(y, z, "cancels", k)
           /\ UNCHANGED <<mode, futures, promises, box, out, futH, proH, asked>>
  BY FlushCancelStep
<1>2. /\ cancelBox' \in [States -> Seq(Chains \union Cancels)]
      /\ \A y \in Links \union Cancels : life'[y] = IF y = k THEN "deleted" ELSE life[y]
      /\ \A i \in States : Range(cancelBox'[i]) = Range(cancelBox[i]) \ {k}
      /\ \A i \in States : i # s => cancelBox'[i] = cancelBox[i]
  <2>1. life' = IF k \in Cancels THEN [life EXCEPT ![k] = "deleted"] ELSE life BY <1>1
  <2> QED BY <1>1, <2>1, CancelBoxLess
<1>3. work \in Seq(Items) /\ Sound(work) BY <1>1, UserStack DEF Counts
<1>4. Steady' BY <1>1, <1>3, SoundLike DEF Steady
<1>5. Balance'
  <2>1. \A i \in States : /\ Count(work', FutureOf(i)) = Count(work, FutureOf(i))
                          /\ Count(work', {Do("decPromise", i)}) = Count(work, {Do("decPromise", i)})
    BY <1>1, <1>3, CountLike, CountedItems
  <2>2. \A n \in Links : Alive(life', n) <=> Alive(life, n) BY <1>2, Consts DEF Alive
  <2> QED BY <1>1, <2>1, <2>2, BalanceFrame DEF Counts
<1>6. Kept'
  <2>1. ASSUME NEW i \in States, cancelBox[i] = <<>> PROVE cancelBox'[i] = <<>>
    <3>1. Range(cancelBox'[i]) = {} BY <1>2, <2>1, SMTT(30) DEF Range
    <3> QED BY <1>2, <3>1, NoneLeft
  <2> QED BY <1>1, <2>1 DEF Counts, Kept
<1>7. \A z \in Range(work') : Standing(z)'
  <2> SUFFICES ASSUME NEW z \in Range(work') PROVE Standing(z)' OBVIOUS
  <2>1. PICK y \in Range(work) : Loses(y, z, "cancels", k) BY <1>1
  <2>2. Firm BY <1>1 DEF Firm
  <2>3. Real(y) /\ Standing(y) BY DEF Shape, Counts
  <2>4. \A i \in States : \A n \in Range(cancelBox[i]) : n \in Range(cancelBox'[i]) \/ n = k
    BY <1>2
  <2> QED BY <2>1, <2>2, <2>3, <2>4, StandingLoses
<1>8. Delivering'
  <2>1. \A i \in States : /\ Range(box'[i]) \subseteq Range(box[i])
                          /\ Range(cancelBox'[i]) \subseteq Range(cancelBox[i])
                          /\ k \notin Range(cancelBox'[i])
    BY <1>1, <1>2
  <2> QED BY <1>1, <2>1, DeliverLess DEF Counts
<1> QED BY <1>4, <1>5, <1>6, <1>7, <1>8 DEF Counts

LEMMA ReturnCounts ==
  ASSUME Shape, Counts, NEW b \in BOOLEAN, Return(b) PROVE Counts'
<1>1. PICK x \in Links \union Cancels, w \in Seq(Items), e \in Seq(Items) :
           /\ work # <<>> /\ Top = Do("call", x) /\ w = Tail(work)
           /\ work = Over(Do("call", x), w) /\ Range(work) = {Do("call", x)} \union Range(w)
           /\ life[x] \in {"running", "deleted"}
           /\ e = IF x \in Links THEN Over(Do("decFuture", Src[x]), Over(Do("delete", x), w)) ELSE w
           /\ b => x \in out /\ mode[Dst[x]] = "unresolved"
           /\ mode' = IF b THEN [mode EXCEPT ![Dst[x]] = "value"] ELSE mode
           /\ work' = IF b THEN Over(Do("execute", Dst[x]), e) ELSE e
           /\ life' = IF x \in Links THEN life ELSE [life EXCEPT ![x] = "deleted"]
           /\ UNCHANGED <<futures, promises, box, cancelBox, out, futH, proH, asked>>
  BY ReturnStep
<1>2. PICK t \in Items : t = Do("call", x) /\ t.op = "call" /\ t.on = x /\ t.todo = <<>>
  BY Made DEF Ops
<1>3. Sound(w)
  <2>1. t = Top /\ w = Tail(work) /\ work = Over(t, w) BY <1>1, <1>2
  <2> QED BY <1>1, <2>1, StackFacts DEF Counts
<1>4. /\ Sound(e)
      /\ \A i \in States : /\ Count(e, FutureOf(i)) = Count(work, FutureOf(i))
                           /\ Count(e, {Do("decPromise", i)}) = Count(work, {Do("decPromise", i)})
      /\ \A n \in Range(w) : n \in Range(e)
      /\ \A n \in Range(e) : n \in Range(w) \/ n.op \in {"decFuture", "delete"}
  <2>1. CASE x \in Links
    <3>1. PICK q, y, z : q = Src[x] /\ y = Do("decFuture", q) /\ z = Do("delete", x) OBVIOUS
    <3>2. q \in States BY <2>1, <3>1, Consts
    <3>3. /\ y \in Items /\ y.op = "decFuture" /\ y.on = q /\ y.todo = <<>>
          /\ z \in Items /\ z.op = "delete" /\ z.on = x /\ z.todo = <<>>
      BY <2>1, <3>1, <3>2, Made DEF Ops
    <3>4. ~ Held(y) /\ ~ Held(z) /\ Plain(z) BY <3>3 DEF Held, Plain
    <3>5. PICK v \in Seq(Items) : v = Over(z, w) /\ Sound(v) /\ Range(v) = {z} \union Range(w)
      <4>1. z.op # "execute" BY <3>3
      <4>2. Over(z, w) \in Seq(Items) /\ Sound(Over(z, w)) BY <1>3, <3>3, <3>4, <4>1, SoundMore
      <4>3. Range(Over(z, w)) = {z} \union Range(w) BY <3>3, PushItem
      <4> QED BY <4>2, <4>3
    <3>6. e = Over(y, v) BY <1>1, <2>1, <3>1, <3>5
    <3>7. Sound(e)
      <4>1. y.op # "execute" BY <3>3
      <4> QED BY <3>3, <3>4, <3>5, <3>6, <4>1, SoundMore
    <3>8. Range(e) = {y} \union Range(v) BY <3>3, <3>6, PushItem
    <3>9. \A i : /\ Count(v, FutureOf(i)) = Count(w, FutureOf(i))
                 /\ Count(v, {Do("decPromise", i)}) = Count(w, {Do("decPromise", i)})
      BY <3>3, <3>4, <3>5, Uncounted, SMTT(30)
    <3>10. \A i : /\ Count(Over(y, v), FutureOf(i)) = Count(v, FutureOf(i)) + (IF i = q THEN 1 ELSE 0)
                  /\ Count(Over(y, v), {Do("decPromise", i)}) = Count(v, {Do("decPromise", i)})
      <4>1. \A i : /\ Count(Over(Do("decFuture", q), v), FutureOf(i)) = Count(v, FutureOf(i)) + (IF i = q THEN 1 ELSE 0)
                   /\ Count(Over(Do("decFuture", q), v), {Do("decPromise", i)}) = Count(v, {Do("decPromise", i)})
        BY <3>2, CountFuture
      <4> QED BY <3>1, <4>1
    <3>11. \A i : /\ Count(Over(t, w), FutureOf(i)) = Count(w, FutureOf(i)) + (IF i = q THEN 1 ELSE 0)
                  /\ Count(Over(t, w), {Do("decPromise", i)}) = Count(w, {Do("decPromise", i)})
      <4>1. \A i : /\ Count(Over(Do("call", x), w), FutureOf(i)) = Count(w, FutureOf(i)) + (IF i = Src[x] THEN 1 ELSE 0)
                   /\ Count(Over(Do("call", x), w), {Do("decPromise", i)}) = Count(w, {Do("decPromise", i)})
        BY <2>1, CountCall
      <4> QED BY <1>2, <3>1, <4>1
    <3>12. work = Over(t, w) BY <1>1, <1>2
    <3>13. \A i : /\ Count(e, FutureOf(i)) = Count(work, FutureOf(i))
                  /\ Count(e, {Do("decPromise", i)}) = Count(work, {Do("decPromise", i)})
      BY <3>6, <3>9, <3>10, <3>11, <3>12
    <3> QED BY <3>3, <3>5, <3>7, <3>8, <3>13
  <2>2. CASE x \notin Links
    <3>1. e = w /\ Plain(t) BY <1>1, <1>2, <2>2 DEF Plain
    <3>2. work = Over(t, w) BY <1>1, <1>2
    <3>3. \A i : /\ Count(Over(t, w), FutureOf(i)) = Count(w, FutureOf(i))
                 /\ Count(Over(t, w), {Do("decPromise", i)}) = Count(w, {Do("decPromise", i)})
      BY <3>1, Uncounted
    <3> QED BY <1>3, <3>1, <3>2, <3>3
  <2> QED BY <2>1, <2>2
<1>5. /\ UNCHANGED <<futures, promises, box, cancelBox, out, futH, proH, asked>>
      /\ \A n \in Links : Alive(life', n) <=> Alive(life, n)
  BY <1>1, Consts DEF Shape, Typed, Alive
<1>6. \A n \in Range(work) : n.op \in {"execute", "activate", "links", "cancels"} => n \in Range(e)
  BY <1>1, <1>2, <1>4
<1>7. /\ \A n : n.op \in {"decFuture", "delete"} => Standing(n)'
      /\ Range(w) \subseteq Range(work)
  BY <1>1 DEF Standing
<1>8. CASE b
  <2>1. PICK d, y : d = Dst[x] /\ y = Do("execute", d) OBVIOUS
  <2>2. d \in States /\ mode[d] = "unresolved" BY <1>1, <1>8, <2>1, Consts DEF Shape, Typed
  <2>3. y \in Items /\ y.op = "execute" /\ y.on = d /\ y.todo = <<>> BY <2>1, <2>2, Made DEF Ops
  <2>4. work' = Over(y, e) BY <1>1, <1>8, <2>1
  <2>5. Range(work') = {y} \union Range(e) BY <2>3, <2>4, PushItem
  <2>6. \A i \in States : mode'[i] = IF i = d THEN "value" ELSE mode[i]
    BY <1>1, <1>8, <2>1, <2>2 DEF Shape, Typed
  <2>7. Plain(y) BY <2>3 DEF Plain
  <2>8. \A i : /\ Count(Over(y, e), FutureOf(i)) = Count(e, FutureOf(i))
               /\ Count(Over(y, e), {Do("decPromise", i)}) = Count(e, {Do("decPromise", i)})
    BY <2>3, <2>7, Uncounted
  <2>9. \A i \in States : /\ Count(work', FutureOf(i)) = Count(work, FutureOf(i))
                          /\ Count(work', {Do("decPromise", i)}) = Count(work, {Do("decPromise", i)})
    BY <1>4, <2>4, <2>8
  <2>10. Steady' BY <1>4, <2>3, <2>4, SteadyTop
  <2>11. Standing(y)' BY <2>2, <2>3, <2>6 DEF Standing, Resolved
  <2>12. \A i \in States :
           \/ mode'[i] = mode[i]
           \/ mode[i] = "unresolved" /\ mode'[i] \in Resolved /\ Do("execute", i) \in Range(work')
    BY <2>1, <2>2, <2>5, <2>6 DEF Resolved
  <2>13. \A n \in Range(work) :
           n.op \in {"execute", "activate"} \/ (n.op \in {"links", "cancels"} /\ n.todo # <<>>)
             => n \in Range(work')
    BY <1>6, <2>5
  <2>14. \A n \in Range(work') : n \in Range(work) \/ Standing(n)'
    BY <1>4, <1>7, <2>5, <2>11
  <2> QED BY <1>5, <2>9, <2>10, <2>12, <2>13, <2>14, TurnCounts
<1>9. CASE ~ b
  <2>1. work' = e /\ mode' = mode BY <1>1, <1>9
  <2>2. Steady' BY <1>4, <2>1 DEF Steady
  <2>3. \A n \in Range(work) :
           n.op \in {"execute", "activate"} \/ (n.op \in {"links", "cancels"} /\ n.todo # <<>>)
             => n \in Range(work')
    BY <1>6, <2>1
  <2>4. \A n \in Range(work') : n \in Range(work) \/ Standing(n)'
    BY <1>4, <1>7, <2>1
  <2> QED BY <1>4, <1>5, <2>1, <2>2, <2>3, <2>4, TurnCounts
<1> QED BY <1>8, <1>9

(* A stack of calls, as a name: the provers reckon better out of its sight.  *)
Stack(w) == w \in Seq(Items)

(* The numbers of state i with the calls w to come and the counters c and d. *)
Tally(w, c, d, i) ==
  \E f, p, a, b \in Nat :
     /\ f = Count(w, FutureOf(i)) /\ p = Count(w, {Do("decPromise", i)})
     /\ IsFiniteSet(Live(life, i)) /\ a = Cardinality(Live(life, i))
     /\ b = Cardinality(Ends(out, i))
     /\ futH[i] \in Nat /\ proH[i] \in Nat
     /\ c[i] = futH[i] + f + a /\ d[i] = proH[i] + p + b

(* The numbers when a counter has been given back.                           *)
LEMMA DecBalance ==
  ASSUME Shape, Balance, NEW s \in States, NEW w, Stack(w), NEW m \in {"decFuture", "decPromise"},
         work = Over(Do(m, s), w),
         futures' = [futures EXCEPT ![s] = IF m = "decFuture" THEN @ - 1 ELSE @],
         promises' = [promises EXCEPT ![s] = IF m = "decPromise" THEN @ - 1 ELSE @]
  PROVE  \A i \in States : Tally(w, futures', promises', i)
<1> SUFFICES ASSUME NEW i \in States
             PROVE  \E f, p, a, b \in Nat :
                      /\ f = Count(w, FutureOf(i)) /\ p = Count(w, {Do("decPromise", i)})
                      /\ IsFiniteSet(Live(life, i)) /\ a = Cardinality(Live(life, i))
                      /\ b = Cardinality(Ends(out, i))
                      /\ futH[i] \in Nat /\ proH[i] \in Nat
                      /\ futures'[i] = futH[i] + f + a /\ promises'[i] = proH[i] + p + b
  BY DEF Tally
<1>1. PICK f, p, a, b \in Nat :
           /\ f = Count(work, FutureOf(i)) /\ p = Count(work, {Do("decPromise", i)})
           /\ IsFiniteSet(Live(life, i)) /\ a = Cardinality(Live(life, i))
           /\ b = Cardinality(Ends(out, i))
           /\ futH[i] \in Nat /\ proH[i] \in Nat
           /\ futures[i] = futH[i] + f + a /\ promises[i] = proH[i] + p + b
  BY BalanceAt
<1>2. PICK g, q \in Nat : g = Count(w, FutureOf(i)) /\ q = Count(w, {Do("decPromise", i)})
  <2>1. Count(w, FutureOf(i)) \in Nat /\ Count(w, {Do("decPromise", i)}) \in Nat BY CountType DEF Stack
  <2> QED BY <2>1
<1>3. /\ f = g + (IF m = "decFuture" /\ i = s THEN 1 ELSE 0)
      /\ p = q + (IF m = "decPromise" /\ i = s THEN 1 ELSE 0)
  <2>1. CASE m = "decFuture"
    <3>1. /\ Count(Over(Do("decFuture", s), w), FutureOf(i)) = Count(w, FutureOf(i)) + (IF i = s THEN 1 ELSE 0)
          /\ Count(Over(Do("decFuture", s), w), {Do("decPromise", i)}) = Count(w, {Do("decPromise", i)})
      BY CountFuture DEF Stack
    <3> QED BY <1>1, <1>2, <2>1, <3>1
  <2>2. CASE m = "decPromise"
    <3>1. /\ Count(Over(Do("decPromise", s), w), {Do("decPromise", i)})
               = Count(w, {Do("decPromise", i)}) + (IF i = s THEN 1 ELSE 0)
          /\ Count(Over(Do("decPromise", s), w), FutureOf(i)) = Count(w, FutureOf(i))
      BY CountPromise DEF Stack
    <3> QED BY <1>1, <1>2, <2>2, <3>1
  <2> QED BY <2>1, <2>2
<1>4. /\ futures'[i] = futures[i] - (IF m = "decFuture" /\ i = s THEN 1 ELSE 0)
      /\ promises'[i] = promises[i] - (IF m = "decPromise" /\ i = s THEN 1 ELSE 0)
  <2>1. /\ futures \in [States -> Int] /\ promises \in [States -> Int] BY DEF Shape, Typed
  <2>2. /\ futures'[i] = IF m = "decFuture" /\ i = s THEN futures[i] - 1 ELSE futures[i]
        /\ promises'[i] = IF m = "decPromise" /\ i = s THEN promises[i] - 1 ELSE promises[i]
    BY <2>1
  <2>3. futures[i] \in Int /\ promises[i] \in Int BY <2>1
  <2> QED BY <2>2, <2>3
<1>5. futures[i] = futH[i] + f + a /\ promises[i] = proH[i] + p + b /\ futH[i] \in Nat /\ proH[i] \in Nat
  BY <1>1
<1>6. futures'[i] = futH[i] + g + a
  <2>1. CASE m = "decFuture" /\ i = s
    <3>1. f = g + 1 /\ futures'[i] = futures[i] - 1 BY <1>3, <1>4, <2>1
    <3> QED BY <1>5, <3>1
  <2>2. CASE ~ (m = "decFuture" /\ i = s)
    <3>1. f = g + 0 /\ futures'[i] = futures[i] - 0 BY <1>3, <1>4, <2>2
    <3>2. f = g /\ futures[i] \in Int BY <1>5, <3>1
    <3> QED BY <1>5, <3>1, <3>2
  <2> QED BY <2>1, <2>2
<1>7. promises'[i] = proH[i] + q + b
  <2>1. CASE m = "decPromise" /\ i = s
    <3>1. p = q + 1 /\ promises'[i] = promises[i] - 1 BY <1>3, <1>4, <2>1
    <3> QED BY <1>5, <3>1
  <2>2. CASE ~ (m = "decPromise" /\ i = s)
    <3>1. p = q + 0 /\ promises'[i] = promises[i] - 0 BY <1>3, <1>4, <2>2
    <3>2. p = q /\ promises[i] \in Int BY <1>5, <3>1
    <3> QED BY <1>5, <3>1, <3>2
  <2> QED BY <2>1, <2>2
<1> QED BY <1>1, <1>2, <1>6, <1>7

(* A state that goes leaves nothing behind that needs it.                    *)
LEMMA GoneCounts ==
  ASSUME Shape, Counts, NEW s \in States, NEW w \in Seq(Items), NEW t \in Items,
         work = Over(t, w), Range(work) = {t} \union Range(w), t.op \in {"decFuture", "decPromise"},
         Sound(w), Gone(s, w),
         \A i \in States : Tally(w, futures', promises', i),
         \A i \in States : i # s => futures'[i] = futures[i] /\ promises'[i] = promises[i],
         UNCHANGED <<out, futH, proH, asked>>
  PROVE  Counts'
<1>1. /\ futures'[s] = 0 /\ promises'[s] = 0
      /\ mode' = [mode EXCEPT ![s] = "deleted"]
      /\ life' = [x \in DOMAIN life |->
                    IF x \in Range(box[s]) \union (Range(cancelBox[s]) \ Links)
                    THEN "deleted" ELSE life[x]]
      /\ box' = [box EXCEPT ![s] = <<>>] /\ cancelBox' = [cancelBox EXCEPT ![s] = <<>>]
      /\ work' = Cut(w, s)
  BY DEF Gone
<1>2. /\ \A i \in States : /\ mode'[i] = IF i = s THEN "deleted" ELSE mode[i]
                           /\ box'[i] = IF i = s THEN <<>> ELSE box[i]
                           /\ cancelBox'[i] = IF i = s THEN <<>> ELSE cancelBox[i]
      /\ \A n \in Links : life'[n] = IF n \in Range(box[s]) THEN "deleted" ELSE life[n]
  BY <1>1 DEF Shape, Typed
<1>3. PICK v \in Seq(Items) :
        /\ work' = v /\ Like(v, w)
        /\ \A z \in Range(v) : \E y \in Range(w) : Ended(y, z, s)
        /\ \A y \in Range(w) : \E z \in Range(v) : Ended(y, z, s)
  <2>1. \A y \in Range(w) : y.op \notin {"links", "cancels"} => y.todo = <<>>
    BY DEF Shape, Real
  <2>2. /\ Like(Cut(w, s), w)
        /\ \A z \in Range(Cut(w, s)) : \E y \in Range(w) : Ended(y, z, s)
        /\ \A y \in Range(w) : \E z \in Range(Cut(w, s)) : Ended(y, z, s)
    BY <2>1, CutFacts
  <2>3. Cut(w, s) \in Seq(Items) BY <2>2 DEF Like
  <2> QED BY <1>1, <2>2, <2>3
<1>4. PICK f, p, a, b \in Nat :
           /\ f = Count(w, FutureOf(s)) /\ p = Count(w, {Do("decPromise", s)})
           /\ IsFiniteSet(Live(life, s)) /\ a = Cardinality(Live(life, s))
           /\ b = Cardinality(Ends(out, s))
           /\ futH[s] \in Nat /\ proH[s] \in Nat
           /\ futures'[s] = futH[s] + f + a /\ promises'[s] = proH[s] + p + b
  BY DEF Tally
<1>5. f = 0 /\ a = 0 /\ p = 0
  <2>1. futures'[s] = 0 /\ promises'[s] = 0 BY <1>1
  <2>2. futures'[s] = futH[s] + f + a /\ promises'[s] = proH[s] + p + b /\ futH[s] \in Nat /\ proH[s] \in Nat
    BY <1>4
  <2> QED BY <2>1, <2>2
<1>6. \A y \in Range(w) : y \notin FutureOf(s) /\ y # Do("decPromise", s)
  <2>1. Count(w, FutureOf(s)) = 0 /\ Count(w, {Do("decPromise", s)}) = 0 BY <1>4, <1>5
  <2>2. ~ \E x \in Range(w) : x \in FutureOf(s) BY <2>1, CountType
  <2>3. ~ \E x \in Range(w) : x \in {Do("decPromise", s)} BY <2>1, CountType
  <2> QED BY <2>2, <2>3
<1>7. Live(life, s) = {} BY <1>4, <1>5, FS_EmptySet
<1>8. \A n \in Links : life'[n] = life[n]
  <2>1. \A n \in Links : n \in Range(box[s]) => n \in Live(life, s)
    BY DEF Shape, Boxes, Live, Alive
  <2> QED BY <1>2, <1>7, <2>1
<1>9. Balance'
  <2> SUFFICES ASSUME NEW i \in States
               PROVE  /\ IsFiniteSet(Live(life', i))
                      /\ futures'[i] = futH'[i] + Count(work', FutureOf(i)) + Cardinality(Live(life', i))
                      /\ promises'[i] = proH'[i] + Count(work', {Do("decPromise", i)}) + Cardinality(Ends(out', i))
    BY DEF Balance
  <2>1. Count(v, FutureOf(i)) = Count(w, FutureOf(i)) /\ Count(v, {Do("decPromise", i)}) = Count(w, {Do("decPromise", i)})
    BY <1>3, CountLike, CountedItems
  <2>2. Live(life', i) = Live(life, i)
    <3>1. \A n \in Links : Alive(life', n) <=> Alive(life, n) BY <1>8 DEF Alive
    <3> QED BY <3>1, LiveSame
  <2>3. PICK g, q, c, d \in Nat :
           /\ g = Count(w, FutureOf(i)) /\ q = Count(w, {Do("decPromise", i)})
           /\ IsFiniteSet(Live(life, i)) /\ c = Cardinality(Live(life, i))
           /\ d = Cardinality(Ends(out, i))
           /\ futH[i] \in Nat /\ proH[i] \in Nat
           /\ futures'[i] = futH[i] + g + c /\ promises'[i] = proH[i] + q + d
    BY DEF Tally
  <2> QED BY <1>3, <2>1, <2>2, <2>3
<1>10. Kept'
  <2>1. \A i \in States : i # s => futures'[i] = futures[i] /\ promises'[i] = promises[i] OBVIOUS
  <2> QED BY <1>1, <1>2, <2>1 DEF Counts, Kept, Resolved
<1>11. Steady' BY <1>3, SoundLike DEF Steady
<1>12. \A z \in Range(work') : Standing(z)'
  <2> SUFFICES ASSUME NEW z \in Range(work') PROVE Standing(z)' OBVIOUS
  <2>1. PICK y \in Range(w) : Ended(y, z, s) BY <1>3
  <2>2. Real(y) /\ Standing(y) BY DEF Shape, Counts
  <2>3. z.op = y.op /\ z.on = y.on BY <2>1 DEF Ended
  <2>4. y.op # "execute" /\ (Held(y) => \E n \in Range(w) : n \in Guards(y))
    <3>1. PICK i \in 1 .. Len(w) : y = w[i] BY DEF Range
    <3>2. w[i].op # "execute" /\ (Held(w[i]) => \E j \in i + 1 .. Len(w) : w[j] \in Guards(w[i]))
      BY DEF Sound
    <3>3. \A j \in i + 1 .. Len(w) : w[j] \in Range(w) BY DEF Range
    <3> QED BY <3>1, <3>2, <3>3
  <2>5. Held(y) => y.on # s
    <3> SUFFICES ASSUME Held(y), y.on = s PROVE FALSE OBVIOUS
    <3>1. PICK n \in Range(w) : n \in Guards(y) BY <2>4
    <3>2. n = Do("decPromise", s) \/ n = Do("decFuture", s) BY <3>1, GuardsAre
    <3>3. Do("decFuture", s) \in FutureOf(s) BY DEF FutureOf
    <3> QED BY <1>6, <3>1, <3>2, <3>3
  <2>6. y.op = "call" /\ y.on \in Links => Src[y.on] # s /\ Src[y.on] \in States
    <3> SUFFICES ASSUME y.op = "call", y.on \in Links PROVE Src[y.on] # s /\ Src[y.on] \in States OBVIOUS
    <3>1. y = Do("call", y.on)
      <4>1. y \in Items BY DEF Range
      <4>2. y.todo = <<>> BY <2>2 DEF Real
      <4> QED BY <4>1, <4>2, Same
    <3>2. Src[y.on] = s => y \in FutureOf(s) BY <3>1, CountedItems
    <3> QED BY <1>6, <3>2, Consts
  <2>7. y.op \in {"execute", "activate", "cancels", "links"} => y.on \in States BY <2>2 DEF Real
  <2>8. CASE y.op \in {"activate", "cancels"}
    <3>1. y.on # s /\ y.on \in States BY <2>5, <2>7, <2>8 DEF Held
    <3>2. z = y BY <2>1, <3>1 DEF Ended
    <3> QED BY <1>2, <2>2, <2>8, <3>1, <3>2 DEF Standing
  <2>9. CASE y.op = "links"
    <3>1. mode'[y.on] \in Resolved \union {"deleted"} BY <1>2, <2>2, <2>7, <2>9 DEF Standing
    <3> QED BY <2>3, <2>9, <3>1 DEF Standing
  <2>10. CASE y.op = "call" BY <1>2, <2>2, <2>3, <2>6, <2>10 DEF Standing
  <2>11. CASE y.op \notin {"execute", "activate", "cancels", "links", "call"}
    BY <2>3, <2>11 DEF Standing
  <2> QED BY <2>4, <2>8, <2>9, <2>10, <2>11
<1>13. Delivering'
  <2> SUFFICES ASSUME NEW i \in States, mode'[i] \in Resolved
               PROVE  /\ \A l \in Range(box'[i]) : \E x \in Range(work') : Delivers(x, i, l)
                      /\ \A y \in Range(cancelBox'[i]) : \E x \in Range(work') : DeliversCancel(x, i, y)
    BY DEF Delivering, Delivers, DeliversCancel
  <2>1. i # s /\ mode[i] \in Resolved /\ box'[i] = box[i] /\ cancelBox'[i] = cancelBox[i]
    BY <1>2 DEF Resolved
  <2>2. \A o : Do(o, i).op = o /\ Do(o, i).on = i BY DEF Do
  <2>3. ASSUME NEW x \in Range(work), x.on = i, x # t PROVE x \in Range(work')
    <3>1. PICK z \in Range(work') : Ended(x, z, s) BY <1>3, <2>3
    <3>2. z = x BY <2>1, <2>3, <3>1 DEF Ended
    <3> QED BY <3>1, <3>2
  <2>4. ASSUME NEW l \in Range(box'[i]) PROVE \E x \in Range(work') : Delivers(x, i, l)
    <3>1. PICK x \in Range(work) : Delivers(x, i, l) BY <2>1, <2>4 DEF Counts, Delivering
    <3>2. x.on = i /\ x # t BY <2>2, <3>1 DEF Delivers
    <3> QED BY <2>3, <3>1, <3>2
  <2>5. ASSUME NEW y \in Range(cancelBox'[i]) PROVE \E x \in Range(work') : DeliversCancel(x, i, y)
    <3>1. PICK x \in Range(work) : DeliversCancel(x, i, y) BY <2>1, <2>5 DEF Counts, Delivering
    <3>2. x.on = i /\ x # t BY <2>2, <3>1 DEF DeliversCancel
    <3> QED BY <2>3, <3>1, <3>2
  <2> QED BY <2>4, <2>5
<1> QED BY <1>9, <1>10, <1>11, <1>12, <1>13 DEF Counts

(* A counter is given back, and the state stays.                             *)
LEMMA DecCounts ==
  ASSUME Shape, Counts, DecFuture \/ DecPromise PROVE Counts'
<1>1. PICK s \in States, w \in Seq(Items), m \in {"decFuture", "decPromise"} :
           /\ work # <<>> /\ Top = Do(m, s) /\ w = Tail(work)
           /\ work = Over(Do(m, s), w) /\ Range(work) = {Do(m, s)} \union Range(w)
           /\ mode[s] # "unborn"
           /\ futures' = [futures EXCEPT ![s] = IF m = "decFuture" THEN @ - 1 ELSE @]
           /\ promises' = [promises EXCEPT ![s] = IF m = "decPromise" THEN @ - 1 ELSE @]
           /\ Gone(s, w) \/ Closed(s, w) \/ Stays(s, w)
           /\ UNCHANGED <<out, futH, proH, asked>>
  BY DecStep
<1>2. PICK t \in Items : t = Do(m, s) /\ t.op = m /\ t.on = s
  <2>1. m \in Ops BY DEF Ops
  <2> QED BY <2>1, Made
<1>3. t = Top /\ w = Tail(work) /\ work = Over(t, w) /\ Range(work) = {t} \union Range(w)
  BY <1>1, <1>2
<1>4. Sound(w) BY <1>1, <1>3, StackFacts DEF Counts
<1>5. \A i \in States : Tally(w, futures', promises', i)
  <2>1. Stack(w) BY DEF Stack
  <2>2. /\ work = Over(Do(m, s), w)
        /\ futures' = [futures EXCEPT ![s] = IF m = "decFuture" THEN @ - 1 ELSE @]
        /\ promises' = [promises EXCEPT ![s] = IF m = "decPromise" THEN @ - 1 ELSE @]
    BY <1>1
  <2>3. Balance BY DEF Counts
  <2>4. s \in States /\ m \in {"decFuture", "decPromise"} OBVIOUS
  <2> QED BY <2>1, <2>2, <2>3, <2>4, DecBalance
<1>6. \A i \in States : i # s => futures'[i] = futures[i] /\ promises'[i] = promises[i]
  BY <1>1 DEF Shape, Typed
<1>7. futures'[s] \in Nat /\ promises'[s] \in Nat
  <2>1. PICK f, p, a, b \in Nat :
           /\ f = Count(w, FutureOf(s)) /\ p = Count(w, {Do("decPromise", s)})
           /\ IsFiniteSet(Live(life, s)) /\ a = Cardinality(Live(life, s))
           /\ b = Cardinality(Ends(out, s))
           /\ futH[s] \in Nat /\ proH[s] \in Nat
           /\ futures'[s] = futH[s] + f + a /\ promises'[s] = proH[s] + p + b
    BY <1>5 DEF Tally
  <2>2. futH[s] \in Nat /\ futures'[s] = futH[s] + f + a BY <2>1
  <2>3. proH[s] \in Nat /\ promises'[s] = proH[s] + p + b BY <2>1
  <2> QED BY ONLY <2>2, <2>3
<1>8. mode[s] \notin {"unborn", "deleted"}
  <2>1. Do(m, s) \in Range(work) BY <1>1
  <2>2. futures[s] > 0 \/ promises[s] > 0 BY <2>1, BalanceGives DEF Counts
  <2> QED BY <2>2, InPlace DEF Counts
<1>9. ASSUME Gone(s, w) PROVE Counts'
  <2>1. t.op \in {"decFuture", "decPromise"} /\ UNCHANGED <<out, futH, proH, asked>>
    BY <1>1, <1>2
  <2> HIDE <1>1
  <2> QED BY <1>3, <1>4, <1>5, <1>6, <1>9, <2>1, GoneCounts
<1>10. ASSUME NEW v \in Seq(Items), work' = v, Range(w) \subseteq Range(v), Steady',
              \A i \in States : /\ Count(v, FutureOf(i)) = Count(w, FutureOf(i))
                                /\ Count(v, {Do("decPromise", i)}) = Count(w, {Do("decPromise", i)}),
              UNCHANGED <<box, cancelBox, life>>,
              \A i \in States : i # s => mode'[i] = mode[i],
              \/ mode[s] = "unresolved" /\ mode'[s] = "cancel" /\ Do("execute", s) \in Range(v)
                   /\ (futures'[s] # 0 \/ promises'[s] # 0)
              \/ mode'[s] = mode[s] /\ (futures'[s] # 0 \/ promises'[s] # 0)
                   /\ (mode[s] = "unresolved" => futures'[s] # 0 /\ promises'[s] # 0),
              \A x \in Range(v) : x \in Range(w) \/ Standing(x)'
       PROVE  Counts'
  <2>1. Balance'
    <3> SUFFICES ASSUME NEW i \in States
                 PROVE  /\ IsFiniteSet(Live(life', i))
                        /\ futures'[i] = futH'[i] + Count(work', FutureOf(i)) + Cardinality(Live(life', i))
                        /\ promises'[i] = proH'[i] + Count(work', {Do("decPromise", i)}) + Cardinality(Ends(out', i))
      BY DEF Balance
    <3>1. PICK f, p, a, b \in Nat :
           /\ f = Count(w, FutureOf(i)) /\ p = Count(w, {Do("decPromise", i)})
           /\ IsFiniteSet(Live(life, i)) /\ a = Cardinality(Live(life, i))
           /\ b = Cardinality(Ends(out, i))
           /\ futH[i] \in Nat /\ proH[i] \in Nat
           /\ futures'[i] = futH[i] + f + a /\ promises'[i] = proH[i] + p + b
      BY <1>5 DEF Tally
    <3>2. out' = out /\ futH' = futH /\ proH' = proH BY <1>1
    <3> HIDE <1>1
    <3> QED BY <1>10, <3>1, <3>2
  <2>2. Kept'
    <3>1. ASSUME NEW i \in States, i # s
          PROVE  /\ mode'[i] = mode[i] /\ futures'[i] = futures[i] /\ promises'[i] = promises[i]
                 /\ box'[i] = box[i] /\ cancelBox'[i] = cancelBox[i]
      BY <1>6, <1>10, <3>1
    <3>2. futures'[s] # 0 => futures'[s] > 0 BY <1>7
    <3>3. promises'[s] # 0 => promises'[s] > 0 BY <1>7
    <3>4. asked' = asked BY <1>1
    <3>5. mode'[s] \notin {"unborn", "deleted"} BY <1>8, <1>10
    <3>6. /\ mode'[s] = "unresolved" => promises'[s] > 0 /\ futures'[s] > 0
          /\ futures'[s] > 0 \/ promises'[s] > 0
      BY <1>10, <3>2, <3>3
    <3> HIDE <1>1
    <3> QED BY <3>1, <3>4, <3>5, <3>6 DEF Counts, Kept
  <2>3. \A x \in Range(work') : Standing(x)'
    <3>1. Firm BY <1>10 DEF Firm, Resolved
    <3>2. \A x \in Range(work) : Standing(x)' BY <1>10, <3>1, StandingFrame DEF Counts
    <3> QED BY <1>3, <1>10, <3>2
  <2>4. Delivering'
    <3>1. \A i \in States : mode'[i] \in Resolved =>
           \/ Do("execute", i) \in Range(work')
           \/ /\ mode[i] \in Resolved
              /\ Range(box'[i]) \subseteq Range(box[i])
              /\ Range(cancelBox'[i]) \subseteq Range(cancelBox[i])
      BY <1>10
    <3>2. \A x \in Range(work) : x.op \notin {"decFuture", "decPromise"} => x \in Range(work')
      BY <1>2, <1>3, <1>10
    <3> QED BY <3>1, <3>2, DeliverMore DEF Counts
  <2> QED BY <1>10, <2>1, <2>2, <2>3, <2>4 DEF Counts
<1>11. ASSUME Closed(s, w) PROVE Counts'
  <2>1. /\ (futures'[s] = 0) # (promises'[s] = 0)
        /\ mode[s] = "unresolved" /\ mode' = [mode EXCEPT ![s] = "cancel"]
        /\ work' = Over(Do("execute", s), w)
        /\ UNCHANGED <<box, cancelBox, life>>
    BY <1>11 DEF Closed
  <2>2. PICK x \in Items : x = Do("execute", s) /\ x.op = "execute" /\ x.on = s /\ x.todo = <<>>
    BY Made DEF Ops
  <2>3. PICK v \in Seq(Items) : v = Over(x, w) /\ Range(v) = {x} \union Range(w) BY PushItem
  <2>4. work' = v BY <2>1, <2>2, <2>3
  <2>5. Plain(x) BY <2>2 DEF Plain
  <2>6. \A i \in States : /\ Count(v, FutureOf(i)) = Count(w, FutureOf(i))
                          /\ Count(v, {Do("decPromise", i)}) = Count(w, {Do("decPromise", i)})
    BY <2>2, <2>3, <2>5, Uncounted, ZenonT(30)
  <2>7. mode'[s] = "cancel" /\ \A i \in States : i # s => mode'[i] = mode[i]
    BY <2>1 DEF Shape, Typed
  <2>8. Steady' BY <1>4, <2>2, <2>3, <2>4, SteadyTop
  <2>9. Standing(x)' BY <2>2, <2>7 DEF Standing, Resolved
  <2>10. Do("execute", s) \in Range(v) /\ (futures'[s] # 0 \/ promises'[s] # 0) BY <2>1, <2>2, <2>3
  <2> QED BY <1>10, <2>1, <2>3, <2>4, <2>6, <2>7, <2>8, <2>9, <2>10
<1>12. ASSUME Stays(s, w) PROVE Counts'
  <2>1. /\ futures'[s] # 0 \/ promises'[s] # 0
        /\ mode[s] = "unresolved" => futures'[s] # 0 /\ promises'[s] # 0
        /\ work' = w
        /\ UNCHANGED <<mode, box, cancelBox, life>>
    BY <1>12 DEF Stays
  <2>2. Steady' BY <1>4, <2>1 DEF Steady
  <2> QED BY <1>10, <2>1, <2>2
<1> QED BY <1>1, <1>9, <1>11, <1>12

(* A step that takes a counter and leaves a call to give it back.            *)
LEMMA BalanceMore ==
  ASSUME Shape, Balance, NEW s \in States, NEW c \in Nat, NEW d \in Nat,
         UNCHANGED <<futH, proH, out>>, \A n \in Links : Alive(life', n) <=> Alive(life, n),
         \A i \in States : /\ futures'[i] = futures[i] + (IF i = s THEN c ELSE 0)
                           /\ promises'[i] = promises[i] + (IF i = s THEN d ELSE 0),
         \A i \in States :
           /\ Count(work', FutureOf(i)) = Count(work, FutureOf(i)) + (IF i = s THEN c ELSE 0)
           /\ Count(work', {Do("decPromise", i)}) = Count(work, {Do("decPromise", i)}) + (IF i = s THEN d ELSE 0)
  PROVE  Balance'
<1> SUFFICES ASSUME NEW i \in States
             PROVE  /\ IsFiniteSet(Live(life', i))
                    /\ futures'[i] = futH'[i] + Count(work', FutureOf(i)) + Cardinality(Live(life', i))
                    /\ promises'[i] = proH'[i] + Count(work', {Do("decPromise", i)}) + Cardinality(Ends(out', i))
  BY DEF Balance
<1>1. Live(life', i) = Live(life, i) BY LiveSame
<1>2. PICK f, p, a, b \in Nat :
           /\ f = Count(work, FutureOf(i)) /\ p = Count(work, {Do("decPromise", i)})
           /\ IsFiniteSet(Live(life, i)) /\ a = Cardinality(Live(life, i))
           /\ b = Cardinality(Ends(out, i))
           /\ futH[i] \in Nat /\ proH[i] \in Nat
           /\ futures[i] = futH[i] + f + a /\ promises[i] = proH[i] + p + b
  BY BalanceAt
<1>3. PICK g, q \in Nat :
           /\ g = IF i = s THEN c ELSE 0
           /\ q = IF i = s THEN d ELSE 0
  OBVIOUS
<1>4. /\ futures'[i] = futures[i] + g /\ promises'[i] = promises[i] + q
      /\ Count(work', FutureOf(i)) = f + g /\ Count(work', {Do("decPromise", i)}) = p + q
  BY <1>2, <1>3
<1>5. futures'[i] = futH[i] + (f + g) + a /\ promises'[i] = proH[i] + (p + q) + b
  BY <1>2, <1>4
<1> QED BY <1>1, <1>2, <1>4, <1>5

LEMMA KeptMore ==
  ASSUME Shape, Balance, Kept, NEW s \in States, NEW c \in Nat, NEW d \in Nat,
         UNCHANGED <<mode, asked>>, mode[s] \notin {"unborn", "deleted"},
         \A i \in States : /\ futures'[i] = futures[i] + (IF i = s THEN c ELSE 0)
                           /\ promises'[i] = promises[i] + (IF i = s THEN d ELSE 0),
         \A i \in States : /\ box[i] = <<>> => box'[i] = <<>>
                           /\ cancelBox[i] = <<>> => cancelBox'[i] = <<>>
  PROVE  Kept'
<1> SUFFICES ASSUME NEW i \in States
             PROVE  /\ mode[i] = "unresolved" => promises'[i] > 0 /\ (i \in asked => futures'[i] > 0)
                    /\ mode[i] \in Resolved => futures'[i] > 0 \/ promises'[i] > 0
                    /\ mode[i] \in {"unborn", "deleted"} =>
                         futures'[i] = 0 /\ promises'[i] = 0 /\ box'[i] = <<>> /\ cancelBox'[i] = <<>>
  BY DEF Kept
<1>1. futures[i] \in Nat /\ promises[i] \in Nat BY BalanceGives
<1>2. /\ futures[i] > 0 => futures'[i] > 0
      /\ promises[i] > 0 => promises'[i] > 0
      /\ i # s => futures'[i] = futures[i] /\ promises'[i] = promises[i]
  BY <1>1
<1> QED BY <1>2 DEF Kept

LEMMA MoreFutures ==
  ASSUME Shape, Balance, NEW s \in States,
         futures' = [futures EXCEPT ![s] = @ + 1], UNCHANGED promises
  PROVE  \E c, d \in Nat :
           /\ c = 1 /\ d = 0
           /\ \A i \in States : /\ futures'[i] = futures[i] + (IF i = s THEN c ELSE 0)
                                /\ promises'[i] = promises[i] + (IF i = s THEN d ELSE 0)
<1>0. PICK c, d \in Nat : c = 1 /\ d = 0 OBVIOUS
<1>1. ASSUME NEW i \in States
      PROVE  /\ futures'[i] = futures[i] + (IF i = s THEN c ELSE 0)
             /\ promises'[i] = promises[i] + (IF i = s THEN d ELSE 0)
  <2>1. futures[i] \in Nat /\ promises[i] \in Nat BY BalanceGives
  <2>2. futures'[i] = IF i = s THEN futures[i] + 1 ELSE futures[i] BY DEF Shape, Typed
  <2> QED BY <1>0, <2>1, <2>2
<1> QED BY <1>0, <1>1

LEMMA NoMore ==
  ASSUME NEW w \in Seq(Items), NEW s, NEW c \in Nat, c = 0
  PROVE  \A i : /\ Count(w, FutureOf(i)) = Count(w, FutureOf(i)) + (IF i = s THEN c ELSE 0)
               /\ Count(w, {Do("decPromise", i)}) = Count(w, {Do("decPromise", i)}) + (IF i = s THEN c ELSE 0)
<1> SUFFICES ASSUME NEW i
             PROVE  /\ Count(w, FutureOf(i)) = Count(w, FutureOf(i)) + (IF i = s THEN c ELSE 0)
                    /\ Count(w, {Do("decPromise", i)}) = Count(w, {Do("decPromise", i)}) + (IF i = s THEN c ELSE 0)
  OBVIOUS
<1>1. PICK x \in Nat, y \in Nat : x = Count(w, FutureOf(i)) /\ y = Count(w, {Do("decPromise", i)})
  <2>1. Count(w, FutureOf(i)) \in Nat /\ Count(w, {Do("decPromise", i)}) \in Nat BY CountType
  <2> QED BY <2>1
<1>2. (IF i = s THEN c ELSE 0) = 0 OBVIOUS
<1> QED BY <1>1, <1>2

LEMMA ExecuteTop ==
  ASSUME Shape, Steady, Execute
  PROVE  \E s \in States, w \in Seq(Items), t \in Items, y \in Items :
           /\ work # <<>> /\ t = Do("execute", s) /\ t.op = "execute" /\ t.on = s
           /\ y = Do("activate", s) /\ y.op = "activate" /\ y.on = s
           /\ t = Top /\ w = Tail(work) /\ work = Over(t, w) /\ Range(work) = {t} \union Range(w)
           /\ Sound(w) /\ mode[s] # "unborn"
           /\ \A i \in States : /\ Count(w, FutureOf(i)) = Count(work, FutureOf(i))
                                /\ Count(w, {Do("decPromise", i)}) = Count(work, {Do("decPromise", i)})
           /\ \/ /\ mode[s] = "cancel" /\ promises[s] > 0
                 /\ promises' = [promises EXCEPT ![s] = @ + 1]
                 /\ work' = <<Walk("cancels", s, cancelBox[s]), y, Do("decPromise", s)>> \o w
                 /\ UNCHANGED <<futures, cancelBox, life>>
              \/ /\ mode[s] = "cancel" /\ promises[s] = 0 /\ futures[s] > 0
                 /\ futures' = [futures EXCEPT ![s] = @ + 1]
                 /\ Emptied(s)
                 /\ work' = <<y, Do("decFuture", s)>> \o w
                 /\ UNCHANGED promises
              \/ /\ mode[s] = "value"
                 /\ Emptied(s)
                 /\ work' = <<y>> \o w
                 /\ UNCHANGED <<futures, promises>>
           /\ UNCHANGED <<mode, box, out, futH, proH, asked>>
<1>1. work # <<>> /\ Top.op = "execute" BY DEF Execute, Is
<1>2. PICK t \in Items, w \in Seq(Items) :
           /\ t = Top /\ w = Tail(work) /\ Real(t)
           /\ work = Over(t, w) /\ Range(work) = {t} \union Range(w)
  BY <1>1, TopFacts
<1>3. PICK s \in States : s = t.on /\ mode[s] # "unborn" BY <1>1, <1>2 DEF Real
<1>4. t = Do("execute", s) BY <1>1, <1>2, <1>3, Same DEF Real
<1>5. PICK y \in Items : y = Do("activate", s) /\ y.op = "activate" /\ y.on = s BY Made DEF Ops
<1>6. Sound(w) BY <1>1, <1>2, StackFacts
<1>7. Plain(t) BY <1>1, <1>2 DEF Plain
<1>8. \A i \in States : /\ Count(w, FutureOf(i)) = Count(work, FutureOf(i))
                        /\ Count(w, {Do("decPromise", i)}) = Count(work, {Do("decPromise", i)})
  <2>1. t \in Items /\ w \in Seq(Items) /\ work = Over(t, w) BY <1>2
  <2>2. \A i : /\ Count(Over(t, w), FutureOf(i)) = Count(w, FutureOf(i))
               /\ Count(Over(t, w), {Do("decPromise", i)}) = Count(w, {Do("decPromise", i)})
    BY <1>7, <2>1, Uncounted
  <2> QED BY <2>1, <2>2
<1>9. /\ \/ /\ mode[s] = "cancel" /\ promises[s] > 0
            /\ promises' = [promises EXCEPT ![s] = @ + 1]
            /\ work' = <<Walk("cancels", s, cancelBox[s]), y, Do("decPromise", s)>> \o w
            /\ UNCHANGED <<futures, cancelBox, life>>
         \/ /\ mode[s] = "cancel" /\ promises[s] = 0 /\ futures[s] > 0
            /\ futures' = [futures EXCEPT ![s] = @ + 1]
            /\ Emptied(s)
            /\ work' = <<y, Do("decFuture", s)>> \o w
            /\ UNCHANGED promises
         \/ /\ mode[s] = "value"
            /\ Emptied(s)
            /\ work' = <<y>> \o w
            /\ UNCHANGED <<futures, promises>>
      /\ UNCHANGED <<mode, box, out, futH, proH, asked>>
  <2>1. s = Top.on /\ w = Tail(work) BY <1>2, <1>3
  <2> QED BY <1>5, <2>1 DEF Execute
<1>10. t.op = "execute" /\ t.on = s BY <1>1, <1>2, <1>3
<1> QED BY <1>1, <1>2, <1>3, <1>4, <1>5, <1>6, <1>8, <1>9, <1>10

(* Once a state has begun to execute, its boxes are seen to.                 *)
LEMMA ExecuteDelivers ==
  ASSUME Delivering, UNCHANGED <<mode, box>>, NEW s \in States, NEW t, t.on = s,
         Range(work) \subseteq {t} \union Range(work'),
         Do("activate", s) \in Range(work'),
         \A i \in States : i # s => cancelBox'[i] = cancelBox[i],
         \A y \in Range(cancelBox'[s]) : \E x \in Range(work') : DeliversCancel(x, s, y)
  PROVE  Delivering'
<1> SUFFICES ASSUME NEW i \in States, mode[i] \in Resolved
             PROVE  /\ \A l \in Range(box[i]) : \E x \in Range(work') : Delivers(x, i, l)
                    /\ \A y \in Range(cancelBox'[i]) : \E x \in Range(work') : DeliversCancel(x, i, y)
  BY DEF Delivering, Delivers, DeliversCancel
<1>1. CASE i = s BY <1>1 DEF Delivers
<1>2. CASE i # s
  <2>1. \A o : Do(o, i).on = i BY DEF Do
  <2>2. ASSUME NEW x \in Range(work), x.on = i PROVE x \in Range(work') BY <1>2, <2>2
  <2>3. \A x, l : Delivers(x, i, l) => x.on = i BY <2>1 DEF Delivers
  <2>4. \A x, y : DeliversCancel(x, i, y) => x.on = i BY <2>1 DEF DeliversCancel
  <2>5. cancelBox'[i] = cancelBox[i] BY <1>2
  <2>6. /\ \A l \in Range(box[i]) : \E x \in Range(work) : Delivers(x, i, l)
        /\ \A y \in Range(cancelBox[i]) : \E x \in Range(work) : DeliversCancel(x, i, y)
    BY DEF Delivering
  <2> QED BY <2>2, <2>3, <2>4, <2>5, <2>6
<1> QED BY <1>1, <1>2

LEMMA ExecuteCounts ==
  ASSUME Shape, Counts, Execute PROVE Counts'
<1>1. PICK s \in States, w \in Seq(Items), t \in Items, y \in Items :
           /\ work # <<>> /\ t = Do("execute", s) /\ t.op = "execute" /\ t.on = s
           /\ y = Do("activate", s) /\ y.op = "activate" /\ y.on = s
           /\ t = Top /\ w = Tail(work) /\ work = Over(t, w) /\ Range(work) = {t} \union Range(w)
           /\ Sound(w) /\ mode[s] # "unborn"
           /\ \A i \in States : /\ Count(w, FutureOf(i)) = Count(work, FutureOf(i))
                                /\ Count(w, {Do("decPromise", i)}) = Count(work, {Do("decPromise", i)})
           /\ \/ /\ mode[s] = "cancel" /\ promises[s] > 0
                 /\ promises' = [promises EXCEPT ![s] = @ + 1]
                 /\ work' = <<Walk("cancels", s, cancelBox[s]), y, Do("decPromise", s)>> \o w
                 /\ UNCHANGED <<futures, cancelBox, life>>
              \/ /\ mode[s] = "cancel" /\ promises[s] = 0 /\ futures[s] > 0
                 /\ futures' = [futures EXCEPT ![s] = @ + 1]
                 /\ Emptied(s)
                 /\ work' = <<y, Do("decFuture", s)>> \o w
                 /\ UNCHANGED promises
              \/ /\ mode[s] = "value"
                 /\ Emptied(s)
                 /\ work' = <<y>> \o w
                 /\ UNCHANGED <<futures, promises>>
           /\ UNCHANGED <<mode, box, out, futH, proH, asked>>
  BY ExecuteTop DEF Counts
<1>2. /\ UNCHANGED <<mode, box, out, futH, proH, asked>>
      /\ t.op = "execute" /\ t.on = s /\ Range(work) = {t} \union Range(w)
      /\ y.op = "activate" /\ y.on = s /\ y = Do("activate", s) /\ Sound(w)
  BY <1>1
<1>3. Plain(y) BY <1>2 DEF Plain
<1>4. Firm BY <1>2 DEF Firm
<1>5. mode[s] \in Resolved
  <2>1. Standing(t) BY <1>2 DEF Counts
  <2> QED BY <1>2, <2>1 DEF Standing
<1>6. Standing(y)' BY <1>2, <1>5 DEF Standing
<1>8. ASSUME mode[s] = "cancel",
             promises' = [promises EXCEPT ![s] = @ + 1],
             work' = <<Walk("cancels", s, cancelBox[s]), y, Do("decPromise", s)>> \o w,
             UNCHANGED <<futures, cancelBox, life>>
      PROVE  Counts'
  <2>1. PICK x \in Items : /\ x = Walk("cancels", s, cancelBox[s])
                           /\ x.op = "cancels" /\ x.on = s /\ x.todo = cancelBox[s]
    <3>1. cancelBox[s] \in Seq(Chains \union Cancels) BY DEF Shape, Typed
    <3>2. cancelBox[s] \in Seq(Links \union Cancels) BY <3>1, SeqMonotonic, Consts
    <3> QED BY <3>2, MadeWalk DEF Ops
  <2>2. PICK z \in Items : z = Do("decPromise", s) /\ z.op = "decPromise" /\ z.on = s BY Made DEF Ops
  <2>3. PICK p \in Seq(Items) : p = Over(z, w) /\ Range(p) = {z} \union Range(w) BY PushItem
  <2>4. PICK q \in Seq(Items) : q = Over(y, p) /\ Range(q) = {y} \union Range(p) BY PushItem
  <2>5. work' = Over(x, q)
    <3>1. work' = <<x, y, z>> \o w BY <1>8, <2>1, <2>2
    <3>2. work' = Over(x, Over(y, Over(z, w))) BY <3>1, PushItemsThree
    <3> QED BY <2>3, <2>4, <3>2
  <2>6. Range(work') = {x} \union Range(q) BY <2>5, PushItem
  <2>7. Steady'
    <3>1. z.op # "execute" /\ ~ Held(z) BY <2>2 DEF Held
    <3>2. Sound(p) BY <1>2, <2>3, <3>1, SoundMore
    <3>3. z \in Guards(x) /\ z \in Guards(y) BY <1>2, <2>1, <2>2 DEF Guards
    <3>4. Guarded(y, p) BY <2>3, <3>3 DEF Guarded
    <3>5. y.op # "execute" /\ x.op # "execute" BY <1>2, <2>1
    <3>6. Sound(q) BY <2>4, <3>2, <3>4, <3>5, SoundOver
    <3>7. Guarded(x, q) BY <2>3, <2>4, <3>3 DEF Guarded
    <3>8. Sound(Over(x, q)) BY <3>5, <3>6, <3>7, SoundOver
    <3> QED BY <2>5, <3>8 DEF Steady
  <2>8. \A i : /\ Count(p, FutureOf(i)) = Count(w, FutureOf(i))
               /\ Count(p, {Do("decPromise", i)}) = Count(w, {Do("decPromise", i)}) + (IF i = s THEN 1 ELSE 0)
    <3>1. \A i : /\ Count(Over(Do("decPromise", s), w), {Do("decPromise", i)})
                      = Count(w, {Do("decPromise", i)}) + (IF i = s THEN 1 ELSE 0)
                 /\ Count(Over(Do("decPromise", s), w), FutureOf(i)) = Count(w, FutureOf(i))
      BY CountPromise
    <3> QED BY <2>2, <2>3, <3>1
  <2>9. \A i : /\ Count(q, FutureOf(i)) = Count(p, FutureOf(i))
               /\ Count(q, {Do("decPromise", i)}) = Count(p, {Do("decPromise", i)})
    BY <1>3, <2>4, Uncounted, ZenonT(30)
  <2>10. \A i : /\ Count(work', FutureOf(i)) = Count(q, FutureOf(i))
                /\ Count(work', {Do("decPromise", i)}) = Count(q, {Do("decPromise", i)})
    <3>1. Plain(x) BY <2>1 DEF Plain
    <3> QED BY <2>5, <3>1, Uncounted
  <2>0. PICK c \in Nat, d \in Nat : c = 0 /\ d = 1 OBVIOUS
  <2>11. \A i \in States :
           /\ Count(work', FutureOf(i)) = Count(work, FutureOf(i)) + (IF i = s THEN c ELSE 0)
           /\ Count(work', {Do("decPromise", i)}) = Count(work, {Do("decPromise", i)}) + (IF i = s THEN d ELSE 0)
    <3>1. \A i \in States :
           /\ Count(work', FutureOf(i)) = Count(work, FutureOf(i))
           /\ Count(work', {Do("decPromise", i)}) = Count(work, {Do("decPromise", i)}) + (IF i = s THEN 1 ELSE 0)
      BY <1>1, <2>8, <2>9, <2>10
    <3>2. \A i \in States : Count(work, FutureOf(i)) \in Nat BY CountType DEF Shape, Typed
    <3> QED BY <2>0, <3>1, <3>2
  <2>12. \A i \in States : /\ futures'[i] = futures[i] + (IF i = s THEN c ELSE 0)
                           /\ promises'[i] = promises[i] + (IF i = s THEN d ELSE 0)
    <3> SUFFICES ASSUME NEW i \in States
                 PROVE  /\ futures'[i] = futures[i] + (IF i = s THEN c ELSE 0)
                        /\ promises'[i] = promises[i] + (IF i = s THEN d ELSE 0)
      OBVIOUS
    <3>1. futures[i] \in Nat /\ promises[i] \in Nat BY BalanceGives DEF Counts
    <3>2. promises'[i] = IF i = s THEN promises[i] + 1 ELSE promises[i] BY <1>8 DEF Shape, Typed
    <3> QED BY <1>8, <2>0, <3>1, <3>2
  <2>13. Balance'
    <3>1. \A n \in Links : Alive(life', n) <=> Alive(life, n) BY <1>8
    <3> QED BY <1>2, <2>11, <2>12, <3>1, BalanceMore DEF Counts
  <2>14. Kept'
    <3>1. mode[s] \notin {"unborn", "deleted"} BY <1>8
    <3> QED BY <1>2, <1>8, <2>12, <3>1, KeptMore DEF Counts
  <2>15. \A n \in Range(work') : Standing(n)'
    <3>1. \A i \in States : Range(cancelBox[i]) \subseteq Range(cancelBox'[i]) BY <1>8
    <3>2. \A n \in Range(work) : Standing(n)' BY <1>4, <3>1, StandingFrame DEF Counts
    <3>3. Standing(x)' BY <1>2, <1>8, <2>1 DEF Standing
    <3>4. Standing(z)' BY <2>2 DEF Standing
    <3> QED BY <1>2, <1>6, <2>3, <2>4, <2>6, <3>2, <3>3, <3>4
  <2>16. Delivering'
    <3>1. \A n \in Range(cancelBox'[s]) : DeliversCancel(x, s, n) BY <1>8, <2>1 DEF DeliversCancel
    <3>2. Range(work) \subseteq {t} \union Range(work') /\ Do("activate", s) \in Range(work') /\ x \in Range(work')
      BY <1>2, <2>3, <2>4, <2>6
    <3> QED BY <1>2, <1>8, <3>1, <3>2, ExecuteDelivers DEF Counts
  <2> QED BY <2>7, <2>13, <2>14, <2>15, <2>16 DEF Counts
<1>9. ASSUME mode[s] = "value" \/ promises[s] = 0, Emptied(s), NEW c \in Nat, NEW d \in Nat, NEW v \in Seq(Items),
             \A i \in States : /\ futures'[i] = futures[i] + (IF i = s THEN c ELSE 0)
                               /\ promises'[i] = promises[i] + (IF i = s THEN d ELSE 0),
             \A i : /\ Count(v, FutureOf(i)) = Count(w, FutureOf(i)) + (IF i = s THEN c ELSE 0)
                    /\ Count(v, {Do("decPromise", i)}) = Count(w, {Do("decPromise", i)}) + (IF i = s THEN d ELSE 0),
             Sound(v), Range(w) \subseteq Range(v), \A x \in Range(v) : x \in Range(w) \/ x.op = "decFuture",
             work' = Over(y, v)
      PROVE  Counts'
  <2>1. /\ \A l \in Links : life'[l] = life[l]
        /\ cancelBox'[s] = <<>> /\ \A i \in States : i # s => cancelBox'[i] = cancelBox[i]
    BY <1>2, <1>9, EmptiedFacts
  <2>2. Range(work') = {y} \union Range(v) BY <1>9, PushItem
  <2>3. Steady' BY <1>2, <1>9, SteadyTop
  <2>4. \A i : /\ Count(work', FutureOf(i)) = Count(v, FutureOf(i))
               /\ Count(work', {Do("decPromise", i)}) = Count(v, {Do("decPromise", i)})
    BY <1>3, <1>9, Uncounted
  <2>5. promises[s] \in Nat BY BalanceGives DEF Counts
  <2>6. Balance'
    <3>1. \A n \in Links : Alive(life', n) <=> Alive(life, n) BY <2>1 DEF Alive
    <3>2. \A i \in States :
            /\ Count(work', FutureOf(i)) = Count(work, FutureOf(i)) + (IF i = s THEN c ELSE 0)
            /\ Count(work', {Do("decPromise", i)}) = Count(work, {Do("decPromise", i)}) + (IF i = s THEN d ELSE 0)
      BY <1>1, <1>9, <2>4, ZenonT(30)
    <3> QED BY <1>2, <1>9, <3>1, <3>2, BalanceMore DEF Counts
  <2>7. Kept'
    <3>1. mode[s] \notin {"unborn", "deleted"} BY <1>5 DEF Resolved
    <3>2. \A i \in States : cancelBox[i] = <<>> => cancelBox'[i] = <<>> BY <2>1
    <3> QED BY <1>2, <1>9, <3>1, <3>2, KeptMore DEF Counts
  <2>8. \A n \in Range(work) : n # t /\ n.op = "cancels" => n.on # s
    <3> SUFFICES ASSUME NEW n \in Range(w), n.op = "cancels", n.on = s PROVE FALSE BY <1>2
    <3>1. mode[s] = "cancel"
      <4>1. Standing(n) BY <1>2 DEF Counts
      <4> QED BY <4>1 DEF Standing
    <3>2. PICK i \in 1 .. Len(w) : n = w[i] BY DEF Range
    <3>3. Held(w[i]) => \E j \in i + 1 .. Len(w) : w[j] \in Guards(w[i]) BY <1>2 DEF Sound
    <3>4. PICK j \in i + 1 .. Len(w) : w[j] \in Guards(n) BY <3>2, <3>3 DEF Held
    <3>5. w[j] \in Range(w) BY DEF Range
    <3>6. Do("decPromise", s) \in Range(work) BY <1>2, <3>4, <3>5 DEF Guards
    <3>7. promises[s] > 0 BY <3>6, BalanceGives DEF Counts
    <3> QED BY <1>9, <2>5, <3>1, <3>7
  <2>9. \A n \in Range(work') : Standing(n)'
    <3> SUFFICES ASSUME NEW n \in Range(w) PROVE Standing(n)'
      <4>1. \A n \in Range(v) : n.op = "decFuture" => Standing(n)' BY DEF Standing
      <4> QED BY <1>6, <1>9, <2>2, <4>1
    <3>1. Real(n) /\ Standing(n) /\ n \in Range(work) BY <1>2 DEF Shape, Counts
    <3>2. ASSUME n.op = "cancels" PROVE Range(n.todo) \subseteq Range(cancelBox'[n.on])
      <4>1. n.on \in States BY <3>1, <3>2 DEF Real
      <4>2. n # t BY <1>2, <3>2
      <4>3. cancelBox'[n.on] = cancelBox[n.on] BY <2>1, <2>8, <3>1, <3>2, <4>1, <4>2
      <4> QED BY <3>1, <3>2, <4>3 DEF Standing
    <3> QED BY <1>4, <3>1, <3>2, StandingKept
  <2>10. Delivering'
    <3>1. Range(cancelBox'[s]) = {} BY <2>1 DEF Range
    <3>2. Range(work) \subseteq {t} \union Range(work') /\ Do("activate", s) \in Range(work')
      BY <1>2, <1>9, <2>2
    <3> QED BY <1>2, <2>1, <3>1, <3>2, ExecuteDelivers DEF Counts
  <2> QED BY <2>3, <2>6, <2>7, <2>9, <2>10 DEF Counts
<1>10. ASSUME promises[s] = 0, futures' = [futures EXCEPT ![s] = @ + 1], Emptied(s),
              work' = <<y, Do("decFuture", s)>> \o w, UNCHANGED promises
       PROVE  Counts'
  <2>1. PICK z \in Items : z = Do("decFuture", s) /\ z.op = "decFuture" /\ z.on = s BY Made DEF Ops
  <2>2. PICK v \in Seq(Items) : v = Over(z, w) /\ Range(v) = {z} \union Range(w) BY PushItem
  <2>3. work' = Over(y, v)
    <3>1. work' = <<y, z>> \o w BY <1>10, <2>1
    <3> QED BY <2>2, <3>1, PushItems
  <2>4. Sound(v)
    <3>1. z.op # "execute" /\ ~ Held(z) BY <2>1 DEF Held
    <3> QED BY <1>2, <2>2, <3>1, SoundMore
  <2>0. PICK c, d \in Nat :
           /\ c = 1 /\ d = 0
           /\ \A i \in States : /\ futures'[i] = futures[i] + (IF i = s THEN c ELSE 0)
                                /\ promises'[i] = promises[i] + (IF i = s THEN d ELSE 0)
    <3>1. futures' = [futures EXCEPT ![s] = @ + 1] /\ UNCHANGED promises BY <1>10
    <3>2. Balance BY DEF Counts
    <3> QED BY <3>1, <3>2, MoreFutures
  <2>5. \A i : /\ Count(v, FutureOf(i)) = Count(w, FutureOf(i)) + (IF i = s THEN c ELSE 0)
               /\ Count(v, {Do("decPromise", i)}) = Count(w, {Do("decPromise", i)}) + (IF i = s THEN d ELSE 0)
    <3>1. \A i : /\ Count(Over(Do("decFuture", s), w), FutureOf(i)) = Count(w, FutureOf(i)) + (IF i = s THEN 1 ELSE 0)
                 /\ Count(Over(Do("decFuture", s), w), {Do("decPromise", i)}) = Count(w, {Do("decPromise", i)})
      BY CountFuture
    <3>2. \A i : Count(w, {Do("decPromise", i)}) \in Nat BY CountType
    <3> QED BY <2>0, <2>1, <2>2, <3>1, <3>2
  <2>6. \A i \in States : /\ futures'[i] = futures[i] + (IF i = s THEN c ELSE 0)
                          /\ promises'[i] = promises[i] + (IF i = s THEN d ELSE 0)
    BY <2>0
  <2>7. Range(w) \subseteq Range(v) /\ \A x \in Range(v) : x \in Range(w) \/ x.op = "decFuture"
    BY <2>1, <2>2
  <2>8. (mode[s] = "value" \/ promises[s] = 0) /\ Emptied(s) BY <1>10
  <2> QED BY <1>9, <2>3, <2>4, <2>5, <2>6, <2>7, <2>8, ZenonT(30)
<1>11. ASSUME mode[s] = "value", Emptied(s), work' = <<y>> \o w, UNCHANGED <<futures, promises>>
       PROVE  Counts'
  <2>1. work' = Over(y, w) BY <1>11 DEF Over
  <2>0. PICK c \in Nat : c = 0 OBVIOUS
  <2>2. \A i : /\ Count(w, FutureOf(i)) = Count(w, FutureOf(i)) + (IF i = s THEN c ELSE 0)
               /\ Count(w, {Do("decPromise", i)}) = Count(w, {Do("decPromise", i)}) + (IF i = s THEN c ELSE 0)
    BY <2>0, NoMore
  <2>3. \A i \in States : /\ futures'[i] = futures[i] + (IF i = s THEN c ELSE 0)
                          /\ promises'[i] = promises[i] + (IF i = s THEN c ELSE 0)
    <3>1. \A i \in States : futures[i] \in Nat /\ promises[i] \in Nat BY BalanceGives DEF Counts
    <3> QED BY <1>11, <2>0, <3>1
  <2> QED BY <1>2, <1>9, <1>11, <2>1, <2>2, <2>3, ZenonT(30)
<1> QED BY <1>1, <1>8, <1>10, <1>11

(* The calls v give back c futures and d promises of s more than w does.     *)
More(v, w, s, c, d) ==
  \A i : /\ Count(v, FutureOf(i)) = Count(w, FutureOf(i)) + (IF i = s THEN c ELSE 0)
         /\ Count(v, {Do("decPromise", i)}) = Count(w, {Do("decPromise", i)}) + (IF i = s THEN d ELSE 0)

LEMMA OneFuture ==
  ASSUME NEW w, Stack(w), NEW v, NEW s, NEW c \in Nat, NEW d \in Nat, c = 1, d = 0,
         \A i : /\ Count(v, FutureOf(i)) = Count(w, FutureOf(i)) + (IF i = s THEN 1 ELSE 0)
                /\ Count(v, {Do("decPromise", i)}) = Count(w, {Do("decPromise", i)})
  PROVE  More(v, w, s, c, d)
<1> SUFFICES ASSUME NEW i
             PROVE  /\ Count(v, FutureOf(i)) = Count(w, FutureOf(i)) + (IF i = s THEN c ELSE 0)
                    /\ Count(v, {Do("decPromise", i)}) = Count(w, {Do("decPromise", i)}) + (IF i = s THEN d ELSE 0)
  BY DEF More
<1>1. PICK p \in Nat : p = Count(w, {Do("decPromise", i)})
  <2>1. Count(w, {Do("decPromise", i)}) \in Nat BY CountType DEF Stack
  <2> QED BY <2>1
<1>2. p = p + (IF i = s THEN d ELSE 0) OBVIOUS
<1> QED BY <1>1, <1>2

LEMMA CallLinkCounts ==
  ASSUME Shape, Counts, CallLink PROVE Counts'
<1>1. PICK t \in Items, l \in Links, v \in Seq(Items) :
           /\ work # <<>> /\ t = Top /\ t \in Range(work) /\ t.op = "links"
           /\ t.on = Src[l] /\ l \in Range(t.todo)
           /\ life[l] = "linked" /\ l \in Range(box[Src[l]])
           /\ box' = [box EXCEPT ![Src[l]] = RemoveFirst(@, l)]
           /\ life' = [life EXCEPT ![l] = "running"]
           /\ futures' = [futures EXCEPT ![Src[l]] = @ + 1]
           /\ work' = Over(Do("call", l), v)
           /\ Like(v, work)
           /\ \A z \in Range(v) : \E y \in Range(work) : Loses(y, z, "links", l)
           /\ \A y \in Range(work) : \E z \in Range(v) : Loses(y, z, "links", l)
           /\ UNCHANGED <<mode, promises, cancelBox, out, futH, proH, asked>>
  BY CallLinkStep
<1>2. PICK s \in States : s = Src[l] BY Consts
<1>3. PICK x \in Items : x = Do("call", l) /\ x.op = "call" /\ x.on = l BY Made DEF Ops
<1>4. /\ box' \in [States -> Seq(Links)]
      /\ \A y \in Links \union Cancels : life'[y] = IF y = l THEN "running" ELSE life[y]
      /\ \A i \in States : Range(box'[i]) = Range(box[i]) \ {l}
      /\ LivesOn
  BY <1>1, BoxLess
<1>5. work' = Over(x, v) /\ Range(work') = {x} \union Range(v)
  <2>1. work' = Over(x, v) BY <1>1, <1>3
  <2> QED BY <2>1, PushItem
<1>6. mode[s] \in Resolved
  <2>1. Alive(life, l) BY <1>1 DEF Alive
  <2>2. futures[s] > 0 BY <1>2, <2>1, BalanceGives DEF Counts
  <2>3. mode[s] \notin {"unborn", "deleted"} BY <2>2, InPlace DEF Counts
  <2>4. Standing(t) BY <1>1 DEF Counts
  <2> QED BY <1>1, <1>2, <2>3, <2>4 DEF Standing
<1>7. Steady'
  <2>1. work \in Seq(Items) BY DEF Shape, Typed
  <2>2. PICK w \in Seq(Items) : w = Tail(work) /\ work = Over(t, w) BY <1>1, TopFacts
  <2>3. Sound(work) BY <1>1, <2>2, StackFacts DEF Counts
  <2>4. Sound(v) BY <1>1, <2>1, <2>3, SoundLike
  <2>5. x.op # "execute" /\ ~ Held(x) BY <1>3 DEF Held
  <2> QED BY <1>5, <2>4, <2>5, SoundMore DEF Steady
<1>8. PICK c, d \in Nat :
        /\ c = 1 /\ d = 0
        /\ \A i \in States : /\ futures'[i] = futures[i] + (IF i = s THEN c ELSE 0)
                             /\ promises'[i] = promises[i] + (IF i = s THEN d ELSE 0)
  <2>1. futures' = [futures EXCEPT ![s] = @ + 1] /\ UNCHANGED promises BY <1>1, <1>2
  <2>2. Balance BY DEF Counts
  <2> QED BY <2>1, <2>2, MoreFutures
<1>9. \A i : /\ Count(work', FutureOf(i)) = Count(work, FutureOf(i)) + (IF i = s THEN c ELSE 0)
             /\ Count(work', {Do("decPromise", i)}) = Count(work, {Do("decPromise", i)}) + (IF i = s THEN d ELSE 0)
  <2>1. work \in Seq(Items) BY DEF Shape, Typed
  <2>2. \A i : /\ Count(v, FutureOf(i)) = Count(work, FutureOf(i))
               /\ Count(v, {Do("decPromise", i)}) = Count(work, {Do("decPromise", i)})
    BY <1>1, <2>1, CountLike, CountedItems
  <2>3. \A i : /\ Count(Over(Do("call", l), v), FutureOf(i)) = Count(v, FutureOf(i)) + (IF i = Src[l] THEN 1 ELSE 0)
               /\ Count(Over(Do("call", l), v), {Do("decPromise", i)}) = Count(v, {Do("decPromise", i)})
    BY CountCall
  <2>4. \A i : /\ Count(work', FutureOf(i)) = Count(work, FutureOf(i)) + (IF i = s THEN 1 ELSE 0)
               /\ Count(work', {Do("decPromise", i)}) = Count(work, {Do("decPromise", i)})
    BY <1>2, <1>3, <1>5, <2>2, <2>3
  <2>5. Stack(work) /\ c = 1 /\ d = 0 BY <1>8, <2>1 DEF Stack
  <2>6. More(work', work, s, c, d) BY <2>4, <2>5, OneFuture
  <2> QED BY <2>6 DEF More
<1>10. Balance'
  <2>1. \A n \in Links : Alive(life', n) <=> Alive(life, n)
    <3> SUFFICES ASSUME NEW n \in Links PROVE Alive(life', n) <=> Alive(life, n) OBVIOUS
    <3>1. life'[n] = IF n = l THEN "running" ELSE life[n]
      <4>1. n \in Links \union Cancels OBVIOUS
      <4> QED BY <1>4, <4>1
    <3>2. life[l] = "linked" BY <1>1
    <3> QED BY <3>1, <3>2 DEF Alive
  <2>2. UNCHANGED <<futH, proH, out>> BY <1>1
  <2>3. \A i \in States :
          /\ Count(work', FutureOf(i)) = Count(work, FutureOf(i)) + (IF i = s THEN c ELSE 0)
          /\ Count(work', {Do("decPromise", i)}) = Count(work, {Do("decPromise", i)}) + (IF i = s THEN d ELSE 0)
    BY <1>9
  <2>4. \A i \in States : /\ futures'[i] = futures[i] + (IF i = s THEN c ELSE 0)
                          /\ promises'[i] = promises[i] + (IF i = s THEN d ELSE 0)
    BY <1>8
  <2>5. Balance BY DEF Counts
  <2> QED BY <2>1, <2>2, <2>3, <2>4, <2>5, BalanceMore
<1>11. Kept'
  <2>1. mode[s] \notin {"unborn", "deleted"} BY <1>6 DEF Resolved
  <2>2. ASSUME NEW i \in States, box[i] = <<>> PROVE box'[i] = <<>>
    <3>0. Range(<<>>) = {} BY DEF Range
    <3>1. Range(box'[i]) = {} BY <1>4, <2>2, <3>0
    <3> QED BY <1>4, <3>1, NoneLeft
  <2>3. UNCHANGED <<mode, asked, cancelBox>> BY <1>1
  <2> QED BY <1>8, <2>1, <2>2, <2>3, KeptMore DEF Counts
<1>12. Firm /\ UNCHANGED <<mode, cancelBox>> BY <1>1 DEF Firm
<1>13. \A z \in Range(work') : Standing(z)'
  <2> SUFFICES ASSUME NEW z \in Range(v) PROVE Standing(z)'
    <3>1. Standing(x)' BY <1>2, <1>3, <1>6, <1>12 DEF Standing
    <3> QED BY <1>5, <3>1
  <2>1. PICK y \in Range(work) : Loses(y, z, "links", l) BY <1>1
  <2>2. Real(y) /\ Standing(y) BY DEF Shape, Counts
  <2> QED BY <1>12, <2>1, <2>2, StandingLoses
<1>14. Delivering'
  <2>1. \A i \in States : /\ Range(box'[i]) \subseteq Range(box[i]) /\ l \notin Range(box'[i])
                          /\ Range(cancelBox'[i]) \subseteq Range(cancelBox[i])
    BY <1>4, <1>12
  <2>2. \A y \in Range(work) : \E z \in Range(work') : Loses(y, z, "links", l) BY <1>1, <1>5
  <2> QED BY <1>12, <2>1, <2>2, DeliverLess DEF Counts
<1> QED BY <1>7, <1>10, <1>11, <1>13, <1>14 DEF Counts

(* An alive continuation keeps its state, which has not gone.                *)
LEMMA AliveKeeps ==
  ASSUME Shape, Balance, Kept, NEW l \in Links, Alive(life, l)
  PROVE  futures[Src[l]] > 0 /\ mode[Src[l]] \notin {"unborn", "deleted"}
<1>1. Src[l] \in States BY Consts
<1>2. futures[Src[l]] > 0 BY <1>1, BalanceGives
<1> QED BY <1>1, <1>2, InPlace

LEMMA CallCancelCounts ==
  ASSUME Shape, Counts, Safe, CallCancel PROVE Counts'
<1>1. PICK t \in Items, x \in Chains \union Cancels, v \in Seq(Items) :
           /\ work # <<>> /\ t = Top /\ t \in Range(work) /\ t.op = "cancels"
           /\ t.on \in States /\ t.on = On(x)
           /\ t.todo # <<>> /\ x = Head(t.todo) /\ x \in Range(t.todo)
           /\ life[x] # "unborn"
           /\ cancelBox' = [cancelBox EXCEPT ![t.on] = RemoveFirst(@, x)]
           /\ \/ /\ x \in Chains
                 /\ futures' = [futures EXCEPT ![Src[x]] = @ + 1] /\ life' = life
                 /\ work' = Over(Do("delete", x), Over(Do("cancel", Src[x]),
                                                       Over(Do("decFuture", Src[x]), v)))
              \/ /\ x \in Cancels
                 /\ futures' = futures /\ life' = [life EXCEPT ![x] = "running"]
                 /\ work' = Over(Do("call", x), v)
           /\ Like(v, work)
           /\ \A z \in Range(v) : \E y \in Range(work) : Loses(y, z, "cancels", x)
           /\ \A y \in Range(work) : \E z \in Range(v) : Loses(y, z, "cancels", x)
           /\ UNCHANGED <<mode, promises, box, out, futH, proH, asked>>
  BY CallCancelStep
<1>2. PICK s \in States : s = t.on /\ On(x) = s BY <1>1
<1>3. /\ cancelBox' \in [States -> Seq(Chains \union Cancels)]
      /\ \A y \in Links \union Cancels :
           life'[y] = IF y = x /\ x \in Cancels THEN "running" ELSE life[y]
      /\ \A i \in States : Range(cancelBox'[i]) = Range(cancelBox[i]) \ {x}
  <2>1. life' = IF x \in Cancels THEN [life EXCEPT ![x] = "running"] ELSE life BY <1>1, Consts
  <2>2. cancelBox' = [cancelBox EXCEPT ![s] = RemoveFirst(@, x)] /\ UNCHANGED box /\ life[x] # "unborn"
    BY <1>1, <1>2
  <2> QED BY <1>2, <2>1, <2>2, CancelBoxLess
<1>4. \A n \in Links : Alive(life', n) <=> Alive(life, n)
  <2> SUFFICES ASSUME NEW n \in Links PROVE Alive(life', n) <=> Alive(life, n) OBVIOUS
  <2>1. n \in Links \union Cancels /\ n \notin Cancels BY Consts
  <2>2. life'[n] = life[n] BY <1>3, <2>1
  <2> QED BY <2>2 DEF Alive
<1>5. work \in Seq(Items) BY DEF Shape, Typed
<1>6. Sound(v)
  <2>1. PICK w \in Seq(Items) : w = Tail(work) /\ work = Over(t, w) BY <1>1, TopFacts
  <2>2. Sound(work) BY <1>1, <2>1, StackFacts DEF Counts
  <2> QED BY <1>1, <1>5, <2>2, SoundLike
<1>7. \A i : /\ Count(v, FutureOf(i)) = Count(work, FutureOf(i))
             /\ Count(v, {Do("decPromise", i)}) = Count(work, {Do("decPromise", i)})
  BY <1>1, <1>5, CountLike, CountedItems
<1>8. Firm BY <1>1 DEF Firm
<1>9. ASSUME NEW z \in Range(v) PROVE Standing(z)'
  <2>1. PICK y \in Range(work) : Loses(y, z, "cancels", x) BY <1>1, <1>9
  <2>2. Real(y) /\ Standing(y) BY DEF Shape, Counts
  <2>3. \A i \in States : \A n \in Range(cancelBox[i]) : n \in Range(cancelBox'[i]) \/ n = x BY <1>3
  <2> QED BY <1>8, <2>1, <2>2, <2>3, StandingLoses
<1>10. ASSUME Range(v) \subseteq Range(work') PROVE Delivering'
  <2>1. \A i \in States : /\ Range(cancelBox'[i]) \subseteq Range(cancelBox[i])
                          /\ x \notin Range(cancelBox'[i])
                          /\ Range(box'[i]) \subseteq Range(box[i])
    BY <1>1, <1>3
  <2>2. \A y \in Range(work) : \E z \in Range(work') : Loses(y, z, "cancels", x) BY <1>1, <1>10
  <2>3. UNCHANGED mode BY <1>1
  <2> QED BY <2>1, <2>2, <2>3, DeliverLess DEF Counts
<1>11. \A i \in States : cancelBox[i] = <<>> => cancelBox'[i] = <<>>
  <2> SUFFICES ASSUME NEW i \in States, cancelBox[i] = <<>> PROVE cancelBox'[i] = <<>> OBVIOUS
  <2>1. Range(<<>>) = {} BY DEF Range
  <2>2. Range(cancelBox'[i]) = {} /\ cancelBox'[i] \in Seq(Chains \union Cancels) BY <1>3, <2>1
  <2> QED BY <2>2, NoneLeft
<1>12. CASE x \in Cancels
  <2>1. futures' = futures /\ work' = Over(Do("call", x), v) BY <1>1, <1>12, Consts
  <2>2. PICK y \in Items : y = Do("call", x) /\ y.op = "call" /\ y.on = x BY <1>12, Made DEF Ops
  <2>3. x \notin Links BY <1>12, Consts
  <2>4. work' = Over(y, v) /\ Range(work') = {y} \union Range(v)
    <3>1. work' = Over(y, v) BY <2>1, <2>2
    <3> QED BY <3>1, PushItem
  <2>5. Plain(y) BY <2>2, <2>3 DEF Plain
  <2>6. \A i : /\ Count(Over(y, v), FutureOf(i)) = Count(v, FutureOf(i))
               /\ Count(Over(y, v), {Do("decPromise", i)}) = Count(v, {Do("decPromise", i)})
    BY <2>5, Uncounted
  <2>7. \A i \in States : /\ Count(work', FutureOf(i)) = Count(work, FutureOf(i))
                          /\ Count(work', {Do("decPromise", i)}) = Count(work, {Do("decPromise", i)})
    BY <1>7, <2>4, <2>6
  <2>8. Balance'
    <3>1. UNCHANGED <<futures, promises, futH, proH, out>> BY <1>1, <2>1
    <3> QED BY <1>4, <2>7, <3>1, BalanceFrame DEF Counts
  <2>9. Kept' BY <1>1, <1>11, <2>1 DEF Counts, Kept
  <2>10. Steady'
    <3>1. y.op # "execute" /\ ~ Held(y) BY <2>2 DEF Held
    <3> QED BY <1>6, <2>4, <3>1, SoundMore DEF Steady
  <2>11. \A z \in Range(work') : Standing(z)'
    <3>1. Standing(y)' BY <2>2, <2>3 DEF Standing
    <3> QED BY <1>9, <2>4, <3>1
  <2>12. Delivering' BY <1>10, <2>4
  <2> QED BY <2>8, <2>9, <2>10, <2>11, <2>12 DEF Counts
<1>13. CASE x \in Chains
  <2>1. PICK r \in States : r = Src[x] BY <1>13, Consts DEF Chains
  <2>2. futures' = [futures EXCEPT ![r] = @ + 1]
        /\ work' = Over(Do("delete", x), Over(Do("cancel", r), Over(Do("decFuture", r), v)))
    BY <1>1, <1>13, <2>1, Consts
  <2>3. PICK a, b, c \in Items :
          /\ a = Do("delete", x) /\ a.op = "delete" /\ b = Do("cancel", r) /\ b.op = "cancel" /\ b.on = r
          /\ c = Do("decFuture", r) /\ c.op = "decFuture"
    BY <1>13, Made DEF Ops, Chains
  <2>4. PICK u \in Seq(Items) : u = Over(c, v) /\ Range(u) = {c} \union Range(v) BY PushItem
  <2>5. PICK q \in Seq(Items) : q = Over(b, u) /\ Range(q) = {b} \union Range(u) BY PushItem
  <2>6. work' = Over(a, q) /\ Range(work') = {a} \union Range(q)
    <3>1. work' = Over(a, q) BY <2>2, <2>3, <2>4, <2>5
    <3> QED BY <3>1, PushItem
  <2>7. Sound(u)
    <3>1. c.op # "execute" /\ ~ Held(c) BY <2>3 DEF Held
    <3> QED BY <1>6, <2>4, <3>1, SoundMore
  <2>8. Sound(q)
    <3>1. c \in Guards(b) BY <2>3 DEF Guards
    <3>2. Guarded(b, u) BY <2>4, <3>1 DEF Guarded
    <3>3. b.op # "execute" BY <2>3
    <3> QED BY <2>5, <2>7, <3>2, <3>3, SoundOver
  <2>9. Steady'
    <3>1. a.op # "execute" /\ ~ Held(a) BY <2>3 DEF Held
    <3> QED BY <2>6, <2>8, <3>1, SoundMore DEF Steady
  <2>10. \A z \in Range(work') : Standing(z)'
    <3>1. Standing(a)' /\ Standing(b)' /\ Standing(c)' BY <2>3 DEF Standing
    <3> QED BY <1>9, <2>4, <2>5, <2>6, <3>1
  <2>11. Delivering' BY <1>10, <2>4, <2>5, <2>6
  <2>12. mode[r] \notin {"unborn", "deleted"}
    <3>1. Is("cancels") /\ Top.todo # <<>> /\ Head(Top.todo) = x BY <1>1 DEF Is
    <3>2. x \in Links BY <1>13 DEF Chains
    <3>3. life[x] \notin {"deleted", "unborn"} BY <1>1, <3>1, <3>2 DEF Safe
    <3>4. life[x] \in {"unborn", "linked", "running", "deleted"} BY <3>2 DEF Shape, Typed
    <3>5. Alive(life, x) BY <3>3, <3>4 DEF Alive
    <3> QED BY <2>1, <3>2, <3>5, AliveKeeps DEF Counts
  <2>13. PICK m, n \in Nat :
          /\ m = 1 /\ n = 0
          /\ \A i \in States : /\ futures'[i] = futures[i] + (IF i = r THEN m ELSE 0)
                               /\ promises'[i] = promises[i] + (IF i = r THEN n ELSE 0)
    BY <1>1, <2>2, MoreFutures DEF Counts
  <2>14. More(work', work, r, m, n)
    <3>1. \A i : /\ Count(Over(Do("decFuture", r), v), FutureOf(i)) = Count(v, FutureOf(i)) + (IF i = r THEN 1 ELSE 0)
                 /\ Count(Over(Do("decFuture", r), v), {Do("decPromise", i)}) = Count(v, {Do("decPromise", i)})
      BY CountFuture
    <3>2. Plain(b) /\ Plain(a) BY <2>3 DEF Plain
    <3>3. \A i : /\ Count(Over(b, u), FutureOf(i)) = Count(u, FutureOf(i))
                 /\ Count(Over(b, u), {Do("decPromise", i)}) = Count(u, {Do("decPromise", i)})
      BY <3>2, Uncounted
    <3>4. \A i : /\ Count(Over(a, q), FutureOf(i)) = Count(q, FutureOf(i))
                 /\ Count(Over(a, q), {Do("decPromise", i)}) = Count(q, {Do("decPromise", i)})
      BY <3>2, Uncounted
    <3>5. \A i : /\ Count(work', FutureOf(i)) = Count(work, FutureOf(i)) + (IF i = r THEN 1 ELSE 0)
                 /\ Count(work', {Do("decPromise", i)}) = Count(work, {Do("decPromise", i)})
      <4>1. \A i : /\ Count(u, FutureOf(i)) = Count(work, FutureOf(i)) + (IF i = r THEN 1 ELSE 0)
                   /\ Count(u, {Do("decPromise", i)}) = Count(work, {Do("decPromise", i)})
        BY <1>7, <2>3, <2>4, <3>1
      <4>2. \A i : /\ Count(q, FutureOf(i)) = Count(u, FutureOf(i))
                   /\ Count(q, {Do("decPromise", i)}) = Count(u, {Do("decPromise", i)})
        BY <2>5, <3>3
      <4>3. \A i : /\ Count(work', FutureOf(i)) = Count(q, FutureOf(i))
                   /\ Count(work', {Do("decPromise", i)}) = Count(q, {Do("decPromise", i)})
        BY <2>6, <3>4
      <4> QED BY <4>1, <4>2, <4>3
    <3>6. Stack(work) /\ m = 1 /\ n = 0 BY <1>5, <2>13 DEF Stack
    <3> QED BY <3>5, <3>6, OneFuture
  <2>15. Balance'
    <3>1. \A i \in States :
            /\ Count(work', FutureOf(i)) = Count(work, FutureOf(i)) + (IF i = r THEN m ELSE 0)
            /\ Count(work', {Do("decPromise", i)}) = Count(work, {Do("decPromise", i)}) + (IF i = r THEN n ELSE 0)
      BY <2>14 DEF More
    <3>2. \A i \in States : /\ futures'[i] = futures[i] + (IF i = r THEN m ELSE 0)
                            /\ promises'[i] = promises[i] + (IF i = r THEN n ELSE 0)
      BY <2>13
    <3>3. UNCHANGED <<futH, proH, out>> BY <1>1
    <3>4. Balance BY DEF Counts
    <3> QED BY <1>4, <3>1, <3>2, <3>3, <3>4, BalanceMore
  <2>16. Kept'
    <3>1. \A i \in States : /\ futures'[i] = futures[i] + (IF i = r THEN m ELSE 0)
                            /\ promises'[i] = promises[i] + (IF i = r THEN n ELSE 0)
      BY <2>13
    <3>2. UNCHANGED <<mode, asked, box>> BY <1>1
    <3> QED BY <1>11, <2>12, <3>1, <3>2, KeptMore DEF Counts
  <2> QED BY <2>9, <2>10, <2>11, <2>15, <2>16 DEF Counts
<1> QED BY <1>12, <1>13

(* The numbers when a continuation is destroyed: its place in the count goes *)
(* to the calls that give back what it held.                                 *)
LEMMA DeleteBalance ==
  ASSUME Shape, Balance, NEW l \in Links, Alive(life, l), ~ Alive(life', l),
         \A n \in Links : n # l => (Alive(life, n) <=> Alive(life', n)),
         out' = out \ {l}, UNCHANGED <<futures, promises, futH, proH>>,
         \A i \in States :
           /\ Count(work', FutureOf(i)) = Count(work, FutureOf(i)) + (IF i = Src[l] THEN 1 ELSE 0)
           /\ Count(work', {Do("decPromise", i)})
                = Count(work, {Do("decPromise", i)}) + (IF l \in out /\ i = Dst[l] THEN 1 ELSE 0)
  PROVE  Balance'
<1> SUFFICES ASSUME NEW i \in States
             PROVE  /\ IsFiniteSet(Live(life', i))
                    /\ futures'[i] = futH'[i] + Count(work', FutureOf(i)) + Cardinality(Live(life', i))
                    /\ promises'[i] = proH'[i] + Count(work', {Do("decPromise", i)}) + Cardinality(Ends(out', i))
  BY DEF Balance
<1>1. PICK f, p, a, b \in Nat :
           /\ f = Count(work, FutureOf(i)) /\ p = Count(work, {Do("decPromise", i)})
           /\ IsFiniteSet(Live(life, i)) /\ a = Cardinality(Live(life, i))
           /\ b = Cardinality(Ends(out, i))
           /\ futH[i] \in Nat /\ proH[i] \in Nat
           /\ futures[i] = futH[i] + f + a /\ promises[i] = proH[i] + p + b
  BY BalanceAt
<1>2. PICK g : g = life' OBVIOUS
<1>3. /\ IsFiniteSet(Live(life, i)) <=> IsFiniteSet(Live(g, i))
      /\ IsFiniteSet(Live(g, i)) =>
              /\ Cardinality(Live(g, i)) \in Nat
              /\ Cardinality(Live(life, i)) = Cardinality(Live(g, i)) + (IF i = Src[l] THEN 1 ELSE 0)
  BY <1>2, LiveStep
<1>4. PICK e \in Nat : /\ IsFiniteSet(Live(life', i)) /\ e = Cardinality(Live(life', i))
                       /\ a = e + (IF i = Src[l] THEN 1 ELSE 0)
  BY <1>1, <1>2, <1>3
<1>5. PICK h \in Nat : /\ h = Cardinality(Ends(out', i))
                       /\ b = h + (IF l \in out /\ i = Dst[l] THEN 1 ELSE 0)
  <2>1. out \in SUBSET Chains /\ out' \in SUBSET Chains BY DEF Shape, Typed
  <2>2. b = IF \E n \in out : Dst[n] = i THEN 1 ELSE 0 BY <1>1, <2>1, EndsFacts
  <2>3. Cardinality(Ends(out', i)) = IF \E n \in out' : Dst[n] = i THEN 1 ELSE 0 BY <2>1, EndsFacts
  <2>4. \A n \in out : Dst[n] = Dst[l] /\ l \in out => n = l BY <2>1, Consts
  <2>5. CASE l \in out /\ i = Dst[l] BY <2>2, <2>3, <2>4, <2>5
  <2>6. CASE ~ (l \in out /\ i = Dst[l]) BY <2>2, <2>3, <2>6
  <2> QED BY <2>5, <2>6
<1>6. /\ Count(work', FutureOf(i)) = f + (IF i = Src[l] THEN 1 ELSE 0)
      /\ Count(work', {Do("decPromise", i)}) = p + (IF l \in out /\ i = Dst[l] THEN 1 ELSE 0)
  BY <1>1
<1> QED BY <1>1, <1>4, <1>5, <1>6

LEMMA DeleteCounts ==
  ASSUME Shape, Counts, Safe, Delete PROVE Counts'
<1>1. PICK l \in Links, w \in Seq(Items), v \in Seq(Items) :
           /\ work # <<>> /\ Top = Do("delete", l) /\ w = Tail(work)
           /\ work = Over(Do("delete", l), w) /\ Range(work) = {Do("delete", l)} \union Range(w)
           /\ life[l] # "unborn"
           /\ life' = [life EXCEPT ![l] = "deleted"]
           /\ box' = [box EXCEPT ![Src[l]] = RemoveFirst(@, l)]
           /\ out' = out \ {l}
           /\ work' = Over(Do("decFuture", Src[l]),
                           IF l \in out THEN Over(Do("decPromise", Dst[l]), v) ELSE v)
           /\ Like(v, w)
           /\ \A z \in Range(v) : \E y \in Range(w) : Loses(y, z, "links", l)
           /\ \A y \in Range(w) : \E z \in Range(v) : Loses(y, z, "links", l)
           /\ UNCHANGED <<mode, futures, promises, cancelBox, futH, proH, asked>>
  BY DeleteStep
<1>2. PICK s \in States : s = Src[l] BY Consts
<1>3. PICK t, a \in Items : /\ t = Do("delete", l) /\ t.op = "delete" /\ t.on = l
                            /\ a = Do("decFuture", s) /\ a.op = "decFuture"
  BY Made DEF Ops
<1>4. t = Top /\ w = Tail(work) /\ work = Over(t, w) /\ Range(work) = {t} \union Range(w) BY <1>1, <1>3
<1>5. PICK u \in Seq(Items) :
        /\ u = IF l \in out THEN Over(Do("decPromise", Dst[l]), v) ELSE v
        /\ Range(v) \subseteq Range(u)
        /\ \A z \in Range(u) : z \in Range(v) \/ z.op = "decPromise"
        /\ Sound(v) => Sound(u)
        /\ \A i : /\ Count(u, FutureOf(i)) = Count(v, FutureOf(i))
                  /\ l \in out => Count(u, {Do("decPromise", i)})
                                    = Count(v, {Do("decPromise", i)}) + (IF i = Dst[l] THEN 1 ELSE 0)
                  /\ l \notin out => Count(u, {Do("decPromise", i)}) = Count(v, {Do("decPromise", i)})
  <2>1. CASE l \notin out BY <2>1
  <2>2. CASE l \in out
    <3>1. PICK d \in States : d = Dst[l] BY <2>2, Consts DEF Shape, Typed
    <3>2. PICK b \in Items : b = Do("decPromise", d) /\ b.op = "decPromise" BY Made DEF Ops
    <3>3. PICK u \in Seq(Items) : u = Over(b, v) /\ Range(u) = {b} \union Range(v) BY PushItem
    <3>4. Sound(v) => Sound(u)
      <4>1. b.op # "execute" /\ ~ Held(b) BY <3>2 DEF Held
      <4> QED BY <3>3, <4>1, SoundMore
    <3>5. \A i : /\ Count(Over(Do("decPromise", d), v), {Do("decPromise", i)})
                      = Count(v, {Do("decPromise", i)}) + (IF i = d THEN 1 ELSE 0)
                 /\ Count(Over(Do("decPromise", d), v), FutureOf(i)) = Count(v, FutureOf(i))
      BY CountPromise
    <3>6. \A i : /\ Count(u, {Do("decPromise", i)})
                      = Count(v, {Do("decPromise", i)}) + (IF i = Dst[l] THEN 1 ELSE 0)
                 /\ Count(u, FutureOf(i)) = Count(v, FutureOf(i))
      BY <3>1, <3>2, <3>3, <3>5
    <3>7. u = IF l \in out THEN Over(Do("decPromise", Dst[l]), v) ELSE v BY <2>2, <3>1, <3>2, <3>3
    <3> QED BY <2>2, <3>2, <3>3, <3>4, <3>6, <3>7
  <2> QED BY <2>1, <2>2
<1>6. work' = Over(a, u) /\ Range(work') = {a} \union Range(u)
  <2>1. work' = Over(a, u) BY <1>1, <1>2, <1>3, <1>5
  <2> QED BY <2>1, PushItem
<1>7. /\ box' \in [States -> Seq(Links)]
      /\ \A y \in Links \union Cancels : life'[y] = IF y = l THEN "deleted" ELSE life[y]
      /\ \A i \in States : Range(box'[i]) = Range(box[i]) \ {l}
  <2>1. life[l] # "unborn" /\ life' = [life EXCEPT ![l] = "deleted"]
        /\ box' = [box EXCEPT ![Src[l]] = RemoveFirst(@, l)] /\ UNCHANGED cancelBox
    BY <1>1
  <2> QED BY <2>1, BoxLess
<1>8. Alive(life, l)
  <2>1. Is("delete") /\ Top.on = l BY <1>1, <1>3 DEF Is
  <2>2. life[l] # "deleted" BY <2>1 DEF Safe
  <2>3. life[l] \in {"unborn", "linked", "running", "deleted"} BY DEF Shape, Typed
  <2> QED BY <1>1, <2>2, <2>3 DEF Alive
<1>9. Steady'
  <2>1. Sound(w) BY <1>1, <1>4, StackFacts DEF Counts
  <2>2. Sound(v) BY <1>1, <2>1, SoundLike
  <2>3. a.op # "execute" /\ ~ Held(a) BY <1>3 DEF Held
  <2> QED BY <1>5, <1>6, <2>2, <2>3, SoundMore DEF Steady
<1>10. Balance'
  <2>1. ~ Alive(life', l) /\ \A n \in Links : n # l => (Alive(life, n) <=> Alive(life', n))
    <3>1. l \in Links \union Cancels /\ \A n \in Links : n \in Links \union Cancels OBVIOUS
    <3> QED BY <1>7, <3>1 DEF Alive
  <2>2. \A i : /\ Count(v, FutureOf(i)) = Count(w, FutureOf(i))
               /\ Count(v, {Do("decPromise", i)}) = Count(w, {Do("decPromise", i)})
    <3>1. Like(v, w) BY <1>1
    <3> QED BY <3>1, CountLike, CountedItems
  <2>3. \A i : /\ Count(work, FutureOf(i)) = Count(w, FutureOf(i))
               /\ Count(work, {Do("decPromise", i)}) = Count(w, {Do("decPromise", i)})
    <3>1. Plain(t) BY <1>3 DEF Plain
    <3>2. \A i : /\ Count(Over(t, w), FutureOf(i)) = Count(w, FutureOf(i))
                 /\ Count(Over(t, w), {Do("decPromise", i)}) = Count(w, {Do("decPromise", i)})
      BY <3>1, Uncounted
    <3> QED BY <1>4, <3>2
  <2>4. \A i : /\ Count(work', FutureOf(i)) = Count(u, FutureOf(i)) + (IF i = s THEN 1 ELSE 0)
               /\ Count(work', {Do("decPromise", i)}) = Count(u, {Do("decPromise", i)})
    <3>1. \A i : /\ Count(Over(Do("decFuture", s), u), FutureOf(i)) = Count(u, FutureOf(i)) + (IF i = s THEN 1 ELSE 0)
                 /\ Count(Over(Do("decFuture", s), u), {Do("decPromise", i)}) = Count(u, {Do("decPromise", i)})
      BY CountFuture
    <3> QED BY <1>3, <1>6, <3>1
  <2>5. \A i \in States :
           Count(work', FutureOf(i)) = Count(work, FutureOf(i)) + (IF i = Src[l] THEN 1 ELSE 0)
    BY <1>2, <1>5, <2>2, <2>3, <2>4
  <2>6. \A i \in States :
           Count(work', {Do("decPromise", i)})
                = Count(work, {Do("decPromise", i)}) + (IF l \in out /\ i = Dst[l] THEN 1 ELSE 0)
    <3>1. CASE l \in out BY <1>5, <2>2, <2>3, <2>4, <3>1
    <3>2. CASE l \notin out
      <4>1. \A i : Count(work', {Do("decPromise", i)}) = Count(work, {Do("decPromise", i)})
        BY <1>5, <2>2, <2>3, <2>4, <3>2
      <4>2. \A i : Count(work, {Do("decPromise", i)}) \in Nat BY CountType DEF Shape, Typed
      <4>3. \A i \in Nat : i + 0 = i OBVIOUS
      <4> QED BY <3>2, <4>1, <4>2, <4>3
    <3> QED BY <3>1, <3>2
  <2>7. UNCHANGED <<futures, promises, futH, proH>> /\ out' = out \ {l} /\ Balance BY <1>1 DEF Counts
  <2> QED BY <1>8, <2>1, <2>5, <2>6, <2>7, DeleteBalance
<1>11. Kept'
  <2>1. ASSUME NEW i \in States, box[i] = <<>> PROVE box'[i] = <<>>
    <3>1. Range(<<>>) = {} BY DEF Range
    <3>2. Range(box'[i]) = {} /\ box'[i] \in Seq(Links) BY <1>7, <2>1, <3>1
    <3> QED BY <3>2, NoneLeft
  <2> QED BY <1>1, <2>1 DEF Counts, Kept
<1>12. Firm BY <1>1 DEF Firm
<1>13. \A z \in Range(work') : Standing(z)'
  <2>1. Standing(a)' BY <1>3 DEF Standing
  <2>2. ASSUME NEW z, z.op = "decPromise" PROVE Standing(z)' BY <2>2 DEF Standing
  <2>3. ASSUME NEW z \in Range(v) PROVE Standing(z)'
    <3>1. PICK y \in Range(w) : Loses(y, z, "links", l) BY <1>1, <2>3
    <3>2. y \in Range(work) BY <1>4
    <3>3. Real(y) /\ Standing(y) BY <3>2 DEF Shape, Counts
    <3>4. UNCHANGED cancelBox BY <1>1
    <3> QED BY <1>12, <3>1, <3>3, <3>4, StandingLoses
  <2> QED BY <1>5, <1>6, <2>1, <2>2, <2>3
<1>14. Delivering'
  <2>1. \A i \in States : /\ Range(box'[i]) \subseteq Range(box[i]) /\ l \notin Range(box'[i])
                          /\ Range(cancelBox'[i]) \subseteq Range(cancelBox[i])
    BY <1>1, <1>7
  <2>2. \A y \in Range(work) : y.op \in {"execute", "activate", "links", "cancels"}
          => \E z \in Range(work') : Loses(y, z, "links", l)
    BY <1>1, <1>3, <1>4, <1>5, <1>6
  <2>3. UNCHANGED mode BY <1>1
  <2> QED BY <2>1, <2>2, <2>3, DeliverLess DEF Counts
<1> QED BY <1>9, <1>10, <1>11, <1>13, <1>14 DEF Counts

LEMMA CountsInit == Init => Counts
<1> SUFFICES ASSUME Init PROVE Counts OBVIOUS
<1>1. \A E : Count(<<>>, E) = 0
  <2>1. \A E : {i \in DOMAIN <<>> : <<>>[i] \in E} = {} OBVIOUS
  <2> QED BY <2>1, FS_EmptySet DEF Count
<1>2. Balance
  <2> SUFFICES ASSUME NEW s \in States
               PROVE  /\ IsFiniteSet(Live(life, s))
                      /\ futures[s] = futH[s] + Count(work, FutureOf(s)) + Cardinality(Live(life, s))
                      /\ promises[s] = proH[s] + Count(work, {Do("decPromise", s)}) + Cardinality(Ends(out, s))
    BY DEF Balance
  <2>1. Live(life, s) = {} BY DEF Init, Live, Alive
  <2>2. Ends(out, s) = {} BY DEF Init, Ends
  <2>3. futures[s] = 0 /\ promises[s] = 0 /\ futH[s] = 0 /\ proH[s] = 0 /\ work = <<>> BY DEF Init
  <2> QED BY <1>1, <2>1, <2>2, <2>3, FS_EmptySet
<1>3. Kept BY DEF Init, Kept, Resolved
<1>4. work = <<>> /\ Range(<<>>) = {} BY DEF Init, Range
<1>5. Sound(<<>>) BY DEF Sound
<1>6. Delivering BY DEF Init, Delivering, Resolved
<1> QED BY <1>2, <1>3, <1>4, <1>5, <1>6 DEF Counts, Steady

LEMMA CountsStays ==
  ASSUME Counts, UNCHANGED vars PROVE Counts'
<1>1. Balance' BY DEF vars, Counts, Balance
<1>2. Kept' BY DEF vars, Counts, Kept
<1>3. \A x \in Range(work') : Standing(x)' BY DEF vars, Counts, Standing
<1>4. Steady' BY DEF vars, Counts, Steady, Top
<1>5. Delivering' BY DEF vars, Counts, Delivering, Delivers, DeliversCancel
<1> QED BY <1>1, <1>2, <1>3, <1>4, <1>5 DEF Counts

(* The counts go wrong only where a continuation is destroyed twice.         *)
LEMMA CountsStep ==
  ASSUME Shape, Counts, Safe, [Next]_vars PROVE Counts'
<1>1. CASE Internal
  BY <1>1, DecCounts, ExecuteCounts, ActivateCounts, CallLinkCounts, CallCancelCounts,
     MethodEndsCounts, DeleteCounts, CancelSourceCounts DEF Internal
<1>2. ASSUME NEW b \in BOOLEAN, Return(b) PROVE Counts' BY <1>2, ReturnCounts
<1>3. ASSUME NEW s \in States,
             \/ NewPromise(s) \/ CopyPromise(s) \/ GetFuture(s)
             \/ DropPromise(s) \/ DropFuture(s)
             \/ ResolveValue(s) \/ ResolveCancel(s)
      PROVE  Counts'
  BY <1>3, NewPromiseCounts, CopyPromiseCounts, GetFutureCounts, DropPromiseCounts,
     DropFutureCounts, ResolveValueCounts, ResolveCancelCounts
<1>4. ASSUME NEW l \in Links, Then(l) \/ Chain(l) \/ FlushOwner(l) PROVE Counts'
  BY <1>4, ThenCounts, ChainCounts, FlushOwnerCounts
<1>5. ASSUME NEW k \in Cancels, OnCancel(k) \/ FlushCancel(k) PROVE Counts'
  BY <1>5, OnCancelCounts, FlushCancelCounts
<1>6. CASE UNCHANGED vars BY <1>6, CountsStays
<1> QED BY <1>1, <1>2, <1>3, <1>4, <1>5, <1>6 DEF Next

-----------------------------------------------------------------------------
(* What the counts say, in the words of Future.                              *)
LEMMA CountedFacts ==
  ASSUME Shape, Counts PROVE Counted
<1> SUFFICES ASSUME NEW s \in States
             PROVE  /\ futures[s] = futH[s] + InUse("decFuture", s)
                         + Cardinality({l \in Links : Src[l] = s /\ life[l] \in {"linked", "running"}})
                         + Quantify(DOMAIN work, LAMBDA i : /\ work[i].op = "call" /\ work[i].on \in Links
                                                            /\ Src[work[i].on] = s)
                    /\ promises[s] = proH[s] + InUse("decPromise", s)
                         + Cardinality({l \in out : Dst[l] = s})
  BY DEF Counted
<1>1. PICK f, p, a, b \in Nat :
           /\ f = Count(work, FutureOf(s)) /\ p = Count(work, {Do("decPromise", s)})
           /\ IsFiniteSet(Live(life, s)) /\ a = Cardinality(Live(life, s))
           /\ b = Cardinality(Ends(out, s))
           /\ futH[s] \in Nat /\ proH[s] \in Nat
           /\ futures[s] = futH[s] + f + a /\ promises[s] = proH[s] + p + b
  BY BalanceAt DEF Counts
<1>2. PICK I, C, D, E :
        /\ I = {i \in DOMAIN work : work[i] \in FutureOf(s)}
        /\ C = {i \in DOMAIN work : work[i] = Do("decFuture", s)}
        /\ D = {i \in DOMAIN work : work[i].op = "call" /\ work[i].on \in Links /\ Src[work[i].on] = s}
        /\ E = {i \in DOMAIN work : work[i] = Do("decPromise", s)}
  OBVIOUS
<1>3. I = C \union D /\ C \cap D = {}
  <2>1. ASSUME NEW i \in DOMAIN work
        PROVE  work[i].op = "call" /\ work[i].on \in Links /\ Src[work[i].on] = s
                 <=> work[i] \in CallsOn(s)
    <3>1. work[i] \in Items /\ Real(work[i]) BY DEF Shape, Typed, Range
    <3>2. work[i].op = "call" => work[i] = Do("call", work[i].on) BY <3>1, Same DEF Real
    <3>3. \A o, n : Do(o, n).op = o /\ Do(o, n).on = n BY DEF Do
    <3> QED BY <3>2, <3>3 DEF CallsOn
  <2>2. Do("decFuture", s).op = "decFuture" BY DEF Do
  <2> QED BY <1>2, <2>1, <2>2 DEF FutureOf
<1>4. IsFiniteSet(C) /\ IsFiniteSet(D) /\ IsFiniteSet(I)
  <2>1. PICK n \in Nat : DOMAIN work = 1 .. n
    <3>1. work \in Seq(Items) BY DEF Shape, Typed
    <3> QED BY <3>1
  <2>2. IsFiniteSet(DOMAIN work) BY <2>1, FS_Interval
  <2>3. C \in SUBSET DOMAIN work /\ D \in SUBSET DOMAIN work /\ I \in SUBSET DOMAIN work BY <1>2
  <2> QED BY <2>2, <2>3, FS_Subset
<1>5. Cardinality(I) = Cardinality(C) + Cardinality(D)
  <2>1. Cardinality(C \union D) = Cardinality(C) + Cardinality(D) - Cardinality(C \cap D) BY <1>4, FS_Union
  <2>2. Cardinality(C \cap D) = 0 BY <1>3, FS_EmptySet
  <2>3. Cardinality(C) \in Nat /\ Cardinality(D) \in Nat BY <1>4, FS_CardinalityType
  <2> QED BY <1>3, <2>1, <2>2, <2>3
<1>6. f = Cardinality(I) /\ InUse("decFuture", s) = Cardinality(C)
      /\ Quantify(DOMAIN work, LAMBDA i : /\ work[i].op = "call" /\ work[i].on \in Links
                                          /\ Src[work[i].on] = s) = Cardinality(D)
  BY <1>1, <1>2 DEF Count, InUse, Quantify
<1>7. p = InUse("decPromise", s)
  <2>1. E = {i \in DOMAIN work : work[i] \in {Do("decPromise", s)}} BY <1>2
  <2>2. p = Cardinality(E) BY <1>1, <2>1 DEF Count
  <2>3. InUse("decPromise", s) = Cardinality(E) BY <1>2 DEF InUse, Quantify
  <2> QED BY <2>2, <2>3
<1>8. a = Cardinality({l \in Links : Src[l] = s /\ life[l] \in {"linked", "running"}})
      /\ b = Cardinality({l \in out : Dst[l] = s})
  BY <1>1 DEF Live, Alive, Ends
<1>9. Cardinality(C) \in Nat /\ Cardinality(D) \in Nat BY <1>4, FS_CardinalityType
<1>10. futures[s] = futH[s] + Cardinality(C) + a + Cardinality(D) BY <1>1, <1>5, <1>6, <1>9
<1>11. promises[s] = proH[s] + p + b BY <1>1
<1>12. /\ futures[s] = futH[s] + InUse("decFuture", s)
                         + Cardinality({l \in Links : Src[l] = s /\ life[l] \in {"linked", "running"}})
                         + Cardinality(D)
       /\ promises[s] = proH[s] + InUse("decPromise", s) + Cardinality({l \in out : Dst[l] = s})
  BY <1>6, <1>7, <1>8, <1>10, <1>11
<1> QED BY <1>6, <1>12

(* What the asserts ask follows from the counts.                             *)
LEMMA AssertsFacts ==
  ASSUME Shape, Counts PROVE AssertsHold
<1>1. CASE work = <<>> BY <1>1 DEF AssertsHold, Is
<1>2. CASE work # <<>>
  <2>1. PICK t \in Items : t = Top /\ Real(t) /\ t \in Range(work)
    <3>1. PICK t \in Items, w \in Seq(Items) :
            t = Top /\ Real(t) /\ Range(work) = {t} \union Range(w)
      BY <1>2, TopFacts
    <3> QED BY <3>1
  <2>2. ASSUME Is("decFuture") PROVE mode[t.on] # "deleted" /\ futures[t.on] > 0
    <3>1. t.op = "decFuture" BY <2>1, <2>2 DEF Is
    <3>2. t.on \in States /\ t = Do("decFuture", t.on) BY <2>1, <3>1, Same DEF Real
    <3>3. futures[t.on] > 0 BY <2>1, <3>2, BalanceGives DEF Counts
    <3> QED BY <3>2, <3>3, InPlace DEF Counts
  <2>3. ASSUME Is("decPromise") PROVE mode[t.on] # "deleted" /\ promises[t.on] > 0
    <3>1. t.op = "decPromise" BY <2>1, <2>3 DEF Is
    <3>2. t.on \in States /\ t = Do("decPromise", t.on) BY <2>1, <3>1, Same DEF Real
    <3>3. promises[t.on] > 0 BY <2>1, <3>2, BalanceGives DEF Counts
    <3> QED BY <3>2, <3>3, InPlace DEF Counts
  <2>4. ASSUME Is("execute")
        PROVE  mode[t.on] \in Resolved /\ (futures[t.on] > 0 \/ promises[t.on] > 0)
    <3>1. t.op = "execute" BY <2>1, <2>4 DEF Is
    <3>2. t.on \in States BY <2>1, <3>1 DEF Real
    <3>3. Standing(t) BY <2>1 DEF Counts
    <3>4. mode[t.on] \in Resolved BY <3>1, <3>3 DEF Standing
    <3> QED BY <3>2, <3>4 DEF Counts, Kept
  <2> QED BY <2>1, <2>2, <2>3, <2>4 DEF AssertsHold
<1> QED BY <1>1, <1>2

-----------------------------------------------------------------------------
(* Chains.  A call that marks no continuation, and two stacks with the same  *)
(* marks; a stack that shields the trees that another one does.              *)
Unmarked(x) == x.op # "delete" /\ (x.op = "call" => x.on \notin Links)
SameMarks(v, w) == \A n \in Links : Count(v, Marks(n)) = Count(w, Marks(n))
Shields(v, w, D) == \A l \in Chains : Shielded(w, Markers(l), D) => Shielded(v, Markers(l), D)

(* The marker of a chain.                                                    *)
LEMMA MarkerFacts ==
  /\ \A x, l : x \in Marks(l) <=> x = Do("call", l) \/ x = Do("delete", l)
  /\ \A x, l : x \in Markers(l) <=> x \in Marks(l) \/ x = Do("decPromise", Dst[l])
  /\ \A o, n : Do(o, n).op = o /\ Do(o, n).on = n
  /\ \A l : \A x \in Markers(l) : x.op \notin {"links", "cancels"}
<1>1. \A o, n : Do(o, n).op = o /\ Do(o, n).on = n BY DEF Do
<1>2. \A x, l : x \in Marks(l) <=> x = Do("call", l) \/ x = Do("delete", l) BY DEF Marks
<1>3. \A x, l : x \in Markers(l) <=> x \in Marks(l) \/ x = Do("decPromise", Dst[l]) BY DEF Markers
<1> QED BY <1>1, <1>2, <1>3

(* More calls that mark nothing leave the marks of a stack as they are; so   *)
(* does a stack of the same calls; and the same of shields.                  *)
LEMMA MarksOver ==
  ASSUME NEW w \in Seq(Items), NEW x \in Items, Unmarked(x)
  PROVE  SameMarks(Over(x, w), w)
<1> SUFFICES ASSUME NEW n \in Links PROVE Count(Over(x, w), Marks(n)) = Count(w, Marks(n))
  BY DEF SameMarks
<1>1. x \notin Marks(n) BY MarkerFacts DEF Unmarked
<1>2. Count(Over(x, w), Marks(n)) = Count(w, Marks(n)) + 0 BY <1>1, CountOver
<1>3. Count(w, Marks(n)) \in Nat BY CountType
<1> QED BY <1>2, <1>3

LEMMA MarksLike ==
  ASSUME NEW w \in Seq(Items), NEW v, Like(v, w)
  PROVE  SameMarks(v, w)
  BY CountLike, CountedItems DEF SameMarks

LEMMA ShieldsOver ==
  ASSUME NEW w \in Seq(Items), NEW x \in Items, NEW D, Harmless(x, D)
  PROVE  Shields(Over(x, w), w, D)
  BY ShieldOver DEF Shields

LEMMA ShieldsLike ==
  ASSUME NEW w \in Seq(Items), NEW v, Like(v, w), NEW D
  PROVE  Shields(v, w, D)
  BY ShieldLike, MarkerFacts DEF Shields

(* Calls that no tree minds.                                                 *)
LEMMA Idle ==
  ASSUME NEW x, x.op \notin {"decFuture", "decPromise", "cancel", "delete"}
  PROVE  \A D : Harmless(x, D)
  BY DEF Harmless

(* A marked continuation runs, or is about to be destroyed.                  *)
LEMMA Marked ==
  ASSUME Shape, Placed, NEW l \in Links, NEW x \in Range(work), x \in Marks(l)
  PROVE  Due(l)
<1>1. work \in Seq(Items) BY DEF Shape, Typed
<1>2. Count(work, Marks(l)) > 0 BY <1>1, CountType
<1>3. Count(work, Marks(l)) = IF Due(l) THEN 1 ELSE 0 BY DEF Placed
<1> QED BY <1>2, <1>3

-----------------------------------------------------------------------------
(* While no chain is withdrawn or destroyed, chains follow their results.    *)
Quiet == ~ Is("delete") /\ \A l \in Chains : ~ First(l)

LEMMA QuietTop ==
  ASSUME work # <<>> => /\ Top.op \notin {"execute", "delete"}
                        /\ Top.op = "cancels" => Top.todo = <<>>
  PROVE  Quiet
<1>1. \A o, n : Do(o, n).op = o BY DEF Do
<1> QED BY <1>1 DEF Quiet, First, Is

LEMMA QuietFacts ==
  ASSUME Shape, Immediate, Quiet, NEW l \in Chains
  PROVE  /\ mode[Dst[l]] \in Resolved => l \notin Range(cancelBox[Dst[l]])
         /\ life[l] = "linked" => mode[Dst[l]] = "unresolved"
<1>1. ~ First(l) BY DEF Quiet
<1>2. ~ (work # <<>> /\ Top = Do("delete", l)) BY MarkerFacts DEF Quiet, Is
<1>3. "cancel" \in Resolved BY DEF Resolved
<1> QED BY <1>1, <1>2, <1>3 DEF Immediate

(* D is the tree of a chain that runs or is destroyed.                       *)
Treed(r, D, l) ==
  /\ life[l] \in {"running", "deleted"} /\ mode[Dst[l]] = "unresolved"
  /\ Ordered(life, r) /\ Tree(mode, life, r, D, l) /\ Shielded(work, Markers(l), D)

(* The two ways to count the calls of one sort on a state.                   *)
LEMMA InUseIs ==
  \A o, s : InUse(o, s) = Count(work, {Do(o, s)})
<1> SUFFICES ASSUME NEW o, NEW s PROVE InUse(o, s) = Count(work, {Do(o, s)}) OBVIOUS
<1>1. PICK E : E = {i \in DOMAIN work : work[i] = Do(o, s)} OBVIOUS
<1>2. E = {i \in DOMAIN work : work[i] \in {Do(o, s)}} BY <1>1
<1>3. Count(work, {Do(o, s)}) = Cardinality(E) BY <1>2 DEF Count
<1>4. InUse(o, s) = Cardinality(E) BY <1>1 DEF InUse, Quantify
<1> QED BY <1>3, <1>4

(* The result of a chain that has been destroyed is open only while its      *)
(* promise is being given back.                                              *)
LEMMA DyingIs ==
  ASSUME Shape, Balance, Placed, OnePromise, NEW l \in Chains,
         life[l] = "deleted", mode[Dst[l]] = "unresolved"
  PROVE  Dying(l)
<1>1. PICK s \in States : s = Dst[l] BY Consts
<1>2. PICK f, p, a, b \in Nat :
           /\ f = Count(work, FutureOf(s)) /\ p = Count(work, {Do("decPromise", s)})
           /\ IsFiniteSet(Live(life, s)) /\ a = Cardinality(Live(life, s))
           /\ b = Cardinality(Ends(out, s))
           /\ futH[s] \in Nat /\ proH[s] \in Nat
           /\ futures[s] = futH[s] + f + a /\ promises[s] = proH[s] + p + b
  BY BalanceAt
<1>3. promises[s] = 1 /\ proH[s] = 0 BY <1>1 DEF OnePromise, Placed
<1>4. l \notin out BY DEF Placed, Alive
<1>5. b = 0
  <2>1. out \in SUBSET Chains BY DEF Shape, Typed
  <2>2. ~ \E n \in out : Dst[n] = s BY <1>1, <1>4, <2>1, Consts
  <2> QED BY <1>2, <2>1, <2>2, EndsFacts
<1>6. p > 0 BY <1>2, <1>3, <1>5
<1> QED BY <1>1, <1>2, <1>6, InUseIs DEF Dying

(* The states of a tree are Busy, so that a tame program leaves them alone;  *)
(* only the chain itself, and attached chains of the tree, end in it.        *)
LEMMA TreeFacts ==
  ASSUME Shape, Counts, Placed, OnePromise, NEW r, NEW l \in Chains, NEW D \in SUBSET States,
         Treed(r, D, l)
  PROVE  /\ \A d \in D : mode[d] = "unresolved" /\ Busy(d) /\ proH[d] = 0
         /\ Src[l] \notin D /\ Dst[l] \in D
         /\ \A n \in Chains : life[n] # "linked" /\ n # l => Dst[n] \notin D
         /\ \A n \in Chains : life[n] = "linked" /\ Src[n] \notin D => Dst[n] \notin D
<1>1. /\ Dst[l] \in D /\ \A d \in D : mode[d] = "unresolved" /\ r[Dst[l]] <= r[d]
      /\ \A d \in D : d = Dst[l] \/ \E n \in Chains : life[n] = "linked" /\ Dst[n] = d /\ Src[n] \in D
      /\ life[l] \in {"running", "deleted"}
      /\ r \in [States -> Nat] /\ r[Src[l]] < r[Dst[l]]
  BY DEF Treed, Tree, Hang, Ordered
<1>2. life[l] = "running" \/ Dying(l) BY <1>1, DyingIs DEF Treed, Counts
<1>3. HangsOn(D, Dst[l]) BY <1>1 DEF HangsOn
<1>4. \A d \in D : Busy(d) BY <1>2, <1>3 DEF Busy
<1>5. \A d \in D : proH[d] = 0 BY <1>1 DEF Placed
<1>6. Src[l] \notin D
  <2>1. r[Src[l]] \in Nat /\ r[Dst[l]] \in Nat BY <1>1, Consts
  <2>2. ~ (r[Dst[l]] <= r[Src[l]]) BY <1>1, <2>1
  <2> QED BY <1>1, <2>2
<1>7. \A n \in Chains : life[n] # "linked" /\ n # l => Dst[n] \notin D
  <2>1. \A m, n \in Chains : Dst[m] = Dst[n] => m = n BY Consts
  <2> QED BY <1>1, <2>1
<1>8. \A n \in Chains : life[n] = "linked" /\ Src[n] \notin D => Dst[n] \notin D
  <2>1. \A m, n \in Chains : Dst[m] = Dst[n] => m = n BY Consts
  <2> QED BY <1>1, <2>1
<1> QED BY <1>1, <1>4, <1>5, <1>6, <1>7, <1>8

(* Steps that leave the chains, their results and the marks alone.           *)
LEMMA CalmKeeps ==
  ASSUME NEW r, Ordered(life, r), Calm(r),
         \A n \in Chains : life'[n] = life[n],
         \A l \in Chains : mode'[Dst[l]] = "unresolved" => mode[Dst[l]] = "unresolved",
         \A l \in Chains : \A D \in SUBSET States :
           Treed(r, D, l) /\ mode'[Dst[l]] = "unresolved" =>
             Shielded(work', Markers(l), D) /\ \A d \in D : mode'[d] = "unresolved"
  PROVE  Ordered(life', r) /\ Calm(r)'
<1>1. Ordered(life', r) BY DEF Ordered
<1>2. ASSUME NEW l \in Chains, life'[l] \in {"running", "deleted"}, mode'[Dst[l]] = "unresolved"
      PROVE  \E D \in SUBSET States : Tree(mode', life', r, D, l) /\ Shielded(work', Markers(l), D)
  <2>1. life[l] \in {"running", "deleted"} /\ mode[Dst[l]] = "unresolved" BY <1>2
  <2>2. PICK D \in SUBSET States : Tree(mode, life, r, D, l) /\ Shielded(work, Markers(l), D)
    BY <2>1 DEF Calm
  <2>3. Treed(r, D, l) BY <2>1, <2>2 DEF Treed
  <2>4. Shielded(work', Markers(l), D) /\ \A d \in D : mode'[d] = "unresolved" BY <1>2, <2>3
  <2>5. Tree(mode', life', r, D, l) BY <2>2, <2>4 DEF Tree, Hang, Closure
  <2> QED BY <2>4, <2>5
<1> QED BY <1>1, <1>2 DEF Calm

(* Marks and the continuations stay.                                         *)
LEMMA PlacedKeeps ==
  ASSUME Shape, Placed, ~ Is("delete"), work' \in Seq(Items), SameMarks(work', work),
         \A n \in Links : life'[n] = life[n] \/ (n \notin Chains /\ life[n] = "unborn" /\ life'[n] = "linked"),
         out' = out, \A l \in Chains : proH'[Dst[l]] = 0
  PROVE  Placed'
<1>1. ASSUME NEW n \in Links PROVE Count(work', Marks(n)) = IF Due(n)' THEN 1 ELSE 0
  <2>1. Count(work', Marks(n)) = IF Due(n) THEN 1 ELSE 0 BY DEF Placed, SameMarks
  <2>2. Due(n) => life[n] = "running" BY MarkerFacts DEF Due, Is
  <2>3. Due(n) => Due(n)' BY <2>2 DEF Due
  <2>4. ASSUME Due(n)', ~ Due(n) PROVE FALSE
    <3>1. life'[n] # "running" BY <2>4 DEF Due
    <3>2. work' # <<>> /\ Head(work') = Do("delete", n) BY <2>4, <3>1 DEF Due, Top
    <3>3. Head(work') \in Range(work') BY <3>2, Pop, ZenonT(30)
    <3>4. Count(work', Marks(n)) > 0 BY <3>2, <3>3, CountType, MarkerFacts
    <3>5. Count(work', Marks(n)) = 0 BY <2>1, <2>4
    <3> QED BY <3>4, <3>5
  <2> QED BY <2>1, <2>3, <2>4
<1>2. \A l \in Chains : l \in out' <=> Alive(life', l)
  <2> SUFFICES ASSUME NEW l \in Chains PROVE l \in out' <=> Alive(life', l) OBVIOUS
  <2>1. life'[l] = life[l] BY Consts
  <2> QED BY <2>1 DEF Placed, Alive
<1> QED BY <1>1, <1>2 DEF Placed

(* Every state of a tree is the result of a chain: of l, or of one that is   *)
(* attached.                                                                 *)
LEMMA TreeEnds ==
  ASSUME NEW r, NEW l \in Chains, NEW D \in SUBSET States, Treed(r, D, l), NEW d \in D
  PROVE  d = Dst[l] \/ \E n \in Chains : life[n] = "linked" /\ Dst[n] = d
  BY DEF Treed, Tree, Hang

(* Steps that leave the chains and what is attached alone, with a stack that *)
(* marks and shields as before.                                              *)
LEMMA StillTidy ==
  ASSUME Shape, Counts, Tidy, Quiet, OnePromise',
         work' \in Seq(Items), SameMarks(work', work),
         \A n \in Links : life'[n] = life[n] \/ (n \notin Chains /\ life[n] = "unborn" /\ life'[n] = "linked"),
         out' = out, \A l \in Chains : proH'[Dst[l]] = 0,
         \A l \in Chains : mode'[Dst[l]] = mode[Dst[l]] \/ (mode'[Dst[l]] = "deleted" /\ life[l] # "linked"),
         \A l \in Chains : l \in Range(cancelBox'[Dst[l]]) => l \in Range(cancelBox[Dst[l]]),
         \A r : \A l \in Chains : \A D \in SUBSET States :
           Treed(r, D, l) /\ mode'[Dst[l]] = "unresolved" => Shielded(work', Markers(l), D)
  PROVE  Tidy'
<1>1. PICK r \in [States -> Nat] : Ordered(life, r) /\ Calm(r) BY DEF Tidy
<1>2. Placed'
  <2>1. ~ Is("delete") BY DEF Quiet
  <2> QED BY <2>1, PlacedKeeps DEF Tidy
<1>3. \A n \in Chains : life'[n] = life[n] BY Consts
<1>4. Immediate'
  <2> SUFFICES ASSUME NEW l \in Chains
               PROVE  /\ mode'[Dst[l]] \in Resolved => l \notin Range(cancelBox'[Dst[l]])
                      /\ life'[l] = "linked" => mode'[Dst[l]] = "unresolved"
    BY DEF Immediate
  <2>1. /\ mode[Dst[l]] \in Resolved => l \notin Range(cancelBox[Dst[l]])
        /\ life[l] = "linked" => mode[Dst[l]] = "unresolved"
    BY QuietFacts DEF Tidy
  <2>2. "deleted" \notin Resolved BY DEF Resolved
  <2> QED BY <1>3, <2>1, <2>2
<1>5. Ordered(life', r) /\ Calm(r)'
  <2>1. \A l \in Chains : mode'[Dst[l]] = "unresolved" => mode[Dst[l]] = "unresolved" OBVIOUS
  <2>2. ASSUME NEW l \in Chains, NEW D \in SUBSET States, Treed(r, D, l), mode'[Dst[l]] = "unresolved"
        PROVE  Shielded(work', Markers(l), D) /\ \A d \in D : mode'[d] = "unresolved"
    <3>1. ASSUME NEW d \in D PROVE mode'[d] = "unresolved"
      <4>1. d = Dst[l] \/ \E n \in Chains : life[n] = "linked" /\ Dst[n] = d BY <2>2, TreeEnds
      <4>2. mode[d] = "unresolved" BY <2>2 DEF Treed, Tree
      <4> QED BY <2>2, <4>1, <4>2
    <3> QED BY <2>2, <3>1
  <2> QED BY <1>1, <1>3, <2>1, <2>2, CalmKeeps
<1> QED BY <1>1, <1>2, <1>4, <1>5 DEF Tidy

(* Steps by which a state is resolved, and executes its continuations.       *)
LEMMA TurnTidy ==
  ASSUME Shape, Counts, Tidy, Quiet, NEW s \in States, NEW m \in Resolved, mode[s] = "unresolved",
         mode' = [mode EXCEPT ![s] = m],
         NEW v \in Seq(Items), work' = Over(Do("execute", s), v), SameMarks(v, work),
         \A n \in Links : life'[n] = life[n], UNCHANGED <<out, proH, cancelBox>>,
         \A l \in Chains : Dst[l] # s => promises'[Dst[l]] = promises[Dst[l]],
         \A l \in Chains : Dst[l] = s => \/ m = "value" /\ life[l] # "linked"
                                         \/ m = "cancel" /\ (promises'[s] > 0 => life[l] = "linked"),
         \A r : \A l \in Chains : \A D \in SUBSET States :
           Treed(r, D, l) /\ Dst[l] # s => s \notin D /\ Shielded(v, Markers(l), D)
  PROVE  Tidy'
<1>1. PICK r \in [States -> Nat] : Ordered(life, r) /\ Calm(r) BY DEF Tidy
<1>2. mode'[s] = m /\ \A i \in States : i # s => mode'[i] = mode[i] BY DEF Shape, Typed
<1>3. PICK x \in Items : x = Do("execute", s) /\ x.op = "execute" /\ x.on = s BY Made DEF Ops
<1>4. work' \in Seq(Items) /\ work' # <<>> /\ Head(work') = x /\ work' = Over(x, v)
  <2>1. work' = Over(x, v) BY <1>3
  <2> QED BY <2>1, PushItem
<1>5. SameMarks(work', work)
  <2>1. Unmarked(x) BY <1>3 DEF Unmarked
  <2>2. SameMarks(Over(x, v), v) BY <2>1, MarksOver
  <2> QED BY <1>4, <2>2 DEF SameMarks
<1>6. Placed'
  <2>1. ~ Is("delete") BY DEF Quiet
  <2> QED BY <1>4, <1>5, <2>1, PlacedKeeps DEF Tidy, Placed
<1>7. \A l \in Chains : Dst[l] \in States /\ life'[l] = life[l] BY Consts
<1>8. m \notin {"unresolved", "deleted"} BY DEF Resolved
<1>9. OnePromise'
  <2> SUFFICES ASSUME NEW l \in Chains, mode'[Dst[l]] = "unresolved"
               PROVE  /\ promises'[Dst[l]] = 1
                      /\ cancelBox'[Dst[l]] # <<>> /\ Head(cancelBox'[Dst[l]]) = l
    BY DEF OnePromise
  <2>1. Dst[l] # s BY <1>2, <1>8
  <2> QED BY <1>2, <1>7, <2>1 DEF Tidy, OnePromise
<1>10. Immediate'
  <2> SUFFICES ASSUME NEW l \in Chains
               PROVE  /\ mode'[Dst[l]] \in Resolved /\ l \in Range(cancelBox'[Dst[l]]) =>
                           /\ First(l)' /\ Head(cancelBox'[Dst[l]]) = l
                           /\ mode'[Dst[l]] = "cancel" /\ promises'[Dst[l]] > 0 => life'[l] = "linked"
                      /\ life'[l] = "linked" => \/ mode'[Dst[l]] = "unresolved"
                                                \/ mode'[Dst[l]] = "cancel" /\ l \in Range(cancelBox'[Dst[l]])
    BY DEF Immediate
  <2>1. /\ mode[Dst[l]] \in Resolved => l \notin Range(cancelBox[Dst[l]])
        /\ life[l] = "linked" => mode[Dst[l]] = "unresolved"
    BY QuietFacts DEF Tidy
  <2>2. CASE Dst[l] # s BY <1>2, <1>7, <2>1, <2>2
  <2>3. CASE Dst[l] = s
    <3>1. cancelBox[s] # <<>> /\ Head(cancelBox[s]) = l BY <2>3 DEF Tidy, OnePromise
    <3>2. cancelBox[s] \in Seq(Chains \union Cancels) BY DEF Shape, Typed
    <3>3. l \in Range(cancelBox[s]) BY <3>1, <3>2, Pop, ZenonT(30)
    <3>4. First(l)' BY <1>3, <1>4, <2>3 DEF First, Top
    <3> QED BY <1>2, <1>7, <2>3, <3>1, <3>3, <3>4
  <2> QED BY <2>2, <2>3
<1>11. Ordered(life', r) /\ Calm(r)'
  <2>1. \A l \in Chains : mode'[Dst[l]] = "unresolved" => mode[Dst[l]] = "unresolved"
    BY <1>2, <1>7, <1>8
  <2>2. ASSUME NEW l \in Chains, NEW D \in SUBSET States, Treed(r, D, l), mode'[Dst[l]] = "unresolved"
        PROVE  Shielded(work', Markers(l), D) /\ \A d \in D : mode'[d] = "unresolved"
    <3>1. Dst[l] # s BY <1>2, <1>8, <2>2
    <3>2. s \notin D /\ Shielded(v, Markers(l), D) BY <2>2, <3>1
    <3>3. \A d \in D : mode'[d] = "unresolved" BY <1>2, <2>2, <3>2 DEF Treed, Tree
    <3>4. Harmless(x, D) BY <1>3, Idle
    <3>5. Shields(Over(x, v), v, D) BY <3>4, ShieldsOver
    <3> QED BY <1>4, <3>2, <3>3, <3>5 DEF Shields
  <2> QED BY <1>1, <1>7, <2>1, <2>2, CalmKeeps
<1> QED BY <1>1, <1>6, <1>9, <1>10, <1>11 DEF Tidy

LEMMA StillAll ==
  ASSUME Shape, Counts, Tidy, Quiet, UNCHANGED <<mode, promises, cancelBox, life, out, proH>>,
         work' \in Seq(Items), SameMarks(work', work),
         \A r : \A l \in Chains : \A D \in SUBSET States :
           Treed(r, D, l) => Shielded(work', Markers(l), D)
  PROVE  Tidy'
<1>1. OnePromise' BY DEF Tidy, OnePromise
<1>2. \A l \in Chains : proH'[Dst[l]] = 0 BY DEF Tidy, Placed
<1> QED BY <1>1, <1>2, StillTidy

(* A call that is no marker returns.                                         *)
LEMMA ShieldsPop ==
  ASSUME NEW w \in Seq(Items), NEW t \in Items, NEW l \in Chains, NEW D,
         t \notin Markers(l), Shielded(Over(t, w), Markers(l), D)
  PROVE  Harmless(t, D) /\ Shielded(w, Markers(l), D)
  BY ShieldOver

LEMMA Popped ==
  ASSUME NEW w \in Seq(Items), NEW t \in Items, work = Over(t, w),
         Unmarked(t), t.op # "decPromise", SameMarks(work', w), \A D : Shields(work', w, D)
  PROVE  /\ SameMarks(work', work)
         /\ \A r : \A l \in Chains : \A D \in SUBSET States :
              Treed(r, D, l) => Shielded(work', Markers(l), D)
<1>1. SameMarks(Over(t, w), w) BY MarksOver
<1>2. SameMarks(work', work) BY <1>1 DEF SameMarks
<1>3. ASSUME NEW r, NEW l \in Chains, NEW D \in SUBSET States, Treed(r, D, l)
      PROVE  Shielded(work', Markers(l), D)
  <2>1. t \notin Markers(l) BY MarkerFacts, Consts DEF Unmarked
  <2>2. Shielded(Over(t, w), Markers(l), D) BY <1>3 DEF Treed
  <2> QED BY <2>1, <2>2, ShieldsPop DEF Shields
<1> QED BY <1>2, <1>3

(* User code runs on a quiet stack.                                          *)
LEMMA UserQuiet ==
  ASSUME Shape, UserCode
  PROVE  Quiet /\ work \in Seq(Items)
  BY QuietTop DEF UserCode, Is, Shape, Typed

(* What user code pushes on a stack.                                         *)
LEMMA Atop ==
  ASSUME Shape, NEW x \in Items, Unmarked(x), work' = Over(x, work),
         \A r : \A l \in Chains : \A D \in SUBSET States : Treed(r, D, l) => Harmless(x, D)
  PROVE  /\ work' \in Seq(Items) /\ SameMarks(work', work)
         /\ \A r : \A l \in Chains : \A D \in SUBSET States :
              Treed(r, D, l) => Shielded(work', Markers(l), D)
<1>1. work \in Seq(Items) BY DEF Shape, Typed
<1>2. Over(x, work) \in Seq(Items) /\ SameMarks(Over(x, work), work) BY <1>1, PushItem, MarksOver
<1>3. ASSUME NEW r, NEW l \in Chains, NEW D \in SUBSET States, Treed(r, D, l)
      PROVE  Shielded(work', Markers(l), D)
  <2>1. Harmless(x, D) /\ Shielded(work, Markers(l), D) BY <1>3 DEF Treed
  <2>2. Shielded(Over(x, work), Markers(l), D) BY <1>1, <2>1, ShieldOver
  <2> QED BY <2>2
<1> QED BY <1>2, <1>3

LEMMA ActivateTidy ==
  ASSUME Shape, Counts, Tidy, Activate PROVE Tidy'
<1>1. /\ work # <<>> /\ Top.op = "activate"
      /\ work' = <<Walk("links", Top.on, box[Top.on])>> \o Tail(work)
      /\ UNCHANGED <<mode, futures, promises, box, cancelBox, life, out, futH, proH, asked>>
  BY DEF Activate, Is
<1>2. PICK t \in Items, w \in Seq(Items) :
           /\ t = Top /\ w = Tail(work) /\ Real(t) /\ work = Over(t, w)
  BY <1>1, TopFacts
<1>3. t.on \in States /\ box[t.on] \in Seq(Links) BY <1>1, <1>2 DEF Real, Shape, Typed
<1>4. PICK x \in Items : x = Walk("links", t.on, box[t.on]) /\ x.op = "links"
  <2>1. box[t.on] \in Seq(Links \union Cancels) BY <1>3
  <2> QED BY <1>3, <2>1, MadeWalk DEF Ops
<1>5. work' = Over(x, w) /\ work' \in Seq(Items)
  <2>1. work' = Over(x, w) BY <1>1, <1>2, <1>4 DEF Over
  <2> QED BY <2>1, PushItem
<1>6. SameMarks(work', w) /\ \A D : Shields(work', w, D)
  <2>1. Unmarked(x) /\ \A D : Harmless(x, D) BY <1>4, Idle DEF Unmarked
  <2> QED BY <1>5, <2>1, MarksOver, ShieldsOver
<1>7. Unmarked(t) /\ t.op # "decPromise" BY <1>1, <1>2 DEF Unmarked
<1>8. Quiet BY <1>1, QuietTop
<1>9. /\ SameMarks(work', work)
      /\ \A r : \A l \in Chains : \A D \in SUBSET States :
              Treed(r, D, l) => Shielded(work', Markers(l), D)
  BY <1>2, <1>6, <1>7, Popped
<1> QED BY <1>1, <1>5, <1>8, <1>9, StillAll

LEMMA MethodEndsTidy ==
  ASSUME Shape, Counts, Tidy, MethodEnds \/ WalkEnds PROVE Tidy'
<1>1. /\ work # <<>> /\ Top.op \in {"ofPromise", "ofFuture", "links", "cancels"}
      /\ Top.op = "cancels" => Top.todo = <<>>
      /\ work' = Tail(work)
      /\ UNCHANGED <<mode, futures, promises, box, cancelBox, life, out, futH, proH, asked>>
  BY DEF MethodEnds, WalkEnds, Is
<1>2. PICK t \in Items, w \in Seq(Items) :
           /\ t = Top /\ w = Tail(work) /\ Real(t) /\ work = Over(t, w)
  BY <1>1, TopFacts
<1>3. Unmarked(t) /\ t.op # "decPromise" BY <1>1, <1>2 DEF Unmarked
<1>4. work' \in Seq(Items) /\ SameMarks(work', w) /\ \A D : Shields(work', w, D)
  BY <1>1, <1>2 DEF SameMarks, Shields
<1>5. /\ SameMarks(work', work)
      /\ \A r : \A l \in Chains : \A D \in SUBSET States :
              Treed(r, D, l) => Shielded(work', Markers(l), D)
  BY <1>2, <1>3, <1>4, Popped
<1>6. Quiet BY <1>1, QuietTop
<1> QED BY <1>1, <1>4, <1>5, <1>6, StillAll

LEMMA GetFutureTidy ==
  ASSUME Shape, Counts, Tidy, NEW s \in States, GetFuture(s) PROVE Tidy'
<1>1. UserCode /\ UNCHANGED <<mode, promises, cancelBox, life, out, proH, work>> BY DEF GetFuture
<1>2. Quiet /\ work \in Seq(Items) BY <1>1, UserQuiet
<1>3. SameMarks(work', work) BY <1>1 DEF SameMarks
<1>4. \A r : \A l \in Chains : \A D \in SUBSET States :
        Treed(r, D, l) => Shielded(work', Markers(l), D)
  BY <1>1 DEF Treed
<1> QED BY <1>1, <1>2, <1>3, <1>4, StillAll

LEMMA DropFutureTidy ==
  ASSUME Tame, Shape, Counts, Tidy, NEW s \in States, DropFuture(s) PROVE Tidy'
<1>1. /\ UserCode /\ ~ Busy(s) /\ work' = <<Do("decFuture", s)>> \o work
      /\ UNCHANGED <<mode, promises, cancelBox, life, out, proH>>
  BY DEF DropFuture
<1>2. Quiet BY <1>1, UserQuiet
<1>3. PICK x \in Items : x = Do("decFuture", s) /\ x.op = "decFuture" /\ x.on = s BY Made DEF Ops
<1>4. work' = Over(x, work) /\ Unmarked(x) BY <1>1, <1>3 DEF Over, Unmarked
<1>5. ASSUME NEW r, NEW l \in Chains, NEW D \in SUBSET States, Treed(r, D, l)
      PROVE  Harmless(x, D)
  <2>1. s \notin D BY <1>1, <1>5, TreeFacts DEF Tidy
  <2> QED BY <1>3, <2>1 DEF Harmless
<1>6. /\ work' \in Seq(Items) /\ SameMarks(work', work)
      /\ \A r : \A l \in Chains : \A D \in SUBSET States :
              Treed(r, D, l) => Shielded(work', Markers(l), D)
  BY <1>4, <1>5, Atop
<1> QED BY <1>1, <1>2, <1>6, StillAll

LEMMA ShieldsGive ==
  ASSUME \A D : Shields(work', work, D)
  PROVE  \A r : \A l \in Chains : \A D \in SUBSET States :
           Treed(r, D, l) => Shielded(work', Markers(l), D)
  BY DEF Treed, Shields

(* What pushing a continuation calls.                                        *)
LEMMA PushedTidy ==
  ASSUME Shape, NEW s \in States, NEW m \in {"ofPromise", "ofFuture"}, work' = Pushed(s, m) \o work
  PROVE  work' \in Seq(Items) /\ SameMarks(work', work) /\ \A D : Shields(work', work, D)
<1>1. work \in Seq(Items) BY DEF Shape, Typed
<1>2. PICK x \in Items : x = Do(m, s) /\ x.op = m BY Made DEF Ops
<1>3. PICK y \in Items : y = Do("execute", s) /\ y.op = "execute" BY Made DEF Ops
<1>4. PICK v : v = Over(x, work) OBVIOUS
<1>5. Unmarked(x) /\ Unmarked(y) /\ \A D : Harmless(x, D) /\ Harmless(y, D)
  BY <1>2, <1>3, Idle DEF Unmarked
<1>6. v \in Seq(Items) /\ SameMarks(v, work) /\ \A D : Shields(v, work, D)
  BY <1>1, <1>4, <1>5, PushItem, MarksOver, ShieldsOver
<1>7. Over(y, v) \in Seq(Items) /\ SameMarks(Over(y, v), v) /\ \A D : Shields(Over(y, v), v, D)
  BY <1>5, <1>6, PushItem, MarksOver, ShieldsOver
<1>8. work' = Over(y, v) \/ work' = v
  <2>1. m \in Ops BY DEF Ops
  <2> QED BY <1>1, <1>2, <1>3, <1>4, <2>1, PushedFacts
<1>9. SameMarks(Over(y, v), work) /\ \A D : Shields(Over(y, v), work, D)
  BY <1>6, <1>7 DEF SameMarks, Shields
<1> QED BY <1>6, <1>7, <1>8, <1>9

LEMMA CallRuns ==
  ASSUME Shape, Placed, NEW l \in Links, work # <<>>, Top = Do("call", l)
  PROVE  life[l] = "running"
<1>1. Do("call", l) \in Range(work) BY WorkTop
<1>2. Due(l) BY <1>1, Marked, MarkerFacts
<1> QED BY <1>2, MarkerFacts DEF Due

(* The promise of a chain is in nobody's hands but its continuation's.       *)
LEMMA ResultHeld ==
  ASSUME Shape, Placed, NEW l \in Chains, HasPromise(Dst[l])
  PROVE  life[l] = "running" /\ Busy(Dst[l]) /\ work # <<>> /\ Top = Do("call", l)
<1>1. proH[Dst[l]] = 0 /\ l \in Links /\ Dst[l] \in States BY Consts DEF Placed
<1>2. work # <<>> /\ Top.op = "call" /\ Top.on \in out /\ Dst[Top.on] = Dst[l]
  BY <1>1 DEF HasPromise, Is
<1>3. out \subseteq Chains BY DEF Shape, Typed
<1>4. Top.on = l BY <1>2, <1>3, Consts
<1>5. Top \in Items /\ Real(Top) BY <1>2, WorkTop
<1>6. Top = Do("call", l) BY <1>2, <1>4, <1>5, Same DEF Real
<1>7. life[l] = "running" BY <1>1, <1>2, <1>6, CallRuns
<1>8. HangsOn({Dst[l]}, Dst[l]) BY DEF HangsOn
<1> QED BY <1>1, <1>2, <1>6, <1>7, <1>8 DEF Busy

LEMMA DropPromiseTidy ==
  ASSUME Shape, Counts, Tidy, NEW s \in States, DropPromise(s) PROVE Tidy'
<1>1. /\ UserCode /\ proH[s] > 0 /\ work' = <<Do("decPromise", s)>> \o work
      /\ proH' = [proH EXCEPT ![s] = @ - 1]
      /\ UNCHANGED <<mode, promises, cancelBox, life, out>>
  BY DEF DropPromise
<1>2. Quiet BY <1>1, UserQuiet
<1>3. PICK x \in Items : x = Do("decPromise", s) /\ x.op = "decPromise" /\ x.on = s BY Made DEF Ops
<1>4. work' = Over(x, work) /\ Unmarked(x) BY <1>1, <1>3 DEF Over, Unmarked
<1>5. ASSUME NEW r, NEW l \in Chains, NEW D \in SUBSET States, Treed(r, D, l)
      PROVE  Harmless(x, D)
  <2>1. \A d \in D : proH[d] = 0 BY <1>5, TreeFacts DEF Tidy
  <2>2. s \notin D BY <1>1, <2>1
  <2> QED BY <1>3, <2>2 DEF Harmless
<1>6. /\ work' \in Seq(Items) /\ SameMarks(work', work)
      /\ \A r : \A l \in Chains : \A D \in SUBSET States :
              Treed(r, D, l) => Shielded(work', Markers(l), D)
  BY <1>4, <1>5, Atop
<1>7. \A l \in Chains : proH'[Dst[l]] = 0
  <2> SUFFICES ASSUME NEW l \in Chains PROVE proH'[Dst[l]] = 0 OBVIOUS
  <2>1. proH[Dst[l]] = 0 BY DEF Tidy, Placed
  <2>2. Dst[l] # s BY <1>1, <2>1
  <2> QED BY <1>1, <2>1, <2>2
<1>8. OnePromise' BY <1>1 DEF Tidy, OnePromise
<1> QED BY <1>1, <1>2, <1>6, <1>7, <1>8, StillTidy

LEMMA CopyPromiseTidy ==
  ASSUME Tame, Shape, Counts, Tidy, NEW s \in States, CopyPromise(s) PROVE Tidy'
<1>1. /\ UserCode /\ HasPromise(s) /\ ~ Busy(s)
      /\ promises' = [promises EXCEPT ![s] = @ + 1] /\ proH' = [proH EXCEPT ![s] = @ + 1]
      /\ UNCHANGED <<mode, cancelBox, life, out, work>>
  BY DEF CopyPromise
<1>2. Quiet /\ work \in Seq(Items) BY <1>1, UserQuiet
<1>3. \A l \in Chains : Dst[l] # s BY <1>1, ResultHeld DEF Tidy
<1>4. \A l \in Chains : proH'[Dst[l]] = proH[Dst[l]] /\ promises'[Dst[l]] = promises[Dst[l]]
  BY <1>1, <1>3, Consts DEF Shape, Typed
<1>5. OnePromise' /\ \A l \in Chains : proH'[Dst[l]] = 0
  BY <1>1, <1>4 DEF Tidy, OnePromise, Placed
<1>6. SameMarks(work', work) BY <1>1 DEF SameMarks
<1>7. \A r : \A l \in Chains : \A D \in SUBSET States :
        Treed(r, D, l) => Shielded(work', Markers(l), D)
  BY <1>1 DEF Treed
<1> QED BY <1>1, <1>2, <1>5, <1>6, <1>7, StillTidy

LEMMA NewPromiseTidy ==
  ASSUME Shape, Counts, Tidy, NEW s \in States, NewPromise(s) PROVE Tidy'
<1>1. /\ UserCode /\ mode[s] = "unborn" /\ \A l \in Chains : Dst[l] # s
      /\ mode' = [mode EXCEPT ![s] = "unresolved"]
      /\ promises' = [promises EXCEPT ![s] = 1] /\ proH' = [proH EXCEPT ![s] = 1]
      /\ UNCHANGED <<cancelBox, life, out, work>>
  BY DEF NewPromise
<1>2. Quiet /\ work \in Seq(Items) BY <1>1, UserQuiet
<1>3. \A l \in Chains : /\ proH'[Dst[l]] = proH[Dst[l]] /\ promises'[Dst[l]] = promises[Dst[l]]
                        /\ mode'[Dst[l]] = mode[Dst[l]]
  BY <1>1, Consts DEF Shape, Typed
<1>4. OnePromise' /\ \A l \in Chains : proH'[Dst[l]] = 0
  BY <1>1, <1>3 DEF Tidy, OnePromise, Placed
<1>5. SameMarks(work', work) BY <1>1 DEF SameMarks
<1>6. \A r : \A l \in Chains : \A D \in SUBSET States :
        Treed(r, D, l) => Shielded(work', Markers(l), D)
  BY <1>1 DEF Treed
<1> QED BY <1>1, <1>2, <1>3, <1>4, <1>5, <1>6, StillTidy

LEMMA OnCancelTidy ==
  ASSUME Shape, Counts, Tidy, NEW k \in Cancels, OnCancel(k) PROVE Tidy'
<1>1. PICK s \in States : s = Src[k] BY Consts
<1>2. /\ UserCode /\ life[k] = "unborn" /\ life' = [life EXCEPT ![k] = "linked"]
      /\ cancelBox' = [cancelBox EXCEPT ![s] = Append(@, k)]
      /\ work' = Pushed(s, "ofPromise") \o work
      /\ UNCHANGED <<mode, promises, out, proH>>
  BY <1>1 DEF OnCancel
<1>3. Quiet BY <1>2, UserQuiet
<1>4. /\ work' \in Seq(Items) /\ SameMarks(work', work)
      /\ \A r : \A l \in Chains : \A D \in SUBSET States :
              Treed(r, D, l) => Shielded(work', Markers(l), D)
  BY <1>2, PushedTidy, ShieldsGive
<1>5. \A n \in Links : life'[n] = life[n] BY <1>2, Consts DEF Shape, Typed
<1>6. ASSUME NEW l \in Chains
      PROVE  /\ l \in Range(cancelBox'[Dst[l]]) => l \in Range(cancelBox[Dst[l]])
             /\ cancelBox[Dst[l]] # <<>> =>
                  cancelBox'[Dst[l]] # <<>> /\ Head(cancelBox'[Dst[l]]) = Head(cancelBox[Dst[l]])
  <2>1. CASE Dst[l] # s BY <1>2, <2>1, Consts DEF Shape, Typed
  <2>2. CASE Dst[l] = s
    <3>1. PICK b \in Seq(Chains \union Cancels) : b = cancelBox[s] BY DEF Shape, Typed
    <3>2. cancelBox'[s] = Append(b, k) BY <1>2, <3>1 DEF Shape, Typed
    <3>3. Range(Append(b, k)) = Range(b) \union {k} BY AppendFacts
    <3>4. l # k BY Consts
    <3>5. b # <<>> => Append(b, k) # <<>> /\ Head(Append(b, k)) = Head(b) OBVIOUS
    <3> QED BY <2>2, <3>1, <3>2, <3>3, <3>4, <3>5
  <2> QED BY <2>1, <2>2
<1>7. OnePromise' BY <1>2, <1>6 DEF Tidy, OnePromise
<1>8. \A l \in Chains : proH'[Dst[l]] = 0 BY <1>2 DEF Tidy, Placed
<1> QED BY <1>2, <1>3, <1>4, <1>5, <1>6, <1>7, <1>8, StillTidy

LEMMA FlushCancelTidy ==
  ASSUME Shape, Counts, Tidy, NEW k \in Cancels, FlushCancel(k) PROVE Tidy'
<1>1. PICK s \in States :
           /\ s = Src[k] /\ On(k) = s /\ life[k] = "linked" /\ UserCode
           /\ life' = [life EXCEPT ![k] = "deleted"]
           /\ cancelBox' = [cancelBox EXCEPT ![s] = RemoveFirst(@, k)]
           /\ Like(work', work)
           /\ UNCHANGED <<mode, futures, promises, box, out, futH, proH, asked>>
  BY FlushCancelStep
<1>2. Quiet /\ work \in Seq(Items) BY <1>1, UserQuiet
<1>3. /\ \A y \in Links \union Cancels : life'[y] = IF y = k /\ k \in Cancels THEN "deleted" ELSE life[y]
      /\ \A i \in States : Range(cancelBox'[i]) = Range(cancelBox[i]) \ {k}
      /\ \A i \in States : i # s => cancelBox'[i] = cancelBox[i]
      /\ cancelBox[s] # <<>> /\ Head(cancelBox[s]) # k =>
           cancelBox'[s] # <<>> /\ Head(cancelBox'[s]) = Head(cancelBox[s])
  <2>1. k \in Chains \union Cancels OBVIOUS
  <2>2. life' = IF k \in Cancels THEN [life EXCEPT ![k] = "deleted"] ELSE life BY <1>1
  <2> QED BY <1>1, <2>1, <2>2, CancelBoxLess
<1>4. \A n \in Links : life'[n] = life[n] BY <1>3, Consts
<1>5. /\ work' \in Seq(Items) /\ SameMarks(work', work)
      /\ \A r : \A l \in Chains : \A D \in SUBSET States :
              Treed(r, D, l) => Shielded(work', Markers(l), D)
  <2>1. work' \in Seq(Items) BY <1>1 DEF Like
  <2>2. \A D : Shields(work', work, D) BY <1>1, <1>2, ShieldsLike
  <2> QED BY <1>1, <1>2, <2>1, <2>2, MarksLike, ShieldsGive
<1>6. ASSUME NEW l \in Chains
      PROVE  /\ l \in Range(cancelBox'[Dst[l]]) => l \in Range(cancelBox[Dst[l]])
             /\ cancelBox[Dst[l]] # <<>> /\ Head(cancelBox[Dst[l]]) = l =>
                  cancelBox'[Dst[l]] # <<>> /\ Head(cancelBox'[Dst[l]]) = Head(cancelBox[Dst[l]])
  BY <1>3, Consts
<1>7. OnePromise' BY <1>1, <1>6 DEF Tidy, OnePromise
<1>8. \A l \in Chains : proH'[Dst[l]] = 0 BY <1>1 DEF Tidy, Placed
<1> QED BY <1>1, <1>2, <1>4, <1>5, <1>6, <1>7, <1>8, StillTidy

LEMMA ThenTidy ==
  ASSUME Shape, Counts, Tidy, NEW l \in Links, Then(l) PROVE Tidy'
<1>1. PICK s \in States : s = Src[l] BY Consts
<1>2. /\ UserCode /\ life[l] = "unborn" /\ l \notin Chains /\ life' = [life EXCEPT ![l] = "linked"]
      /\ work' = Pushed(s, "ofFuture") \o work
      /\ UNCHANGED <<mode, promises, cancelBox, out, proH>>
  BY <1>1 DEF Then
<1>3. Quiet BY <1>2, UserQuiet
<1>4. /\ work' \in Seq(Items) /\ SameMarks(work', work)
      /\ \A r : \A n \in Chains : \A D \in SUBSET States :
              Treed(r, D, n) => Shielded(work', Markers(n), D)
  BY <1>2, PushedTidy, ShieldsGive
<1>5. \A n \in Links : life'[n] = life[n] \/ (n \notin Chains /\ life[n] = "unborn" /\ life'[n] = "linked")
  BY <1>2 DEF Shape, Typed
<1>6. OnePromise' /\ \A n \in Chains : proH'[Dst[n]] = 0
  BY <1>2 DEF Tidy, OnePromise, Placed
<1> QED BY <1>2, <1>3, <1>4, <1>5, <1>6, StillTidy

(* The open result of a chain that is not attached any more.                 *)
LEMMA Loose ==
  ASSUME Shape, Counts, Tidy, NEW l \in Chains, mode[Dst[l]] = "unresolved", life[l] # "linked"
  PROVE  /\ life[l] \in {"running", "deleted"} /\ Busy(Dst[l])
         /\ \A r : Calm(r) => \E D \in SUBSET States : Tree(mode, life, r, D, l) /\ Shielded(work, Markers(l), D)
<1>1. life[l] \in {"running", "deleted"}
  <2>1. life[l] # "unborn" BY DEF Shape, Born
  <2>2. life[l] \in {"unborn", "linked", "running", "deleted"} BY Consts DEF Shape, Typed
  <2> QED BY <2>1, <2>2
<1>2. life[l] = "running" \/ Dying(l) BY <1>1, DyingIs DEF Counts, Tidy
<1>3. HangsOn({Dst[l]}, Dst[l]) BY DEF HangsOn
<1>4. Busy(Dst[l]) BY <1>2, <1>3, Consts DEF Busy
<1> QED BY <1>1, <1>4 DEF Calm

LEMMA ResolveValueTidy ==
  ASSUME Shape, Counts, Tidy, NEW s \in States, ResolveValue(s) PROVE Tidy'
<1>1. /\ UserCode /\ HasPromise(s) /\ mode[s] = "unresolved"
      /\ mode' = [mode EXCEPT ![s] = "value"]
      /\ work' = <<Do("execute", s), Do("ofPromise", s)>> \o work
      /\ UNCHANGED <<futures, promises, box, cancelBox, life, out, futH, proH, asked>>
  BY DEF ResolveValue
<1>2. Quiet /\ work \in Seq(Items) BY <1>1, UserQuiet
<1>3. PICK x \in Items : x = Do("ofPromise", s) /\ x.op = "ofPromise" BY Made DEF Ops
<1>4. PICK v \in Seq(Items) :
           v = Over(x, work) /\ SameMarks(v, work) /\ \A D : Shields(v, work, D)
  <2>1. Unmarked(x) /\ \A D : Harmless(x, D) BY <1>3, Idle DEF Unmarked
  <2> QED BY <1>2, <2>1, PushItem, MarksOver, ShieldsOver
<1>5. work' = Over(Do("execute", s), v)
  <2>1. Do("execute", s) \in Items BY Made DEF Ops
  <2> QED BY <1>1, <1>2, <1>3, <1>4, <2>1, PushItems
<1>6. \A l \in Chains : Dst[l] = s => life[l] # "linked" BY <1>1, ResultHeld DEF Tidy
<1>7. ASSUME NEW r, NEW l \in Chains, NEW D \in SUBSET States, Treed(r, D, l), Dst[l] # s
      PROVE  s \notin D /\ Shielded(v, Markers(l), D)
  <2>1. s \notin D BY <1>6, <1>7, TreeEnds
  <2> QED BY <1>4, <1>7, <2>1 DEF Treed, Shields
<1>8. PICK m \in Resolved : m = "value" BY DEF Resolved
<1>9. mode' = [mode EXCEPT ![s] = m] BY <1>1, <1>8
<1>10. \A l \in Chains : Dst[l] = s => \/ m = "value" /\ life[l] # "linked"
                                       \/ m = "cancel" /\ (promises'[s] > 0 => life[l] = "linked")
  BY <1>6, <1>8
<1>11. \A r : \A l \in Chains : \A D \in SUBSET States :
         Treed(r, D, l) /\ Dst[l] # s => s \notin D /\ Shielded(v, Markers(l), D)
  BY <1>7
<1>12. /\ \A n \in Links : life'[n] = life[n]
       /\ UNCHANGED <<out, proH, cancelBox>>
       /\ \A l \in Chains : Dst[l] # s => promises'[Dst[l]] = promises[Dst[l]]
  BY <1>1
<1>13. mode[s] = "unresolved" /\ Quiet /\ SameMarks(v, work) BY <1>1, <1>2, <1>4
<1> QED BY <1>5, <1>9, <1>10, <1>11, <1>12, <1>13, TurnTidy

LEMMA ResolveCancelTidy ==
  ASSUME Tame, Shape, Counts, Tidy, NEW s \in States, ResolveCancel(s) PROVE Tidy'
<1>1. PICK m \in {"ofPromise", "ofFuture"} :
        /\ UserCode /\ ~ Busy(s) /\ Cancelled(s, <<Do(m, s)>> \o work)
        /\ UNCHANGED <<futures, promises, box, cancelBox, life, out, futH, proH, asked>>
  BY DEF ResolveCancel
<1>2. Quiet /\ work \in Seq(Items) BY <1>1, UserQuiet
<1>3. PICK x \in Items : x = Do(m, s) /\ x.op = m BY Made DEF Ops
<1>4. PICK v \in Seq(Items) :
           v = Over(x, work) /\ SameMarks(v, work) /\ \A D : Shields(v, work, D)
  <2>1. Unmarked(x) /\ \A D : Harmless(x, D) BY <1>3, Idle DEF Unmarked
  <2> QED BY <1>2, <2>1, PushItem, MarksOver, ShieldsOver
<1>5. Cancelled(s, v) BY <1>1, <1>3, <1>4 DEF Over
<1>6. \A l \in Chains : Dst[l] = s /\ mode[s] = "unresolved" => life[l] = "linked"
  BY <1>1, Loose
<1>7. ASSUME NEW r, NEW l \in Chains, NEW D \in SUBSET States, Treed(r, D, l)
      PROVE  s \notin D /\ Shielded(v, Markers(l), D)
  <2>1. \A d \in D : Busy(d) BY <1>7, TreeFacts DEF Tidy
  <2>2. s \notin D BY <1>1, <2>1
  <2> QED BY <1>4, <1>7, <2>2 DEF Treed, Shields
<1>8. CASE mode[s] = "unresolved"
  <2>1. mode' = [mode EXCEPT ![s] = "cancel"] /\ work' = Over(Do("execute", s), v)
    BY <1>5, <1>8 DEF Cancelled, Over
  <2>2. "cancel" \in Resolved BY DEF Resolved
  <2> QED BY <1>1, <1>2, <1>4, <1>6, <1>7, <1>8, <2>1, <2>2, TurnTidy
<1>9. CASE mode[s] # "unresolved"
  <2>1. mode' = mode /\ work' = v BY <1>5, <1>9 DEF Cancelled
  <2> QED BY <1>1, <1>2, <1>4, <1>7, <2>1, StillAll
<1> QED BY <1>8, <1>9

LEMMA CancelSourceTidy ==
  ASSUME Shape, Counts, Tidy, CancelSource PROVE Tidy'
<1>1. /\ work # <<>> /\ Top.op = "cancel" /\ Cancelled(Top.on, Tail(work))
      /\ UNCHANGED <<futures, promises, box, cancelBox, life, out, futH, proH, asked>>
  BY DEF CancelSource, Is
<1>2. PICK t \in Items, w \in Seq(Items) :
           /\ t = Top /\ w = Tail(work) /\ Real(t) /\ work = Over(t, w)
  BY <1>1, TopFacts
<1>3. PICK s \in States : s = t.on BY <1>1, <1>2 DEF Real
<1>4. Quiet BY <1>1, QuietTop
<1>5. Unmarked(t) /\ t.op = "cancel" /\ \A l \in Chains : t \notin Markers(l)
  <2>1. Unmarked(t) /\ t.op = "cancel" BY <1>1, <1>2 DEF Unmarked
  <2>2. \A l \in Chains : t \notin Markers(l) BY <2>1, MarkerFacts
  <2> QED BY <2>1, <2>2
<1>6. SameMarks(w, work)
  <2>1. SameMarks(work, w) BY <1>2, <1>5, MarksOver
  <2> QED BY <2>1 DEF SameMarks
<1>7. ASSUME NEW l \in Chains, NEW D, Shielded(work, Markers(l), D)
      PROVE  s \notin D /\ Shielded(w, Markers(l), D)
  <2>1. Harmless(t, D) /\ Shielded(w, Markers(l), D) BY <1>2, <1>5, <1>7, ShieldsPop
  <2> QED BY <1>3, <1>5, <2>1 DEF Harmless
<1>8. ASSUME NEW r, NEW l \in Chains, NEW D \in SUBSET States, Treed(r, D, l)
      PROVE  s \notin D /\ Shielded(w, Markers(l), D)
  BY <1>7, <1>8 DEF Treed
<1>9. CASE mode[s] = "unresolved"
  <2>1. mode' = [mode EXCEPT ![s] = "cancel"] /\ work' = Over(Do("execute", s), w)
    BY <1>1, <1>2, <1>3, <1>9 DEF Cancelled, Over
  <2>2. "cancel" \in Resolved BY DEF Resolved
  <2>3. ASSUME NEW l \in Chains, Dst[l] = s PROVE life[l] = "linked"
    <3> SUFFICES ASSUME life[l] # "linked" PROVE FALSE OBVIOUS
    <3>1. PICK r \in [States -> Nat] : Calm(r) BY DEF Tidy
    <3>2. PICK D \in SUBSET States : Tree(mode, life, r, D, l) /\ Shielded(work, Markers(l), D)
      BY <1>9, <2>3, <3>1, Loose
    <3>3. s \in D BY <2>3, <3>2 DEF Tree
    <3> QED BY <1>7, <3>2, <3>3
  <2> QED BY <1>1, <1>4, <1>6, <1>8, <1>9, <2>1, <2>2, <2>3, TurnTidy
<1>10. CASE mode[s] # "unresolved"
  <2>1. mode' = mode /\ work' = w BY <1>1, <1>2, <1>3, <1>10 DEF Cancelled
  <2>2. \A D : Shields(work', w, D) /\ SameMarks(work', w) BY <2>1 DEF Shields, SameMarks
  <2> QED BY <1>1, <1>2, <1>4, <1>6, <1>8, <2>1, StillAll
<1> QED BY <1>9, <1>10

(* A continuation that returns is destroyed next: the mark stays.            *)
LEMMA ReturnMarks ==
  ASSUME NEW w \in Seq(Items), NEW x \in Links, NEW s \in States
  PROVE  SameMarks(Over(Do("decFuture", s), Over(Do("delete", x), w)), Over(Do("call", x), w))
<1>1. PICK a, b, c \in Items : a = Do("decFuture", s) /\ b = Do("delete", x) /\ c = Do("call", x)
  BY Made DEF Ops
<1> SUFFICES ASSUME NEW n \in Links
             PROVE  Count(Over(a, Over(b, w)), Marks(n)) = Count(Over(c, w), Marks(n))
  BY <1>1 DEF SameMarks
<1>2. /\ a \notin Marks(n) /\ (b \in Marks(n) <=> x = n) /\ (c \in Marks(n) <=> x = n)
  BY <1>1, DoCounted DEF Ops
<1>3. Over(b, w) \in Seq(Items) BY PushItem
<1>4. Count(Over(a, Over(b, w)), Marks(n)) = Count(Over(b, w), Marks(n)) + 0 BY <1>2, <1>3, CountOver
<1>5. Count(Over(b, w), Marks(n)) = Count(w, Marks(n)) + (IF x = n THEN 1 ELSE 0)
  BY <1>2, CountOver
<1>6. Count(Over(c, w), Marks(n)) = Count(w, Marks(n)) + (IF x = n THEN 1 ELSE 0)
  BY <1>2, CountOver
<1>7. Count(Over(b, w), Marks(n)) \in Nat BY <1>3, CountType
<1> QED BY <1>4, <1>5, <1>6, <1>7

LEMMA ReturnTidy ==
  ASSUME Shape, Counts, Tidy, NEW b \in BOOLEAN, Return(b) PROVE Tidy'
<1>1. PICK x \in Links \union Cancels, w \in Seq(Items), e \in Seq(Items) :
           /\ work # <<>> /\ Top = Do("call", x) /\ w = Tail(work)
           /\ work = Over(Do("call", x), w) /\ Range(work) = {Do("call", x)} \union Range(w)
           /\ e = IF x \in Links THEN Over(Do("decFuture", Src[x]), Over(Do("delete", x), w)) ELSE w
           /\ b => x \in out /\ mode[Dst[x]] = "unresolved"
           /\ mode' = IF b THEN [mode EXCEPT ![Dst[x]] = "value"] ELSE mode
           /\ work' = IF b THEN Over(Do("execute", Dst[x]), e) ELSE e
           /\ life' = IF x \in Links THEN life ELSE [life EXCEPT ![x] = "deleted"]
           /\ UNCHANGED <<futures, promises, box, cancelBox, out, futH, proH, asked>>
  BY ReturnStep
<1>2. PICK t \in Items : t = Do("call", x) /\ t.op = "call" /\ t.on = x BY Made DEF Ops
<1>3. Quiet BY <1>1, <1>2, QuietTop
<1>4. CASE x \in Cancels
  <2>1. x \notin Links /\ x \notin Chains BY <1>4, Consts
  <2>2. ~ b BY <1>1, <2>1 DEF Shape, Typed
  <2>3. mode' = mode /\ work' = w BY <1>1, <2>1, <2>2
  <2>4. \A n \in Links : life'[n] = life[n] BY <1>1, <2>1 DEF Shape, Typed
  <2>5. Unmarked(t) /\ t.op # "decPromise" BY <1>2, <2>1 DEF Unmarked
  <2>6. /\ SameMarks(work', work)
        /\ \A r : \A l \in Chains : \A D \in SUBSET States :
             Treed(r, D, l) => Shielded(work', Markers(l), D)
    <3>1. SameMarks(work', w) /\ \A D : Shields(work', w, D) BY <2>3 DEF SameMarks, Shields
    <3> QED BY <1>1, <1>2, <2>5, <3>1, Popped
  <2>7. OnePromise' /\ \A l \in Chains : proH'[Dst[l]] = 0
    BY <1>1, <2>3 DEF Tidy, OnePromise, Placed
  <2> QED BY <1>1, <1>3, <2>3, <2>4, <2>6, <2>7, StillTidy
<1>5. CASE x \in Links
  <2>1. PICK s \in States : s = Src[x] BY <1>5, Consts
  <2>2. life' = life /\ e = Over(Do("decFuture", s), Over(Do("delete", x), w)) BY <1>1, <1>5, <2>1
  <2>3. life[x] = "running" BY <1>1, <1>5, CallRuns DEF Tidy
  <2>4. mode[s] \in Resolved
    <3>1. t \in Range(work) BY <1>1, <1>2
    <3>2. Standing(t) BY <3>1 DEF Counts
    <3> QED BY <1>2, <1>5, <2>1, <3>2 DEF Standing
  <2>5. SameMarks(e, work) BY <1>1, <1>5, <2>2, ReturnMarks
  <2>6. ASSUME NEW r, NEW l \in Chains, NEW D \in SUBSET States, Treed(r, D, l)
        PROVE  Shielded(e, Markers(l), D) /\ s \notin D /\ (x # l => Dst[x] \notin D)
    <3>1. /\ \A d \in D : mode[d] = "unresolved"
          /\ x \in Chains /\ x # l => Dst[x] \notin D
      BY <2>3, <2>6, TreeFacts DEF Tidy
    <3>2. s \notin D BY <2>4, <3>1 DEF Resolved
    <3>3. x # l => Dst[x] \notin D
      <4>1. x \notin Chains => Dst[x] = NoState BY <1>5 DEF Chains
      <4>2. NoState \notin D BY FutureAssumption
      <4> QED BY <3>1, <4>1, <4>2
    <3>4. PICK p \in Items : p = Do("delete", x) /\ p.op = "delete" /\ p.on = x BY <1>5, Made DEF Ops
    <3>5. PICK q \in Items : q = Do("decFuture", s) /\ q.op = "decFuture" /\ q.on = s BY Made DEF Ops
    <3>6. Shielded(Over(p, w), Markers(l), D)
      <4>1. CASE x = l BY <3>4, <4>1, ShieldOver, MarkerFacts
      <4>2. CASE x # l
        <5>1. t \notin Markers(l) BY <1>2, <4>2, MarkerFacts
        <5>2. Shielded(Over(t, w), Markers(l), D) BY <1>1, <1>2, <2>6 DEF Treed
        <5>3. Shielded(w, Markers(l), D) BY <5>1, <5>2, ShieldsPop
        <5>4. Harmless(p, D) BY <2>1, <3>2, <3>3, <3>4, <4>2 DEF Harmless
        <5> QED BY <5>3, <5>4, ShieldOver
      <4> QED BY <4>1, <4>2
    <3>7. Harmless(q, D) BY <3>2, <3>5 DEF Harmless
    <3>8. Over(p, w) \in Seq(Items) BY PushItem
    <3>9. Shielded(Over(q, Over(p, w)), Markers(l), D) BY <3>6, <3>7, <3>8, ShieldOver
    <3> QED BY <2>2, <3>2, <3>3, <3>4, <3>5, <3>9
  <2>7. CASE ~ b
    <3>1. mode' = mode /\ work' = e BY <1>1, <2>7
    <3>2. UNCHANGED <<mode, promises, cancelBox, life, out, proH>> BY <1>1, <2>2, <3>1
    <3>3. work' \in Seq(Items) /\ SameMarks(work', work) BY <2>5, <3>1
    <3>4. \A r : \A l \in Chains : \A D \in SUBSET States :
            Treed(r, D, l) => Shielded(work', Markers(l), D)
      BY <2>6, <3>1
    <3> QED BY <1>3, <3>2, <3>3, <3>4, StillAll
  <2>8. CASE b
    <3>1. x \in Chains BY <1>1, <2>8 DEF Shape, Typed
    <3>2. PICK d \in States : d = Dst[x] BY <3>1, Consts
    <3>3. PICK m \in Resolved : m = "value" BY DEF Resolved
    <3>4. mode[d] = "unresolved" /\ mode' = [mode EXCEPT ![d] = m] /\ work' = Over(Do("execute", d), e)
      BY <1>1, <2>8, <3>2, <3>3
    <3>5. \A l \in Chains : Dst[l] = d => l = x BY <3>1, <3>2, Consts
    <3>6. \A l \in Chains : Dst[l] = d => \/ m = "value" /\ life[l] # "linked"
                                          \/ m = "cancel" /\ (promises'[d] > 0 => life[l] = "linked")
      BY <2>3, <3>3, <3>5
    <3>7. \A r : \A l \in Chains : \A D \in SUBSET States :
            Treed(r, D, l) /\ Dst[l] # d => d \notin D /\ Shielded(e, Markers(l), D)
      BY <2>6, <3>2
    <3>8. /\ \A n \in Links : life'[n] = life[n]
          /\ UNCHANGED <<out, proH, cancelBox>>
          /\ \A l \in Chains : Dst[l] # d => promises'[Dst[l]] = promises[Dst[l]]
      BY <1>1, <2>2
    <3> QED BY <1>3, <2>5, <3>4, <3>6, <3>7, <3>8, TurnTidy
  <2> QED BY <2>7, <2>8
<1> QED BY <1>1, <1>4, <1>5

(* Nothing is attached to a state that nobody refers to.                     *)
LEMMA GoneLives ==
  ASSUME Shape, NEW s \in States, NEW w, Stack(w), Gone(s, w), Tally(w, futures', promises', s)
  PROVE  \A n \in Links : life'[n] = life[n]
<1>1. /\ futures'[s] = 0
      /\ life' = [x \in DOMAIN life |->
                    IF x \in Range(box[s]) \union (Range(cancelBox[s]) \ Links)
                    THEN "deleted" ELSE life[x]]
  BY DEF Gone
<1>2. \A n \in Links : life'[n] = IF n \in Range(box[s]) THEN "deleted" ELSE life[n]
  BY <1>1 DEF Shape, Typed
<1>3. PICK f, a \in Nat :
           /\ IsFiniteSet(Live(life, s)) /\ a = Cardinality(Live(life, s))
           /\ futH[s] \in Nat /\ futures'[s] = futH[s] + f + a
  BY DEF Tally
<1>4. a = 0 BY <1>1, <1>3
<1>5. Live(life, s) = {} BY <1>3, <1>4, FS_EmptySet
<1>6. \A n \in Links : n \in Range(box[s]) => n \in Live(life, s)
  BY DEF Shape, Boxes, Live, Alive
<1> QED BY <1>2, <1>5, <1>6

(* What a call that gives a counter back does to the chains.                 *)
LEMMA DecFrame ==
  ASSUME Shape, Counts, Tidy, Counts', NEW s \in States, NEW t \in Items, NEW w \in Seq(Items),
         t = Do(t.op, s), t.op \in {"decFuture", "decPromise"}, work = Over(t, w),
         promises' = [promises EXCEPT ![s] = IF t.op = "decPromise" THEN @ - 1 ELSE @],
         \A l \in Chains : mode'[Dst[l]] = "unresolved" =>
           mode[Dst[l]] = "unresolved" /\ cancelBox'[Dst[l]] = cancelBox[Dst[l]]
  PROVE  /\ OnePromise'
         /\ \A l \in Chains : Dst[l] # s => promises'[Dst[l]] = promises[Dst[l]]
         /\ \A l \in Chains : t.op = "decPromise" /\ Dst[l] = s /\ mode[s] = "unresolved"
              => promises'[s] = 0
         /\ SameMarks(w, work)
         /\ \A l \in Chains : \A D : Shielded(work, Markers(l), D) /\ t \notin Markers(l) =>
              s \notin D /\ Shielded(w, Markers(l), D)
         /\ \A l \in Chains : mode'[Dst[l]] = "unresolved" => t \notin Markers(l)
         /\ \A l \in Chains : t \in Markers(l) => Dst[l] = s
<1>1. \A l \in Chains : mode[Dst[l]] = "unresolved" =>
        promises[Dst[l]] = 1 /\ cancelBox[Dst[l]] # <<>> /\ Head(cancelBox[Dst[l]]) = l
  BY DEF Tidy, OnePromise
<1>2. \A i \in States : promises'[i] = IF i = s /\ t.op = "decPromise" THEN promises[i] - 1 ELSE promises[i]
  BY DEF Shape, Typed
<1>3. \A l \in Chains : mode'[Dst[l]] = "unresolved" => promises'[Dst[l]] > 0
  BY Consts DEF Counts, Kept
<1>4. \A l \in Chains : t.op = "decPromise" /\ Dst[l] = s /\ mode[s] = "unresolved" => promises'[s] = 0
  BY <1>1, <1>2
<1>5. ASSUME NEW l \in Chains, mode'[Dst[l]] = "unresolved"
      PROVE  ~ (t.op = "decPromise" /\ Dst[l] = s) /\ promises'[Dst[l]] = 1
  <2>1. mode[Dst[l]] = "unresolved" BY <1>5
  <2>2. promises'[Dst[l]] > 0 BY <1>3, <1>5
  <2>3. ~ (t.op = "decPromise" /\ Dst[l] = s) BY <1>4, <2>1, <2>2
  <2> QED BY <1>1, <1>2, <2>1, <2>3, Consts
<1>6. OnePromise' BY <1>1, <1>5 DEF OnePromise
<1>7. \A l \in Chains : Dst[l] # s => promises'[Dst[l]] = promises[Dst[l]] BY <1>2, Consts
<1>8. t.on = s /\ Unmarked(t) BY MarkerFacts DEF Unmarked
<1>9. \A l \in Chains : t \in Markers(l) => t.op = "decPromise" /\ Dst[l] = s
  <2> SUFFICES ASSUME NEW l \in Chains, t \in Markers(l) PROVE t.op = "decPromise" /\ Dst[l] = s
    OBVIOUS
  <2>1. t = Do("call", l) \/ t = Do("delete", l) \/ t = Do("decPromise", Dst[l]) BY MarkerFacts
  <2>2. Do("call", l).op = "call" /\ Do("delete", l).op = "delete" BY MarkerFacts
  <2>3. t = Do("decPromise", Dst[l]) BY <2>1, <2>2
  <2>4. t.op = "decPromise" /\ t.on = Dst[l] BY <2>3, MarkerFacts
  <2> QED BY <1>8, <2>4
<1>10. SameMarks(w, work)
  <2>1. SameMarks(work, w) BY <1>8, MarksOver
  <2> QED BY <2>1 DEF SameMarks
<1>11. ASSUME NEW l \in Chains, NEW D, Shielded(work, Markers(l), D), t \notin Markers(l)
       PROVE  s \notin D /\ Shielded(w, Markers(l), D)
  <2>1. Harmless(t, D) /\ Shielded(w, Markers(l), D) BY <1>11, ShieldsPop
  <2> QED BY <1>8, <2>1 DEF Harmless
<1> QED BY <1>4, <1>5, <1>6, <1>7, <1>9, <1>10, <1>11

LEMMA DecTidy ==
  ASSUME Shape, Counts, Tidy, DecFuture \/ DecPromise PROVE Tidy'
<1>1. PICK s \in States, w \in Seq(Items), m \in {"decFuture", "decPromise"} :
           /\ work # <<>> /\ Top = Do(m, s) /\ w = Tail(work)
           /\ work = Over(Do(m, s), w) /\ Range(work) = {Do(m, s)} \union Range(w)
           /\ mode[s] # "unborn"
           /\ futures' = [futures EXCEPT ![s] = IF m = "decFuture" THEN @ - 1 ELSE @]
           /\ promises' = [promises EXCEPT ![s] = IF m = "decPromise" THEN @ - 1 ELSE @]
           /\ Gone(s, w) \/ Closed(s, w) \/ Stays(s, w)
           /\ UNCHANGED <<out, futH, proH, asked>>
  BY DecStep
<1>2. PICK t \in Items : t = Do(m, s) /\ t.op = m /\ t.on = s
  <2>1. m \in Ops BY DEF Ops
  <2> QED BY <2>1, Made
<1>3. Counts' BY DecCounts
<1>4. Quiet BY <1>1, <1>2, QuietTop
<1>5. \A i \in States : i # s => mode'[i] = mode[i] /\ cancelBox'[i] = cancelBox[i]
  BY <1>1 DEF Gone, Closed, Stays, Shape, Typed
<1>6. \A l \in Chains : mode'[Dst[l]] = "unresolved" =>
        mode[Dst[l]] = "unresolved" /\ cancelBox'[Dst[l]] = cancelBox[Dst[l]]
  <2> SUFFICES ASSUME NEW l \in Chains, mode'[Dst[l]] = "unresolved"
               PROVE  mode[Dst[l]] = "unresolved" /\ cancelBox'[Dst[l]] = cancelBox[Dst[l]]
    OBVIOUS
  <2>1. CASE Dst[l] # s BY <1>5, <2>1, Consts
  <2>2. CASE Dst[l] = s BY <1>1, <2>2 DEF Gone, Closed, Stays, Shape, Typed
  <2> QED BY <2>1, <2>2
<1>7. /\ OnePromise'
      /\ \A l \in Chains : Dst[l] # s => promises'[Dst[l]] = promises[Dst[l]]
      /\ \A l \in Chains : t.op = "decPromise" /\ Dst[l] = s /\ mode[s] = "unresolved"
           => promises'[s] = 0
      /\ SameMarks(w, work)
      /\ \A l \in Chains : \A D : Shielded(work, Markers(l), D) /\ t \notin Markers(l) =>
           s \notin D /\ Shielded(w, Markers(l), D)
      /\ \A l \in Chains : mode'[Dst[l]] = "unresolved" => t \notin Markers(l)
      /\ \A l \in Chains : t \in Markers(l) => Dst[l] = s
  <2>1. /\ t = Do(t.op, s) /\ t.op \in {"decFuture", "decPromise"} /\ work = Over(t, w)
        /\ promises' = [promises EXCEPT ![s] = IF t.op = "decPromise" THEN @ - 1 ELSE @]
    BY <1>1, <1>2
  <2> QED BY <1>3, <1>6, <2>1, DecFrame
<1>8. ASSUME NEW r, NEW l \in Chains, NEW D \in SUBSET States, Treed(r, D, l), t \notin Markers(l)
      PROVE  s \notin D /\ Shielded(w, Markers(l), D)
  BY <1>7, <1>8 DEF Treed
<1>9. \A r : \A l \in Chains : \A D \in SUBSET States :
        Treed(r, D, l) /\ mode'[Dst[l]] = "unresolved" => Shielded(w, Markers(l), D)
  BY <1>7, <1>8
<1>10. \A l \in Chains : proH'[Dst[l]] = 0 BY <1>1 DEF Tidy, Placed
<1>11. CASE Stays(s, w)
  <2>1. work' = w /\ UNCHANGED <<mode, box, cancelBox, life>> BY <1>11 DEF Stays
  <2> QED BY <1>1, <1>4, <1>7, <1>9, <1>10, <2>1, StillTidy
<1>12. CASE Closed(s, w)
  <2>1. /\ mode[s] = "unresolved" /\ mode' = [mode EXCEPT ![s] = "cancel"]
        /\ work' = Over(Do("execute", s), w)
        /\ UNCHANGED <<box, cancelBox, life>>
    BY <1>12 DEF Closed
  <2>2. PICK n \in Resolved : n = "cancel" BY DEF Resolved
  <2>3. ASSUME NEW l \in Chains, Dst[l] = s, promises'[s] > 0 PROVE life[l] = "linked"
    <3> SUFFICES ASSUME life[l] # "linked" PROVE FALSE OBVIOUS
    <3>1. t.op # "decPromise" BY <1>7, <2>1, <2>3
    <3>2. t \notin Markers(l)
      <4>1. t # Do("call", l) /\ t # Do("delete", l) /\ t # Do("decPromise", Dst[l])
        BY <1>1, <1>2, <3>1, MarkerFacts
      <4> QED BY <4>1, MarkerFacts
    <3>3. PICK r \in [States -> Nat] : Calm(r) BY DEF Tidy
    <3>4. PICK D \in SUBSET States : Tree(mode, life, r, D, l) /\ Shielded(work, Markers(l), D)
      BY <2>1, <2>3, <3>3, Loose
    <3>5. s \in D BY <2>3, <3>4 DEF Tree
    <3> QED BY <1>7, <3>2, <3>4, <3>5
  <2>4. \A l \in Chains : Dst[l] = s => \/ n = "value" /\ life[l] # "linked"
                                        \/ n = "cancel" /\ (promises'[s] > 0 => life[l] = "linked")
    BY <2>2, <2>3
  <2>5. \A r : \A l \in Chains : \A D \in SUBSET States :
          Treed(r, D, l) /\ Dst[l] # s => s \notin D /\ Shielded(w, Markers(l), D)
    BY <1>7, <1>8
  <2>6. \A k \in Links : life'[k] = life[k] BY <2>1
  <2>7. UNCHANGED <<out, proH, cancelBox>> BY <1>1, <2>1
  <2>8. mode[s] = "unresolved" /\ mode' = [mode EXCEPT ![s] = n] BY <2>1, <2>2
  <2>9. work' = Over(Do("execute", s), w) /\ SameMarks(w, work) BY <1>7, <2>1
  <2>10. \A l \in Chains : Dst[l] # s => promises'[Dst[l]] = promises[Dst[l]] BY <1>7
  <2> QED BY <1>4, <2>4, <2>5, <2>6, <2>7, <2>8, <2>9, <2>10, TurnTidy
<1>13. CASE Gone(s, w)
  <2>1. Tally(w, futures', promises', s)
    <3>1. Stack(w) /\ Balance BY DEF Stack, Counts
    <3>2. /\ work = Over(Do(m, s), w)
          /\ futures' = [futures EXCEPT ![s] = IF m = "decFuture" THEN @ - 1 ELSE @]
          /\ promises' = [promises EXCEPT ![s] = IF m = "decPromise" THEN @ - 1 ELSE @]
      BY <1>1
    <3> QED BY <3>1, <3>2, DecBalance
  <2>2. \A n \in Links : life'[n] = life[n]
    <3>1. Stack(w) BY DEF Stack
    <3> QED BY <1>13, <2>1, <3>1, GoneLives
  <2>3. Like(work', w)
    <3>1. \A y \in Range(w) : y.op \notin {"links", "cancels"} => y.todo = <<>>
      BY <1>1 DEF Shape, Real
    <3> QED BY <1>13, <3>1, CutFacts DEF Gone
  <2>4. work' \in Seq(Items) /\ SameMarks(work', w) /\ \A D : Shields(work', w, D)
    <3>1. work' \in Seq(Items) BY <2>3 DEF Like
    <3> QED BY <2>3, <3>1, MarksLike, ShieldsLike
  <2>5. SameMarks(work', work) BY <1>7, <2>4 DEF SameMarks
  <2>6. \A r : \A l \in Chains : \A D \in SUBSET States :
          Treed(r, D, l) /\ mode'[Dst[l]] = "unresolved" => Shielded(work', Markers(l), D)
    BY <1>9, <2>4 DEF Shields
  <2>7. mode'[s] = "deleted" /\ cancelBox'[s] = <<>> /\ promises'[s] = 0
    BY <1>13 DEF Gone, Shape, Typed
  <2>8. \A l \in Chains : mode'[Dst[l]] = mode[Dst[l]] \/ (mode'[Dst[l]] = "deleted" /\ life[l] # "linked")
    <3> SUFFICES ASSUME NEW l \in Chains, Dst[l] = s PROVE life[l] # "linked"
      BY <1>5, <2>7, Consts
    <3>1. life[l] = "linked" => l \in out' BY <1>1 DEF Tidy, Placed, Alive
    <3>2. l \in out' => promises'[s] > 0
      <4>1. Balance' BY <1>3 DEF Counts
      <4>2. PICK f, p, a, b \in Nat :
           /\ b = Cardinality(Ends(out, s)) /\ proH[s] \in Nat /\ promises'[s] = proH[s] + p + b
        BY <2>1 DEF Tally
      <4>3. out \in SUBSET Chains BY DEF Shape, Typed
      <4>4. l \in out => b = 1 BY <4>2, <4>3, EndsFacts
      <4> QED BY <1>1, <4>2, <4>4
    <3> QED BY <2>7, <3>1, <3>2
  <2>9. \A l \in Chains : l \in Range(cancelBox'[Dst[l]]) => l \in Range(cancelBox[Dst[l]])
    <3> SUFFICES ASSUME NEW l \in Chains, Dst[l] = s PROVE l \notin Range(cancelBox'[Dst[l]])
      BY <1>5, Consts
    <3>1. Range(<<>>) = {} BY DEF Range
    <3> QED BY <2>7, <3>1
  <2> QED BY <1>1, <1>4, <1>7, <1>10, <2>2, <2>4, <2>5, <2>6, <2>8, <2>9, StillTidy
<1> QED BY <1>1, <1>11, <1>12, <1>13

(* The calls that executing a state starts with.                             *)
LEMMA ExecuteStack ==
  ASSUME Shape, Counts, Execute
  PROVE  \E s \in States :
           /\ work # <<>> /\ Top = Do("execute", s)
           /\ work' \in Seq(Items) /\ work' # <<>> /\ SameMarks(work', work)
           /\ \A l \in Chains : \A D : Shielded(work, Markers(l), D) /\ s \notin D
                => Shielded(work', Markers(l), D)
           /\ mode[s] \in Resolved
           /\ \/ /\ mode[s] = "cancel" /\ promises[s] > 0
                 /\ promises' = [promises EXCEPT ![s] = @ + 1]
                 /\ Head(work') = Walk("cancels", s, cancelBox[s])
                 /\ UNCHANGED <<cancelBox, life>>
              \/ /\ mode[s] = "value" \/ promises[s] = 0
                 /\ Emptied(s)
                 /\ UNCHANGED promises
           /\ UNCHANGED <<mode, box, out, futH, proH, asked>>
<1>1. PICK s \in States, w \in Seq(Items), t \in Items, y \in Items :
           /\ work # <<>> /\ t = Do("execute", s) /\ t.op = "execute" /\ t.on = s
           /\ y = Do("activate", s) /\ y.op = "activate" /\ y.on = s
           /\ t = Top /\ w = Tail(work) /\ work = Over(t, w) /\ Range(work) = {t} \union Range(w)
           /\ Sound(w) /\ mode[s] # "unborn"
           /\ \A i \in States : /\ Count(w, FutureOf(i)) = Count(work, FutureOf(i))
                                /\ Count(w, {Do("decPromise", i)}) = Count(work, {Do("decPromise", i)})
           /\ \/ /\ mode[s] = "cancel" /\ promises[s] > 0
                 /\ promises' = [promises EXCEPT ![s] = @ + 1]
                 /\ work' = <<Walk("cancels", s, cancelBox[s]), y, Do("decPromise", s)>> \o w
                 /\ UNCHANGED <<futures, cancelBox, life>>
              \/ /\ mode[s] = "cancel" /\ promises[s] = 0 /\ futures[s] > 0
                 /\ futures' = [futures EXCEPT ![s] = @ + 1]
                 /\ Emptied(s)
                 /\ work' = <<y, Do("decFuture", s)>> \o w
                 /\ UNCHANGED promises
              \/ /\ mode[s] = "value"
                 /\ Emptied(s)
                 /\ work' = <<y>> \o w
                 /\ UNCHANGED <<futures, promises>>
           /\ UNCHANGED <<mode, box, out, futH, proH, asked>>
  <2>1. Steady BY DEF Counts
  <2> QED BY <2>1, ExecuteTop
<1>2. PICK x \in Items : x = Walk("cancels", s, cancelBox[s]) /\ x.op = "cancels"
  <2>1. cancelBox[s] \in Seq(Links \union Cancels)
    <3>1. cancelBox[s] \in Seq(Chains \union Cancels) /\ Chains \subseteq Links BY DEF Shape, Typed, Chains
    <3> QED BY <3>1
  <2> QED BY <2>1, MadeWalk DEF Ops
<1>3. PICK p \in Items : p = Do("decPromise", s) /\ p.op = "decPromise" /\ p.on = s BY Made DEF Ops
<1>4. PICK f \in Items : f = Do("decFuture", s) /\ f.op = "decFuture" /\ f.on = s BY Made DEF Ops
<1>5. /\ Unmarked(x) /\ Unmarked(y) /\ Unmarked(p) /\ Unmarked(f) /\ Unmarked(t)
      /\ \A D : Harmless(x, D) /\ Harmless(y, D)
      /\ \A D : s \notin D => Harmless(p, D) /\ Harmless(f, D)
  BY <1>1, <1>2, <1>3, <1>4 DEF Unmarked, Harmless
<1>6. ASSUME NEW z \in Items, Unmarked(z), \A D : s \notin D => Harmless(z, D),
             NEW v \in Seq(Items), SameMarks(v, w), \A D : s \notin D => Shields(v, w, D)
      PROVE  /\ Over(z, v) \in Seq(Items) /\ Over(z, v) # <<>> /\ Head(Over(z, v)) = z
             /\ SameMarks(Over(z, v), w)
             /\ \A D : s \notin D => Shields(Over(z, v), w, D)
  <2>1. Over(z, v) \in Seq(Items) /\ Over(z, v) # <<>> /\ Head(Over(z, v)) = z BY <1>6, PushItem
  <2>2. SameMarks(Over(z, v), v) BY <1>6, MarksOver
  <2>3. SameMarks(Over(z, v), w) BY <1>6, <2>2 DEF SameMarks
  <2>4. \A D : s \notin D => Shields(Over(z, v), v, D) BY <1>6, ShieldsOver
  <2>5. \A D : s \notin D => Shields(Over(z, v), w, D) BY <1>6, <2>4 DEF Shields
  <2> QED BY <2>1, <2>3, <2>5
<1>7. SameMarks(w, w) /\ \A D : Shields(w, w, D) BY DEF SameMarks, Shields
<1>8. /\ work' \in Seq(Items) /\ work' # <<>> /\ SameMarks(work', w)
      /\ \A D : s \notin D => Shields(work', w, D)
      /\ mode[s] = "cancel" /\ promises[s] > 0 => Head(work') = x
  <2>1. CASE /\ mode[s] = "cancel" /\ promises[s] > 0
             /\ work' = <<Walk("cancels", s, cancelBox[s]), y, Do("decPromise", s)>> \o w
    <3>1. work' = Over(x, Over(y, Over(p, w))) BY <1>2, <1>3, <2>1, PushItemsThree
    <3>2. PICK u : u = Over(p, w) OBVIOUS
    <3>3. u \in Seq(Items) /\ SameMarks(u, w) /\ \A D : s \notin D => Shields(u, w, D)
      BY <1>5, <1>6, <1>7, <3>2
    <3>4. PICK v : v = Over(y, u) OBVIOUS
    <3>5. v \in Seq(Items) /\ SameMarks(v, w) /\ \A D : s \notin D => Shields(v, w, D)
      BY <1>5, <1>6, <3>3, <3>4
    <3>6. work' = Over(x, v) BY <3>1, <3>2, <3>4
    <3> QED BY <1>5, <1>6, <3>5, <3>6
  <2>2. CASE promises[s] = 0 /\ work' = <<y, Do("decFuture", s)>> \o w
    <3>1. work' = Over(y, Over(f, w)) BY <1>4, <2>2, PushItems
    <3>2. PICK u : u = Over(f, w) OBVIOUS
    <3>3. u \in Seq(Items) /\ SameMarks(u, w) /\ \A D : s \notin D => Shields(u, w, D)
      BY <1>5, <1>6, <1>7, <3>2
    <3>4. work' = Over(y, u) BY <3>1, <3>2
    <3>5. ~ (promises[s] > 0) BY <2>2
    <3> QED BY <1>5, <1>6, <3>3, <3>4, <3>5
  <2>3. CASE mode[s] = "value" /\ work' = <<y>> \o w
    <3>1. work' = Over(y, w) BY <2>3 DEF Over
    <3> QED BY <1>5, <1>6, <1>7, <2>3, <3>1
  <2> QED BY <1>1, <2>1, <2>2, <2>3
<1>9. SameMarks(work', work)
  <2>1. SameMarks(Over(t, w), w) BY <1>5, MarksOver
  <2> QED BY <1>1, <1>8, <2>1 DEF SameMarks
<1>10. ASSUME NEW l \in Chains, NEW D, Shielded(work, Markers(l), D), s \notin D
       PROVE  Shielded(work', Markers(l), D)
  <2>1. t \notin Markers(l)
    <3>1. t # Do("call", l) /\ t # Do("delete", l) /\ t # Do("decPromise", Dst[l]) BY <1>1, MarkerFacts
    <3> QED BY <3>1, MarkerFacts
  <2>2. Shielded(w, Markers(l), D) BY <1>1, <1>10, <2>1, ShieldsPop
  <2> QED BY <1>8, <1>10, <2>2 DEF Shields
<1>11. mode[s] \in Resolved BY <1>1 DEF Resolved
<1>12. work # <<>> /\ Top = Do("execute", s) /\ UNCHANGED <<mode, box, out, futH, proH, asked>>
  BY <1>1
<1>13. \/ /\ mode[s] = "cancel" /\ promises[s] > 0
          /\ promises' = [promises EXCEPT ![s] = @ + 1]
          /\ Head(work') = Walk("cancels", s, cancelBox[s])
          /\ UNCHANGED <<cancelBox, life>>
       \/ /\ mode[s] = "value" \/ promises[s] = 0
          /\ Emptied(s)
          /\ UNCHANGED promises
  BY <1>1, <1>2, <1>8
<1>14. work' \in Seq(Items) /\ work' # <<>> BY <1>8
<1>15. \A l \in Chains : \A D : Shielded(work, Markers(l), D) /\ s \notin D
         => Shielded(work', Markers(l), D)
  BY <1>10
<1> QED BY <1>9, <1>11, <1>12, <1>13, <1>14, <1>15

LEMMA ExecuteTidy ==
  ASSUME Shape, Counts, Tidy, Execute PROVE Tidy'
<1>1. PICK s \in States :
           /\ work # <<>> /\ Top = Do("execute", s)
           /\ work' \in Seq(Items) /\ work' # <<>> /\ SameMarks(work', work)
           /\ \A l \in Chains : \A D : Shielded(work, Markers(l), D) /\ s \notin D
                => Shielded(work', Markers(l), D)
           /\ mode[s] \in Resolved
           /\ \/ /\ mode[s] = "cancel" /\ promises[s] > 0
                 /\ promises' = [promises EXCEPT ![s] = @ + 1]
                 /\ Head(work') = Walk("cancels", s, cancelBox[s])
                 /\ UNCHANGED <<cancelBox, life>>
              \/ /\ mode[s] = "value" \/ promises[s] = 0
                 /\ Emptied(s)
                 /\ UNCHANGED promises
           /\ UNCHANGED <<mode, box, out, futH, proH, asked>>
  BY ExecuteStack
<1>2. Top.op = "execute" /\ Top.on = s BY <1>1, MarkerFacts
<1>3. \A n \in Links : life'[n] = life[n] BY <1>1, EmptiedFacts
<1>4. \A i \in States : i # s => cancelBox'[i] = cancelBox[i] /\ promises'[i] = promises[i]
  BY <1>1, EmptiedFacts DEF Shape, Typed
<1>5. "unresolved" \notin Resolved BY DEF Resolved
<1>6. Placed'
  <2>1. ~ Is("delete") BY <1>2 DEF Is
  <2>2. \A l \in Chains : proH'[Dst[l]] = 0 BY <1>1 DEF Tidy, Placed
  <2> QED BY <1>1, <1>3, <2>1, <2>2, PlacedKeeps DEF Tidy
<1>7. OnePromise' BY <1>1, <1>4, <1>5, Consts DEF Tidy, OnePromise
<1>8. ASSUME NEW l \in Chains
      PROVE  /\ mode'[Dst[l]] \in Resolved /\ l \in Range(cancelBox'[Dst[l]]) =>
                  /\ First(l)' /\ Head(cancelBox'[Dst[l]]) = l
                  /\ mode'[Dst[l]] = "cancel" /\ promises'[Dst[l]] > 0 => life'[l] = "linked"
             /\ life'[l] = "linked" => \/ mode'[Dst[l]] = "unresolved"
                                       \/ mode'[Dst[l]] = "cancel" /\ l \in Range(cancelBox'[Dst[l]])
  <2>1. /\ mode[Dst[l]] \in Resolved /\ l \in Range(cancelBox[Dst[l]]) =>
             /\ First(l) /\ Head(cancelBox[Dst[l]]) = l
             /\ mode[Dst[l]] = "cancel" /\ promises[Dst[l]] > 0 => life[l] = "linked"
        /\ life[l] = "linked" => \/ mode[Dst[l]] = "unresolved"
                                 \/ mode[Dst[l]] = "cancel" /\ l \in Range(cancelBox[Dst[l]])
    <3>1. ~ (work # <<>> /\ Top = Do("delete", l)) BY <1>2, MarkerFacts
    <3> QED BY <3>1 DEF Tidy, Immediate
  <2>2. life'[l] = life[l] /\ Dst[l] \in States BY <1>3, Consts
  <2>3. CASE Dst[l] # s
    <3>1. ~ First(l) BY <1>2, <2>3, MarkerFacts DEF First
    <3>2. "cancel" \in Resolved BY DEF Resolved
    <3> QED BY <1>1, <1>4, <2>1, <2>2, <2>3, <3>1, <3>2
  <2>4. CASE Dst[l] = s /\ mode[s] = "cancel" /\ promises[s] > 0 /\ cancelBox' = cancelBox
             /\ Head(work') = Walk("cancels", s, cancelBox[s])
    <3>1. l \in Range(cancelBox[s]) => cancelBox[s] # <<>>
      <4>1. Range(<<>>) = {} BY DEF Range
      <4> QED BY <4>1
    <3>2. Head(work').op = "cancels" /\ Head(work').on = s /\ Head(work').todo = cancelBox[s]
      BY <2>4 DEF Walk
    <3>3. l \in Range(cancelBox[s]) => First(l)' /\ Head(cancelBox[s]) = l /\ life[l] = "linked"
      BY <1>1, <2>1, <2>4, <3>1, <3>2 DEF First, Top
    <3> QED BY <1>1, <2>1, <2>2, <2>4, <3>3
  <2>5. CASE Dst[l] = s /\ (mode[s] = "value" \/ promises[s] = 0) /\ Emptied(s) /\ UNCHANGED promises
    <3>1. l \notin Range(cancelBox'[s])
      <4>1. Range(<<>>) = {} BY DEF Range
      <4>2. cancelBox'[s] = <<>> BY <1>1, <2>5, EmptiedFacts
      <4> QED BY <4>1, <4>2
    <3>2. life[l] # "linked"
      <4> SUFFICES ASSUME life[l] = "linked" PROVE FALSE OBVIOUS
      <4>1. mode[s] = "cancel" BY <1>1, <1>5, <2>1, <2>5
      <4>2. promises[s] = 0 BY <2>5, <4>1
      <4>3. l \in out BY DEF Tidy, Placed, Alive
      <4>4. promises[s] > 0 BY <2>5, <4>3, BalanceGives DEF Counts
      <4> QED BY <4>2, <4>4
    <3> QED BY <2>2, <2>5, <3>1, <3>2
  <2> QED BY <1>1, <2>3, <2>4, <2>5
<1>9. Immediate' BY <1>8 DEF Immediate
<1>10. PICK r \in [States -> Nat] : Ordered(life, r) /\ Calm(r) BY DEF Tidy
<1>11. Ordered(life', r) /\ Calm(r)'
  <2>1. \A n \in Chains : life'[n] = life[n] BY <1>3, Consts
  <2>2. ASSUME NEW l \in Chains, NEW D \in SUBSET States, Treed(r, D, l)
        PROVE  Shielded(work', Markers(l), D) /\ \A d \in D : mode'[d] = "unresolved"
    <3>1. \A d \in D : mode[d] = "unresolved" BY <2>2 DEF Treed, Tree
    <3>2. s \notin D BY <1>1, <1>5, <3>1
    <3> QED BY <1>1, <2>2, <3>1, <3>2 DEF Treed
  <2>3. \A l \in Chains : mode'[Dst[l]] = "unresolved" => mode[Dst[l]] = "unresolved" BY <1>1
  <2> QED BY <1>10, <2>1, <2>2, <2>3, CalmKeeps
<1> QED BY <1>6, <1>7, <1>9, <1>10, <1>11 DEF Tidy

(* A continuation that was attached is called, or is to be destroyed.        *)
LEMMA PlacedMark ==
  ASSUME Shape, Placed, ~ Is("delete"), NEW l \in Links, life[l] = "linked",
         NEW v \in Seq(Items), SameMarks(v, work), NEW o \in {"call", "delete"},
         work' = Over(Do(o, l), v),
         \A n \in Links : n # l => life'[n] = life[n],
         life'[l] = IF o = "call" THEN "running" ELSE "linked",
         UNCHANGED <<out, proH>>
  PROVE  Placed'
<1>1. PICK x \in Items : x = Do(o, l) /\ x.op = o /\ x.on = l
  <2>1. o \in Ops BY DEF Ops
  <2> QED BY <2>1, Made
<1>2. work' = Over(x, v) BY <1>1
<1>3. work' # <<>> /\ Head(work') = x /\ work' \in Seq(Items) BY <1>2, PushItem
<1>4. ASSUME NEW n \in Links PROVE Count(work', Marks(n)) = IF Due(n)' THEN 1 ELSE 0
  <2>1. Count(work, Marks(n)) = IF Due(n) THEN 1 ELSE 0 BY DEF Placed
  <2>2. Due(n) <=> life[n] = "running" BY MarkerFacts DEF Due, Is
  <2>3. Count(v, Marks(n)) = IF life[n] = "running" THEN 1 ELSE 0 BY <2>1, <2>2 DEF SameMarks
  <2>4. x \in Marks(n) <=> n = l
    <3>1. o \in Ops BY DEF Ops
    <3> QED BY <1>1, <3>1, DoCounted
  <2>5. Count(Over(x, v), Marks(n)) = Count(v, Marks(n)) + (IF n = l THEN 1 ELSE 0)
    BY <2>4, CountOver
  <2>6. CASE n = l
    <3>1. Due(n)'
      <4>1. CASE o = "call" BY <2>6, <4>1 DEF Due
      <4>2. CASE o = "delete" BY <1>1, <1>3, <2>6, <4>2 DEF Due, Top
      <4> QED BY <4>1, <4>2
    <3>2. Count(v, Marks(n)) = 0 BY <2>3, <2>6
    <3> QED BY <1>2, <2>5, <2>6, <3>1, <3>2
  <2>7. CASE n # l
    <3>1. Due(n)' <=> life[n] = "running"
      <4>1. x # Do("delete", n) BY <1>1, <2>7, MarkerFacts
      <4> QED BY <1>3, <2>7, <4>1 DEF Due, Top
    <3>2. Count(v, Marks(n)) + 0 = Count(v, Marks(n)) BY <2>3
    <3> QED BY <1>2, <2>3, <2>5, <2>7, <3>1, <3>2
  <2> QED BY <2>6, <2>7
<1>5. \A n \in Chains : n \in out' <=> Alive(life', n)
  <2> SUFFICES ASSUME NEW n \in Chains PROVE n \in out' <=> Alive(life', n) OBVIOUS
  <2>1. n \in out <=> Alive(life, n) BY DEF Placed
  <2>2. n \in Links BY Consts
  <2> QED BY <2>1, <2>2 DEF Alive
<1> QED BY <1>4, <1>5 DEF Placed

LEMMA FlushOwnerTidy ==
  ASSUME Tame, Shape, Counts, Tidy, NEW l \in Links, FlushOwner(l) PROVE Tidy'
<1>1. /\ UserCode /\ life[l] = "linked" /\ ~ Busy(Src[l])
      /\ work' = <<Do("delete", l)>> \o work
      /\ UNCHANGED <<mode, futures, promises, box, cancelBox, life, out, futH, proH, asked>>
  BY DEF FlushOwner
<1>2. Quiet /\ work \in Seq(Items) BY <1>1, UserQuiet
<1>3. PICK x \in Items : x = Do("delete", l) /\ x.op = "delete" /\ x.on = l BY Made DEF Ops
<1>4. work' = Over(x, work) BY <1>1, <1>3 DEF Over
<1>5. Placed'
  <2>1. ~ Is("delete") BY <1>2 DEF Quiet
  <2>2. SameMarks(work, work) BY DEF SameMarks
  <2>3. work' = Over(Do("delete", l), work) BY <1>3, <1>4
  <2> QED BY <1>1, <1>2, <2>1, <2>2, <2>3, PlacedMark DEF Tidy
<1>6. OnePromise' BY <1>1 DEF Tidy, OnePromise
<1>7. Immediate'
  <2>1. \A n \in Chains : /\ mode[Dst[n]] \in Resolved => n \notin Range(cancelBox[Dst[n]])
                          /\ life[n] = "linked" => mode[Dst[n]] = "unresolved"
    BY <1>2, QuietFacts DEF Tidy
  <2> QED BY <1>1, <2>1 DEF Immediate
<1>8. PICK r \in [States -> Nat] : Ordered(life, r) /\ Calm(r) BY DEF Tidy
<1>9. ASSUME NEW n \in Chains, NEW D \in SUBSET States, Treed(r, D, n)
      PROVE  Shielded(work', Markers(n), D) /\ \A d \in D : mode'[d] = "unresolved"
  <2>1. /\ \A d \in D : mode[d] = "unresolved" /\ Busy(d)
        /\ \A k \in Chains : life[k] = "linked" /\ Src[k] \notin D => Dst[k] \notin D
    BY <1>9, TreeFacts DEF Tidy
  <2>2. Src[l] \notin D BY <1>1, <2>1
  <2>3. Dst[l] \notin D
    <3>1. CASE l \in Chains BY <1>1, <2>1, <2>2, <3>1
    <3>2. CASE l \notin Chains
      <4>1. Dst[l] = NoState BY <3>2 DEF Chains
      <4> QED BY <4>1, FutureAssumption
    <3> QED BY <3>1, <3>2
  <2>4. Harmless(x, D) BY <1>3, <2>2, <2>3 DEF Harmless
  <2>5. Shielded(work, Markers(n), D) BY <1>9 DEF Treed
  <2>6. Shielded(Over(x, work), Markers(n), D) BY <1>2, <2>4, <2>5, ShieldOver
  <2> QED BY <1>1, <1>4, <2>1, <2>6
<1>10. Ordered(life', r) /\ Calm(r)'
  <2>1. /\ \A n \in Chains : life'[n] = life[n]
        /\ \A n \in Chains : mode'[Dst[n]] = "unresolved" => mode[Dst[n]] = "unresolved"
    BY <1>1
  <2> QED BY <1>8, <1>9, <2>1, CalmKeeps
<1> QED BY <1>5, <1>6, <1>7, <1>8, <1>10 DEF Tidy

(* A continuation of cancel is next only where its chain is there.           *)
LEMMA CancelsLinked ==
  ASSUME Shape, Counts, Tidy, work # <<>>, Top.op = "cancels", Top.todo # <<>>,
         NEW l \in Links, Head(Top.todo) = l
  PROVE  /\ l \in Chains /\ Dst[l] = Top.on /\ life[l] = "linked" /\ mode[Dst[l]] = "cancel"
         /\ l \in Range(cancelBox[Dst[l]])
<1>1. PICK t \in Items, w \in Seq(Items) :
           /\ t = Top /\ w = Tail(work) /\ Real(t)
           /\ work = Over(t, w) /\ Range(work) = {t} \union Range(w)
  BY TopFacts
<1>2. t.todo \in Seq(Links \union Cancels) /\ t.op = "cancels" BY <1>1 DEF Items
<1>3. l \in Range(t.todo)
  <2>1. t.todo # <<>> /\ l = Head(t.todo) BY <1>1
  <2>2. Range(t.todo) = {Head(t.todo)} \union Range(Tail(t.todo)) BY <1>2, <2>1, Pop
  <2> QED BY <2>1, <2>2
<1>4. l \in Chains /\ Dst[l] = t.on BY <1>1, <1>2, <1>3, Consts DEF Real, On
<1>5. t \in Range(work) BY <1>1
<1>6. Standing(t) BY <1>5 DEF Counts
<1>7. mode[Dst[l]] = "cancel" /\ l \in Range(cancelBox[Dst[l]])
  BY <1>2, <1>3, <1>4, <1>6 DEF Standing
<1>8. promises[Dst[l]] > 0
  <2>1. Sound(work) BY <1>1, <1>2, StackFacts DEF Counts
  <2>2. Guarded(t, w) BY <1>1, <2>1, SoundOver
  <2>3. PICK y \in Range(w) : y \in Guards(t) BY <1>2, <2>2 DEF Guarded, Held
  <2>4. y = Do("decPromise", t.on) BY <1>2, <2>3 DEF Guards
  <2>5. Do("decPromise", Dst[l]) \in Range(work) BY <1>1, <1>4, <2>3, <2>4
  <2>6. PICK d \in States : d = Dst[l] BY <1>4, Consts
  <2>7. Balance BY DEF Counts
  <2> QED BY <2>5, <2>6, <2>7, BalanceGives
<1>9. "cancel" \in Resolved BY DEF Resolved
<1>10. life[l] = "linked" BY <1>4, <1>7, <1>8, <1>9 DEF Tidy, Immediate
<1> QED BY <1>1, <1>4, <1>7, <1>10

LEMMA CallCancelTidy ==
  ASSUME Shape, Counts, Tidy, CallCancel PROVE Tidy'
<1>1. PICK t \in Items, x \in Chains \union Cancels, v \in Seq(Items) :
           /\ work # <<>> /\ t = Top /\ t \in Range(work) /\ t.op = "cancels"
           /\ t.on \in States /\ t.on = On(x)
           /\ t.todo # <<>> /\ x = Head(t.todo) /\ x \in Range(t.todo)
           /\ life[x] # "unborn"
           /\ cancelBox' = [cancelBox EXCEPT ![t.on] = RemoveFirst(@, x)]
           /\ \/ /\ x \in Chains
                 /\ futures' = [futures EXCEPT ![Src[x]] = @ + 1] /\ life' = life
                 /\ work' = Over(Do("delete", x), Over(Do("cancel", Src[x]),
                                                       Over(Do("decFuture", Src[x]), v)))
              \/ /\ x \in Cancels
                 /\ futures' = futures /\ life' = [life EXCEPT ![x] = "running"]
                 /\ work' = Over(Do("call", x), v)
           /\ Like(v, work)
           /\ \A z \in Range(v) : \E y \in Range(work) : Loses(y, z, "cancels", x)
           /\ \A y \in Range(work) : \E z \in Range(v) : Loses(y, z, "cancels", x)
           /\ UNCHANGED <<mode, promises, box, out, futH, proH, asked>>
  BY CallCancelStep
<1>2. PICK s \in States : s = t.on BY <1>1
<1>3. /\ \A i \in States : Range(cancelBox'[i]) = Range(cancelBox[i]) \ {x}
      /\ \A i \in States : i # s => cancelBox'[i] = cancelBox[i]
  <2>1. life' = IF x \in Cancels THEN [life EXCEPT ![x] = "running"] ELSE life
    BY <1>1, Consts
  <2> QED BY <1>1, <1>2, <2>1, CancelBoxLess, ZenonT(30)
<1>4. mode[s] = "cancel"
  <2>1. Standing(t) BY <1>1 DEF Counts
  <2> QED BY <1>1, <1>2, <2>1 DEF Standing
<1>5. \A n \in Links : life'[n] = life[n]
  <2>1. CASE x \in Chains BY <1>1, <2>1, Consts
  <2>2. CASE x \in Cancels BY <1>1, <2>2, Consts DEF Shape, Typed
  <2> QED BY <2>1, <2>2
<1>6. OnePromise'
  <2> SUFFICES ASSUME NEW l \in Chains, mode[Dst[l]] = "unresolved"
               PROVE  promises'[Dst[l]] = 1 /\ cancelBox'[Dst[l]] # <<>> /\ Head(cancelBox'[Dst[l]]) = l
    BY <1>1 DEF OnePromise
  <2>1. Dst[l] # s /\ Dst[l] \in States BY <1>4, Consts
  <2> QED BY <1>1, <1>3, <2>1 DEF Tidy, OnePromise
<1>7. work \in Seq(Items) /\ ~ Is("delete") BY <1>1 DEF Shape, Typed, Is
<1>8. SameMarks(v, work) /\ \A D : Shields(v, work, D) BY <1>1, <1>7, MarksLike, ShieldsLike
<1>9. PICK r \in [States -> Nat] : Ordered(life, r) /\ Calm(r) BY DEF Tidy
<1>10. CASE x \in Cancels
  <2>1. x \notin Links BY <1>10, Consts
  <2>2. work' = Over(Do("call", x), v) BY <1>1, <1>10, Consts
  <2>3. PICK c \in Items : c = Do("call", x) /\ c.op = "call" /\ c.on = x BY Made, <1>10 DEF Ops
  <2>4. Unmarked(c) /\ \A D : Harmless(c, D) BY <2>1, <2>3, Idle DEF Unmarked
  <2>5. Over(c, v) \in Seq(Items) /\ SameMarks(Over(c, v), v) /\ \A D : Shields(Over(c, v), v, D)
    BY <2>4, PushItem, MarksOver, ShieldsOver
  <2>6. work' \in Seq(Items) /\ SameMarks(work', work) /\ \A D : Shields(work', work, D)
    BY <1>8, <2>2, <2>3, <2>5 DEF SameMarks, Shields
  <2>7. Quiet
    <3>1. ASSUME NEW l \in Chains, First(l) PROVE FALSE
      <4>1. Top # Do("execute", Dst[l]) BY <1>1, MarkerFacts
      <4>2. Head(Top.todo) = l BY <3>1, <4>1 DEF First
      <4> QED BY <1>1, <2>1, <4>2, Consts
    <3> QED BY <1>7, <3>1 DEF Quiet
  <2>8. /\ \A l \in Chains : proH'[Dst[l]] = 0
        /\ \A l \in Chains : mode'[Dst[l]] = mode[Dst[l]]
        /\ out' = out
    BY <1>1 DEF Tidy, Placed
  <2>9. \A l \in Chains : l \in Range(cancelBox'[Dst[l]]) => l \in Range(cancelBox[Dst[l]])
    BY <1>3, Consts
  <2>10. \A q : \A l \in Chains : \A D \in SUBSET States :
           Treed(q, D, l) /\ mode'[Dst[l]] = "unresolved" => Shielded(work', Markers(l), D)
    BY <2>6, ShieldsGive
  <2> QED BY <1>5, <1>6, <2>6, <2>7, <2>8, <2>9, <2>10, StillTidy
<1>11. CASE x \in Chains
  <2>1. /\ x \in Links /\ Dst[x] = s /\ life[x] = "linked" /\ life' = life
        /\ work' = Over(Do("delete", x), Over(Do("cancel", Src[x]), Over(Do("decFuture", Src[x]), v)))
    BY <1>1, <1>2, <1>11, CancelsLinked, Consts
  <2>2. PICK d \in States : d = Src[x] BY <2>1, Consts
  <2>3. PICK a, b, c \in Items :
          /\ a = Do("delete", x) /\ a.op = "delete" /\ a.on = x
          /\ b = Do("cancel", d) /\ b.op = "cancel" /\ b.on = d
          /\ c = Do("decFuture", d) /\ c.op = "decFuture" /\ c.on = d
    <3>1. Do("delete", x) \in Items BY <2>1, Made DEF Ops
    <3>2. Do("cancel", d) \in Items /\ Do("decFuture", d) \in Items BY Made DEF Ops
    <3> QED BY <3>1, <3>2, MarkerFacts
  <2>4. PICK e, u : e = Over(c, v) /\ u = Over(b, e) OBVIOUS
  <2>5. e \in Seq(Items) /\ SameMarks(e, v)
    <3>1. Unmarked(c) BY <2>3 DEF Unmarked
    <3> QED BY <2>4, <3>1, PushItem, MarksOver
  <2>6. u \in Seq(Items) /\ SameMarks(u, e)
    <3>1. Unmarked(b) BY <2>3 DEF Unmarked
    <3> QED BY <2>4, <2>5, <3>1, PushItem, MarksOver
  <2>7. SameMarks(u, work) BY <1>8, <2>5, <2>6 DEF SameMarks
  <2>8. work' = Over(a, u) /\ work' = Over(Do("delete", x), u) BY <2>1, <2>2, <2>3, <2>4
  <2>9. Placed' BY <1>1, <1>7, <2>1, <2>6, <2>7, <2>8, PlacedMark DEF Tidy
  <2>10. work' # <<>> /\ Head(work') = Do("delete", x) BY <2>3, <2>6, <2>8, PushItem
  <2>11. Immediate'
    <3> SUFFICES ASSUME NEW l \in Chains
                 PROVE  /\ mode[Dst[l]] \in Resolved => l \notin Range(cancelBox'[Dst[l]])
                        /\ life[l] = "linked" => mode[Dst[l]] = "unresolved" \/ l = x
      BY <1>1, <2>1, <2>10 DEF Immediate, Top
    <3>1. CASE l = x BY <1>3, <3>1, Consts
    <3>2. CASE l # x
      <4>1. Dst[l] # s /\ Dst[l] \in States BY <1>11, <2>1, <3>2, Consts
      <4>2. ~ First(l) BY <1>1, <1>2, <4>1, MarkerFacts DEF First
      <4>3. "cancel" \in Resolved BY DEF Resolved
      <4>4. ~ (work # <<>> /\ Top = Do("delete", l)) BY <1>1, MarkerFacts
      <4> QED BY <1>3, <4>1, <4>2, <4>3, <4>4 DEF Tidy, Immediate
    <3> QED BY <3>1, <3>2
  <2>12. ASSUME NEW n \in Chains, NEW D \in SUBSET States, Treed(r, D, n)
         PROVE  Shielded(work', Markers(n), D) /\ \A i \in D : mode'[i] = "unresolved"
    <3>1. /\ \A i \in D : mode[i] = "unresolved"
          /\ Closure(life, D) /\ Shielded(work, Markers(n), D)
      BY <2>12 DEF Treed, Tree
    <3>2. Dst[x] \notin D BY <1>4, <2>1, <3>1
    <3>3. d \notin D BY <1>11, <2>1, <2>2, <3>1, <3>2 DEF Closure
    <3>4. Harmless(a, D) /\ Harmless(b, D) /\ Harmless(c, D)
      BY <2>2, <2>3, <3>2, <3>3 DEF Harmless
    <3>5. Shielded(v, Markers(n), D) BY <1>8, <3>1 DEF Shields
    <3>6. Shielded(e, Markers(n), D) BY <2>4, <3>4, <3>5, ShieldOver
    <3>7. Shielded(u, Markers(n), D) BY <2>4, <2>5, <3>4, <3>6, ShieldOver
    <3>8. Shielded(Over(a, u), Markers(n), D) BY <2>6, <3>4, <3>7, ShieldOver
    <3> QED BY <1>1, <2>8, <3>1, <3>8
  <2>13. Ordered(life', r) /\ Calm(r)'
    <3>1. \A n \in Chains : life'[n] = life[n] BY <2>1
    <3>2. \A n \in Chains : mode'[Dst[n]] = "unresolved" => mode[Dst[n]] = "unresolved" BY <1>1
    <3> QED BY <1>9, <2>12, <3>1, <3>2, CalmKeeps
  <2> QED BY <1>6, <1>9, <2>9, <2>11, <2>13 DEF Tidy
<1> QED BY <1>1, <1>10, <1>11

(* What hangs on the result of a chain is its tree.                          *)
LEMMA NewTree ==
  ASSUME NEW m, NEW f, NEW r, Ordered(f, r), NEW l \in Chains, m[Dst[l]] = "unresolved",
         f[l] # "unborn", \A n \in Chains : f[n] = "linked" => m[Dst[n]] = "unresolved"
  PROVE  \E D \in SUBSET States : Tree(m, f, r, D, l) /\ Src[l] \notin D
<1>1. /\ r \in [States -> Nat]
      /\ \A n \in Chains : Src[n] \in States /\ Dst[n] \in States
      /\ \A n \in Chains : f[n] # "unborn" => r[Src[n]] < r[Dst[n]]
  BY Consts DEF Ordered
<1>2. PICK D \in SUBSET States :
        D = {s \in States : \A E \in SUBSET States : Dst[l] \in E /\ Closure(f, E) => s \in E}
  OBVIOUS
<1>3. PICK B \in SUBSET States : B = {s \in States : m[s] = "unresolved" /\ r[Dst[l]] <= r[s]}
  OBVIOUS
<1>4. Dst[l] \in B BY <1>1, <1>3
<1>5. Closure(f, B)
  <2> SUFFICES ASSUME NEW n \in Chains, f[n] = "linked", Src[n] \in B PROVE Dst[n] \in B
    BY DEF Closure
  <2>1. m[Dst[n]] = "unresolved" OBVIOUS
  <2>2. r[Dst[l]] \in Nat /\ r[Src[n]] \in Nat /\ r[Dst[n]] \in Nat BY <1>1
  <2>3. r[Dst[l]] <= r[Src[n]] /\ r[Src[n]] < r[Dst[n]] BY <1>1, <1>3
  <2>4. r[Dst[l]] <= r[Dst[n]] BY <2>2, <2>3
  <2> QED BY <1>1, <1>3, <2>1, <2>4
<1>6. \A d \in D : m[d] = "unresolved" /\ r[Dst[l]] <= r[d] BY <1>2, <1>3, <1>4, <1>5
<1>7. Dst[l] \in D BY <1>1, <1>2
<1>8. Closure(f, D) BY <1>1, <1>2 DEF Closure
<1>9. Hang(f, D, Dst[l])
  <2> SUFFICES ASSUME NEW s \in D, s # Dst[l],
                      ~ \E n \in Chains : f[n] = "linked" /\ Dst[n] = s /\ Src[n] \in D
               PROVE  FALSE
    BY DEF Hang
  <2>1. PICK E \in SUBSET States : E = D \ {s} OBVIOUS
  <2>2. Dst[l] \in E BY <1>7, <2>1
  <2>3. Closure(f, E) BY <1>8, <2>1 DEF Closure
  <2>4. s \in E BY <1>2, <2>2, <2>3
  <2> QED BY <2>1, <2>4
<1>10. Src[l] \notin D
  <2>1. r[Src[l]] \in Nat /\ r[Dst[l]] \in Nat /\ r[Src[l]] < r[Dst[l]] BY <1>1
  <2>2. ~ (r[Dst[l]] <= r[Src[l]]) BY <2>1
  <2> QED BY <1>6, <2>2
<1> QED BY <1>6, <1>7, <1>8, <1>9, <1>10 DEF Tree

(* A chain that is not attached any more is in no other chain's tree, if its *)
(* source is in none.                                                        *)
LEMMA TreeKept ==
  ASSUME NEW r, NEW D \in SUBSET States, NEW n \in Chains, Tree(mode, life, r, D, n), NEW l \in Links,
         \A k \in Links : k # l => life'[k] = life[k], life'[l] # "linked",
         Src[l] \notin D, mode' = mode
  PROVE  Tree(mode', life', r, D, n)
  BY Consts DEF Tree, Hang, Closure

LEMMA CallLinkTidy ==
  ASSUME Shape, Counts, Tidy, CallLink PROVE Tidy'
<1>1. PICK t \in Items, l \in Links, v \in Seq(Items) :
           /\ work # <<>> /\ t = Top /\ t \in Range(work) /\ t.op = "links"
           /\ t.on = Src[l] /\ l \in Range(t.todo)
           /\ life[l] = "linked" /\ l \in Range(box[Src[l]])
           /\ box' = [box EXCEPT ![Src[l]] = RemoveFirst(@, l)]
           /\ life' = [life EXCEPT ![l] = "running"]
           /\ futures' = [futures EXCEPT ![Src[l]] = @ + 1]
           /\ work' = Over(Do("call", l), v)
           /\ Like(v, work)
           /\ \A z \in Range(v) : \E y \in Range(work) : Loses(y, z, "links", l)
           /\ \A y \in Range(work) : \E z \in Range(v) : Loses(y, z, "links", l)
           /\ UNCHANGED <<mode, promises, cancelBox, out, futH, proH, asked>>
  BY CallLinkStep
<1>2. PICK s \in States : s = Src[l] BY Consts
<1>3. mode[s] # "unresolved"
  <2>1. Standing(t) BY <1>1 DEF Counts
  <2> QED BY <1>1, <1>2, <2>1 DEF Standing, Resolved
<1>4. Quiet BY <1>1, QuietTop
<1>5. work \in Seq(Items) /\ ~ Is("delete") BY <1>4 DEF Shape, Typed, Quiet
<1>6. SameMarks(v, work) /\ \A D : Shields(v, work, D) BY <1>1, <1>5, MarksLike, ShieldsLike
<1>7. life'[l] = "running" /\ \A n \in Links : n # l => life'[n] = life[n]
  BY <1>1 DEF Shape, Typed
<1>8. Placed'
  <2>1. UNCHANGED <<out, proH>> /\ work' = Over(Do("call", l), v) /\ life[l] = "linked" BY <1>1
  <2> QED BY <1>5, <1>6, <1>7, <2>1, PlacedMark DEF Tidy
<1>9. OnePromise' BY <1>1 DEF Tidy, OnePromise
<1>10. \A n \in Chains : /\ mode[Dst[n]] \in Resolved => n \notin Range(cancelBox[Dst[n]])
                         /\ life[n] = "linked" => mode[Dst[n]] = "unresolved"
  BY <1>4, QuietFacts DEF Tidy
<1>11. \A n \in Chains : life'[n] = "linked" => life[n] = "linked" BY <1>7, Consts
<1>12. Immediate' BY <1>1, <1>10, <1>11 DEF Immediate
<1>13. PICK r \in [States -> Nat] : Ordered(life, r) /\ Calm(r) BY DEF Tidy
<1>14. Ordered(life', r)
  <2>1. \A n \in Chains : life'[n] # "unborn" => life[n] # "unborn" BY <1>1, <1>7, Consts
  <2> QED BY <1>13, <2>1 DEF Ordered
<1>15. PICK c \in Items : c = Do("call", l) /\ c.op = "call" BY Made DEF Ops
<1>16. ASSUME NEW n \in Chains, life'[n] \in {"running", "deleted"}, mode'[Dst[n]] = "unresolved"
       PROVE  \E D \in SUBSET States : Tree(mode', life', r, D, n) /\ Shielded(work', Markers(n), D)
  <2>1. CASE n = l
    <3>1. mode'[Dst[n]] = "unresolved" /\ life'[n] # "unborn" BY <1>16
    <3>2. \A k \in Chains : life'[k] = "linked" => mode'[Dst[k]] = "unresolved"
      BY <1>1, <1>10, <1>11
    <3>3. PICK D \in SUBSET States : Tree(mode', life', r, D, n) BY <1>14, <3>1, <3>2, NewTree
    <3>4. Shielded(Over(c, v), Markers(n), D) BY <1>15, <2>1, ShieldOver, MarkerFacts
    <3> QED BY <1>1, <1>15, <3>3, <3>4
  <2>2. CASE n # l
    <3>1. life[n] \in {"running", "deleted"} /\ mode[Dst[n]] = "unresolved"
      BY <1>1, <1>7, <1>16, <2>2, Consts
    <3>2. PICK D \in SUBSET States : Tree(mode, life, r, D, n) /\ Shielded(work, Markers(n), D)
      BY <1>13, <3>1 DEF Calm
    <3>3. s \notin D BY <1>3, <3>2 DEF Tree
    <3>4. Tree(mode', life', r, D, n) BY <1>1, <1>2, <1>7, <3>2, <3>3, TreeKept
    <3>5. Shielded(v, Markers(n), D) BY <1>6, <3>2 DEF Shields
    <3>6. Harmless(c, D) BY <1>15, Idle
    <3>7. Shielded(Over(c, v), Markers(n), D) BY <3>5, <3>6, ShieldOver
    <3> QED BY <1>1, <1>15, <3>4, <3>7
  <2> QED BY <2>1, <2>2
<1>17. Calm(r)' BY <1>16 DEF Calm
<1> QED BY <1>8, <1>9, <1>12, <1>13, <1>14, <1>17 DEF Tidy

(* A continuation to be destroyed has not been, and nothing else marks it.   *)
LEMMA DeleteDue ==
  ASSUME Shape, Placed, NEW l \in Links, NEW w \in Seq(Items), work # <<>>,
         Top = Do("delete", l), work = Over(Do("delete", l), w)
  PROVE  Alive(life, l) /\ Count(w, Marks(l)) = 0
<1>1. PICK t \in Items : t = Do("delete", l) BY Made DEF Ops
<1>2. t \in Marks(l) BY <1>1, MarkerFacts
<1>3. t \in Range(work) BY <1>1, PushItem
<1>4. Due(l) BY <1>2, <1>3, Marked
<1>5. Count(work, Marks(l)) = 1 BY <1>4 DEF Placed
<1>6. Count(Over(t, w), Marks(l)) = Count(w, Marks(l)) + 1 BY <1>2, CountOver
<1>7. Count(w, Marks(l)) \in Nat BY CountType
<1>8. Count(w, Marks(l)) = 0 BY <1>1, <1>5, <1>6, <1>7
<1> QED BY <1>4, <1>8 DEF Due, Alive

LEMMA DeleteTidy ==
  ASSUME Shape, Counts, Tidy, Delete PROVE Tidy'
<1>1. PICK l \in Links, w \in Seq(Items), v \in Seq(Items) :
           /\ work # <<>> /\ Top = Do("delete", l) /\ w = Tail(work)
           /\ work = Over(Do("delete", l), w) /\ Range(work) = {Do("delete", l)} \union Range(w)
           /\ life[l] # "unborn"
           /\ life' = [life EXCEPT ![l] = "deleted"]
           /\ box' = [box EXCEPT ![Src[l]] = RemoveFirst(@, l)]
           /\ out' = out \ {l}
           /\ work' = Over(Do("decFuture", Src[l]),
                           IF l \in out THEN Over(Do("decPromise", Dst[l]), v) ELSE v)
           /\ Like(v, w)
           /\ \A z \in Range(v) : \E y \in Range(w) : Loses(y, z, "links", l)
           /\ \A y \in Range(w) : \E z \in Range(v) : Loses(y, z, "links", l)
           /\ UNCHANGED <<mode, futures, promises, cancelBox, futH, proH, asked>>
  BY DeleteStep
<1>2. PICK s \in States : s = Src[l] BY Consts
<1>3. Alive(life, l) /\ Count(w, Marks(l)) = 0 BY <1>1, DeleteDue DEF Tidy
<1>4. l \in out <=> l \in Chains
  <2>1. out \subseteq Chains BY DEF Shape, Typed
  <2> QED BY <1>3, <2>1 DEF Tidy, Placed
<1>5. life'[l] = "deleted" /\ \A n \in Links : n # l => life'[n] = life[n]
  BY <1>1 DEF Shape, Typed
<1>6. PICK x \in Items : x = Do("delete", l) /\ x.op = "delete" /\ x.on = l BY Made DEF Ops
<1>7. PICK f \in Items : f = Do("decFuture", s) /\ f.op = "decFuture" /\ f.on = s BY Made DEF Ops
<1>8. PICK p : p = Do("decPromise", Dst[l]) OBVIOUS
<1>9. l \in Chains => p \in Items /\ p.op = "decPromise" /\ p.on = Dst[l]
  BY <1>8, Consts, Made DEF Ops
<1>10. PICK u : u = IF l \in Chains THEN Over(p, v) ELSE v OBVIOUS
<1>11. work' = Over(f, u) BY <1>1, <1>2, <1>4, <1>7, <1>8, <1>10
<1>12. u \in Seq(Items) /\ SameMarks(u, v)
  <2>1. CASE l \in Chains
    <3>1. Unmarked(p) BY <1>9, <2>1 DEF Unmarked
    <3> QED BY <1>9, <1>10, <2>1, <3>1, PushItem, MarksOver
  <2>2. CASE l \notin Chains BY <1>10, <2>2 DEF SameMarks
  <2> QED BY <2>1, <2>2
<1>13. work' \in Seq(Items) /\ work' # <<>> /\ Head(work') = f /\ SameMarks(work', w)
  <2>1. Unmarked(f) BY <1>7 DEF Unmarked
  <2>2. /\ Over(f, u) \in Seq(Items) /\ Over(f, u) # <<>> /\ Head(Over(f, u)) = f
        /\ SameMarks(Over(f, u), u)
    BY <1>12, <2>1, PushItem, MarksOver
  <2>3. SameMarks(v, w) BY <1>1, MarksLike
  <2> QED BY <1>11, <1>12, <2>2, <2>3 DEF SameMarks
<1>14. Placed'
  <2>1. ASSUME NEW n \in Links PROVE Count(work', Marks(n)) = IF Due(n)' THEN 1 ELSE 0
    <3>1. Due(n)' <=> life'[n] = "running"
      <4>1. Head(work') # Do("delete", n) BY <1>7, <1>13, MarkerFacts
      <4> QED BY <4>1 DEF Due, Top
    <3>2. Count(work', Marks(n)) = Count(w, Marks(n)) BY <1>13 DEF SameMarks
    <3>3. CASE n = l BY <1>3, <1>5, <3>1, <3>2, <3>3
    <3>4. CASE n # l
      <4>1. x \notin Marks(n) BY <1>6, <3>4, MarkerFacts
      <4>2. Count(Over(x, w), Marks(n)) = Count(w, Marks(n)) + 0 BY <4>1, CountOver
      <4>3. Count(w, Marks(n)) \in Nat BY CountType
      <4>4. Count(work, Marks(n)) = IF Due(n) THEN 1 ELSE 0 BY DEF Tidy, Placed
      <4>5. Due(n) <=> life[n] = "running"
        <5>1. Top # Do("delete", n) BY <1>1, <1>6, <3>4, MarkerFacts
        <5> QED BY <5>1 DEF Due
      <4> QED BY <1>1, <1>5, <1>6, <3>1, <3>2, <3>4, <4>2, <4>3, <4>4, <4>5
    <3> QED BY <3>3, <3>4
  <2>2. \A n \in Chains : n \in out' <=> Alive(life', n)
    <3> SUFFICES ASSUME NEW n \in Chains PROVE n \in out' <=> Alive(life', n) OBVIOUS
    <3>1. n \in out <=> Alive(life, n) BY DEF Tidy, Placed
    <3>2. n # l => life'[n] = life[n] BY <1>5, Consts
    <3> QED BY <1>1, <1>5, <3>1, <3>2 DEF Alive
  <2>3. \A n \in Chains : proH'[Dst[n]] = 0 BY <1>1 DEF Tidy, Placed
  <2> QED BY <2>1, <2>2, <2>3 DEF Placed
<1>15. OnePromise' BY <1>1 DEF Tidy, OnePromise
<1>16. \A n \in Chains : /\ mode[Dst[n]] \in Resolved => n \notin Range(cancelBox[Dst[n]])
                         /\ life[n] = "linked" /\ n # l => mode[Dst[n]] = "unresolved"
  <2> SUFFICES ASSUME NEW n \in Chains
               PROVE  /\ mode[Dst[n]] \in Resolved => n \notin Range(cancelBox[Dst[n]])
                      /\ life[n] = "linked" /\ n # l => mode[Dst[n]] = "unresolved"
    OBVIOUS
  <2>1. ~ First(n) BY <1>1, <1>6, MarkerFacts DEF First
  <2>2. n # l => Top # Do("delete", n) BY <1>1, <1>6, MarkerFacts
  <2>3. "cancel" \in Resolved BY DEF Resolved
  <2> QED BY <2>1, <2>2, <2>3 DEF Tidy, Immediate
<1>17. \A n \in Chains : life'[n] = "linked" => life[n] = "linked" /\ n # l BY <1>5, Consts
<1>18. Immediate' BY <1>1, <1>16, <1>17 DEF Immediate
<1>19. PICK r \in [States -> Nat] : Ordered(life, r) /\ Calm(r) BY DEF Tidy
<1>20. Ordered(life', r)
  <2>1. \A n \in Chains : life'[n] # "unborn" => life[n] # "unborn" BY <1>1, <1>5, Consts
  <2> QED BY <1>19, <2>1 DEF Ordered
<1>21. ASSUME NEW n \in Chains, life'[n] \in {"running", "deleted"}, mode'[Dst[n]] = "unresolved"
       PROVE  \E D \in SUBSET States : Tree(mode', life', r, D, n) /\ Shielded(work', Markers(n), D)
  <2>1. CASE n = l
    <3>1. mode'[Dst[n]] = "unresolved" /\ life'[n] # "unborn" BY <1>21
    <3>2. \A k \in Chains : life'[k] = "linked" => mode'[Dst[k]] = "unresolved"
      BY <1>1, <1>16, <1>17
    <3>3. PICK D \in SUBSET States : Tree(mode', life', r, D, n) /\ Src[n] \notin D
      BY <1>20, <3>1, <3>2, NewTree
    <3>4. Shielded(u, Markers(n), D)
      <4>1. p \in Markers(n) BY <1>8, <2>1, MarkerFacts
      <4> QED BY <1>9, <1>10, <2>1, <4>1, ShieldOver
    <3>5. Harmless(f, D) BY <1>2, <1>7, <2>1, <3>3 DEF Harmless
    <3>6. Shielded(Over(f, u), Markers(n), D) BY <1>12, <3>4, <3>5, ShieldOver
    <3> QED BY <1>11, <3>3, <3>6
  <2>2. CASE n # l
    <3>1. life[n] \in {"running", "deleted"} /\ mode[Dst[n]] = "unresolved"
      BY <1>1, <1>5, <1>21, <2>2, Consts
    <3>2. PICK D \in SUBSET States : Tree(mode, life, r, D, n) /\ Shielded(work, Markers(n), D)
      BY <1>19, <3>1 DEF Calm
    <3>3. x \notin Markers(n)
      <4>1. x # Do("call", n) /\ x # Do("delete", n) /\ x # Do("decPromise", Dst[n])
        BY <1>6, <2>2, MarkerFacts
      <4> QED BY <4>1, MarkerFacts
    <3>4. Harmless(x, D) /\ Shielded(w, Markers(n), D) BY <1>1, <1>6, <3>2, <3>3, ShieldsPop
    <3>5. s \notin D /\ Dst[l] \notin D BY <1>2, <1>6, <3>4 DEF Harmless
    <3>6. Tree(mode', life', r, D, n) BY <1>1, <1>2, <1>5, <3>2, <3>5, TreeKept
    <3>7. Shielded(v, Markers(n), D) BY <1>1, <3>4, ShieldsLike DEF Shields
    <3>8. Shielded(u, Markers(n), D)
      <4>1. CASE l \in Chains
        <5>1. Harmless(p, D) BY <1>9, <3>5, <4>1 DEF Harmless
        <5> QED BY <1>9, <1>10, <3>7, <4>1, <5>1, ShieldOver
      <4>2. CASE l \notin Chains BY <1>10, <3>7, <4>2
      <4> QED BY <4>1, <4>2
    <3>9. Harmless(f, D) BY <1>7, <3>5 DEF Harmless
    <3>10. Shielded(Over(f, u), Markers(n), D) BY <1>12, <3>8, <3>9, ShieldOver
    <3> QED BY <1>11, <3>6, <3>10
  <2> QED BY <2>1, <2>2
<1>22. Calm(r)' BY <1>21 DEF Calm
<1> QED BY <1>14, <1>15, <1>18, <1>19, <1>20, <1>22 DEF Tidy

(* A stack that shields one tree shields another whose harm its calls above  *)
(* the marker cannot do either: for a chain that is new.                     *)
LEMMA ShieldWiden ==
  ASSUME NEW w \in Seq(Items), NEW M, NEW D, NEW E, Shielded(w, M, D),
         \A x \in Range(w) : Harmless(x, D) => Harmless(x, E)
  PROVE  Shielded(w, M, E)
<1>1. PICK i \in 1 .. Len(w) : w[i] \in M /\ \A j \in 1 .. i - 1 : Harmless(w[j], D)
  BY DEF Shielded
<1>2. ASSUME NEW j \in 1 .. i - 1 PROVE Harmless(w[j], E)
  <2>1. j \in DOMAIN w OBVIOUS
  <2>2. w[j] \in Range(w) BY <2>1 DEF Range
  <2> QED BY <1>1, <2>2
<1> QED BY <1>1, <1>2 DEF Shielded

(* Nothing under way names the result of a chain that is only being made.    *)
LEMMA Unheard ==
  ASSUME Shape, NEW d \in States, mode[d] = "unborn", NEW x \in Range(work), NEW D, Harmless(x, D)
  PROVE  Harmless(x, D \union {d})
<1>1. Real(x) BY DEF Shape
<1>2. x.op \in {"decFuture", "decPromise", "cancel"} => x.on # d BY <1>1 DEF Real
<1>3. ASSUME x.op = "delete" PROVE Src[x.on] # d /\ Dst[x.on] # d
  <2>1. x.on \in Links /\ life[x.on] # "unborn" BY <1>1, <1>3 DEF Real
  <2>2. mode[Src[x.on]] # "unborn" BY <2>1 DEF Shape, Born
  <2>3. x.on \in Chains => mode[Dst[x.on]] # "unborn" BY <2>1 DEF Shape, Born
  <2>4. x.on \notin Chains => Dst[x.on] = NoState BY <2>1 DEF Chains
  <2> QED BY <2>2, <2>3, <2>4, FutureAssumption
<1> QED BY <1>2, <1>3 DEF Harmless

LEMMA ChainTidy ==
  ASSUME Shape, Counts, Tidy, NEW l \in Links, Chain(l) PROVE Tidy'
<1>1. PICK s \in States, d \in States, u \in Seq(Items) :
           /\ s = Src[l] /\ d = Dst[l] /\ s # d /\ l \in Chains
           /\ UserCode /\ HasFuture(s) /\ life[l] = "unborn"
           /\ mode[s] # "unborn" /\ mode[d] = "unborn"
           /\ life' = [life EXCEPT ![l] = "linked"]
           /\ mode' = [mode EXCEPT ![d] = "unresolved"]
           /\ promises' = [promises EXCEPT ![d] = 1]
           /\ cancelBox' = [cancelBox EXCEPT ![d] = <<l>>]
           /\ out' = out \union {l}
           /\ futH' = [futH EXCEPT ![d] = 1]
           /\ asked' = asked \union {d}
           /\ box' = [box EXCEPT ![s] = Append(@, l)]
           /\ futures' \in [States -> Int]
           /\ \A i \in States : futures'[i] = IF i = d THEN 1
                                             ELSE IF i = s THEN futures[i] + 1 ELSE futures[i]
           /\ proH' = proH
           /\ u = Over(Do("ofFuture", s), Over(Do("ofFuture", d), work))
           /\ work' = IF mode[s] \in Resolved THEN Over(Do("execute", s), u) ELSE u
  BY ChainStep
<1>2. Quiet /\ work \in Seq(Items) BY <1>1, UserQuiet
<1>3. PICK a, b, e \in Items : /\ a = Do("ofFuture", s) /\ a.op = "ofFuture"
                               /\ b = Do("ofFuture", d) /\ b.op = "ofFuture"
                               /\ e = Do("execute", s) /\ e.op = "execute"
  BY Made DEF Ops
<1>4. /\ Unmarked(a) /\ Unmarked(b) /\ Unmarked(e)
      /\ \A D : Harmless(a, D) /\ Harmless(b, D) /\ Harmless(e, D)
  BY <1>3, Idle DEF Unmarked
<1>5. PICK v \in Seq(Items) : v = Over(b, work) /\ SameMarks(v, work) /\ \A D : Shields(v, work, D)
  BY <1>2, <1>4, PushItem, MarksOver, ShieldsOver
<1>6. /\ u = Over(a, v) /\ u # <<>> /\ Head(u) = a /\ SameMarks(u, v) /\ \A D : Shields(u, v, D)
  <2>1. u = Over(a, v) BY <1>1, <1>3, <1>5
  <2> QED BY <1>4, <2>1, PushItem, MarksOver, ShieldsOver
<1>7. /\ work' \in Seq(Items) /\ work' # <<>> /\ Head(work') \in {a, e}
      /\ SameMarks(work', u) /\ \A D : Shields(work', u, D)
  <2>1. CASE mode[s] \in Resolved
    <3>1. work' = Over(e, u) BY <1>1, <1>3, <2>1
    <3> QED BY <1>4, <3>1, PushItem, MarksOver, ShieldsOver
  <2>2. CASE mode[s] \notin Resolved
    <3>1. work' = u BY <1>1, <2>2
    <3> QED BY <1>6, <3>1 DEF SameMarks, Shields
  <2> QED BY <2>1, <2>2
<1>8. SameMarks(work', work) /\ \A D : Shields(work', work, D)
  BY <1>5, <1>6, <1>7 DEF SameMarks, Shields
<1>9. \A n \in Chains : Src[n] \in States /\ Dst[n] \in States /\ n \in Links /\ (n # l => Dst[n] # d)
  BY <1>1, Consts
<1>10. /\ life'[l] = "linked" /\ \A n \in Links : n # l => life'[n] = life[n]
       /\ mode'[d] = "unresolved" /\ \A i \in States : i # d => mode'[i] = mode[i]
       /\ promises'[d] = 1 /\ \A i \in States : i # d => promises'[i] = promises[i]
       /\ cancelBox'[d] = <<l>> /\ \A i \in States : i # d => cancelBox'[i] = cancelBox[i]
  BY <1>1 DEF Shape, Typed
<1>11. Placed'
  <2>1. ASSUME NEW n \in Links PROVE Count(work', Marks(n)) = IF Due(n)' THEN 1 ELSE 0
    <3>1. Count(work', Marks(n)) = IF Due(n) THEN 1 ELSE 0 BY <1>8 DEF SameMarks, Tidy, Placed
    <3>2. Due(n) <=> life[n] = "running" BY <1>2, MarkerFacts DEF Due, Quiet, Is
    <3>3. Due(n)' <=> life'[n] = "running"
      <4>1. Head(work') # Do("delete", n) BY <1>3, <1>7, MarkerFacts
      <4> QED BY <4>1 DEF Due, Top
    <3> QED BY <1>1, <1>10, <3>1, <3>2, <3>3
  <2>2. \A n \in Chains : n \in out' <=> Alive(life', n)
    <3> SUFFICES ASSUME NEW n \in Chains PROVE n \in out' <=> Alive(life', n) OBVIOUS
    <3>1. n \in out <=> Alive(life, n) BY DEF Tidy, Placed
    <3> QED BY <1>1, <1>9, <1>10, <3>1 DEF Alive
  <2>3. \A n \in Chains : proH'[Dst[n]] = 0 BY <1>1 DEF Tidy, Placed
  <2> QED BY <2>1, <2>2, <2>3 DEF Placed
<1>12. OnePromise'
  <2> SUFFICES ASSUME NEW n \in Chains, mode'[Dst[n]] = "unresolved"
               PROVE  /\ promises'[Dst[n]] = 1
                      /\ cancelBox'[Dst[n]] # <<>> /\ Head(cancelBox'[Dst[n]]) = n
    BY DEF OnePromise
  <2>1. CASE n = l
    <3>1. <<l>> # <<>> /\ Head(<<l>>) = l OBVIOUS
    <3> QED BY <1>1, <1>10, <2>1, <3>1
  <2>2. CASE n # l
    <3>1. Dst[n] # d /\ Dst[n] \in States BY <1>9, <2>2
    <3> QED BY <1>10, <3>1 DEF Tidy, OnePromise
  <2> QED BY <2>1, <2>2
<1>13. \A n \in Chains : /\ mode[Dst[n]] \in Resolved => n \notin Range(cancelBox[Dst[n]])
                         /\ life[n] = "linked" => mode[Dst[n]] = "unresolved"
  BY <1>2, QuietFacts DEF Tidy
<1>14. Immediate'
  <2> SUFFICES ASSUME NEW n \in Chains
               PROVE  /\ mode'[Dst[n]] \in Resolved => n \notin Range(cancelBox'[Dst[n]])
                      /\ life'[n] = "linked" => mode'[Dst[n]] = "unresolved"
    BY DEF Immediate
  <2>1. CASE n = l BY <1>1, <1>10, <2>1 DEF Resolved
  <2>2. CASE n # l BY <1>9, <1>10, <1>13, <2>2
  <2> QED BY <2>1, <2>2
<1>15. PICK r \in [States -> Nat] : Ordered(life, r) /\ Calm(r) BY DEF Tidy
<1>16. PICK q : q = [r EXCEPT ![d] = r[s] + 1] OBVIOUS
<1>17. /\ q \in [States -> Nat] /\ q[d] = r[s] + 1 /\ r[s] \in Nat
       /\ \A i \in States : i # d => q[i] = r[i]
  <2>1. r[s] \in Nat /\ r[s] + 1 \in Nat OBVIOUS
  <2> QED BY <1>16, <2>1
<1>18. \A n \in Chains : life[n] # "unborn" => Src[n] # d /\ n # l
  BY <1>1, <1>9 DEF Shape, Born
<1>19. Ordered(life', q)
  <2> SUFFICES ASSUME NEW n \in Chains, life'[n] # "unborn" PROVE q[Src[n]] < q[Dst[n]]
    BY <1>17 DEF Ordered
  <2>1. CASE n = l
    <3>1. q[Src[n]] = r[s] /\ q[Dst[n]] = r[s] + 1 /\ r[s] \in Nat BY <1>1, <1>17, <2>1
    <3> QED BY ONLY <3>1
  <2>2. CASE n # l
    <3>1. life[n] # "unborn" BY <1>9, <1>10, <2>2
    <3>2. r[Src[n]] < r[Dst[n]] BY <1>15, <3>1 DEF Ordered
    <3>3. q[Src[n]] = r[Src[n]] /\ q[Dst[n]] = r[Dst[n]] BY <1>9, <1>17, <1>18, <2>2, <3>1
    <3> QED BY <3>2, <3>3
  <2> QED BY <2>1, <2>2
<1>20. ASSUME NEW n \in Chains, life'[n] \in {"running", "deleted"}, mode'[Dst[n]] = "unresolved"
       PROVE  \E D \in SUBSET States : Tree(mode', life', q, D, n) /\ Shielded(work', Markers(n), D)
  <2>1. n # l BY <1>10, <1>20
  <2>2. life[n] \in {"running", "deleted"} /\ mode[Dst[n]] = "unresolved" /\ Dst[n] # d
    BY <1>9, <1>10, <1>20, <2>1
  <2>3. PICK D \in SUBSET States : Tree(mode, life, r, D, n) /\ Shielded(work, Markers(n), D)
    BY <1>15, <2>2 DEF Calm
  <2>4. /\ Dst[n] \in D /\ \A i \in D : mode[i] = "unresolved" /\ r[Dst[n]] <= r[i]
        /\ \A i \in D : i = Dst[n] \/ \E k \in Chains : life[k] = "linked" /\ Dst[k] = i /\ Src[k] \in D
        /\ \A k \in Chains : life[k] = "linked" /\ Src[k] \in D => Dst[k] \in D
    BY <2>3 DEF Tree, Hang, Closure
  <2>5. d \notin D BY <1>1, <2>4
  <2>6. \A k \in Chains : life[k] = "linked" => life'[k] = "linked" BY <1>1, <1>9, <1>10
  <2>7. \A k \in Chains : life'[k] = "linked" /\ k # l => life[k] = "linked" /\ Src[k] # d /\ Dst[k] # d
    BY <1>9, <1>10, <1>18
  <2>8. q[Dst[n]] = r[Dst[n]] /\ r[Dst[n]] \in Nat BY <1>9, <1>17, <2>2
  <2>9. PICK E : E = IF s \in D THEN D \union {d} ELSE D OBVIOUS
  <2>10. E \in SUBSET States /\ Dst[n] \in E BY <2>4, <2>9
  <2>11. \A i \in E : mode'[i] = "unresolved" /\ q[Dst[n]] <= q[i]
    <3> SUFFICES ASSUME NEW i \in E PROVE mode'[i] = "unresolved" /\ q[Dst[n]] <= q[i] OBVIOUS
    <3>1. CASE i \in D
      <4>1. i # d /\ i \in States BY <2>5, <3>1
      <4> QED BY <1>10, <1>17, <2>4, <2>8, <3>1, <4>1
    <3>2. CASE i \notin D
      <4>1. i = d /\ s \in D BY <2>9, <3>2
      <4>2. r[Dst[n]] <= r[s] BY <2>4, <4>1
      <4>3. r[Dst[n]] <= r[s] + 1 BY <1>17, <2>8, <4>2
      <4> QED BY <1>10, <1>17, <2>8, <4>1, <4>3
    <3> QED BY <3>1, <3>2
  <2>12. Hang(life', E, Dst[n])
    <3> SUFFICES ASSUME NEW i \in E, i # Dst[n]
                 PROVE  \E k \in Chains : life'[k] = "linked" /\ Dst[k] = i /\ Src[k] \in E
      BY DEF Hang
    <3>1. CASE i \in D BY <2>4, <2>6, <2>9, <3>1
    <3>2. CASE i \notin D
      <4>1. i = d /\ s \in E BY <2>9, <3>2
      <4> QED BY <1>1, <1>10, <4>1
    <3> QED BY <3>1, <3>2
  <2>13. Closure(life', E)
    <3> SUFFICES ASSUME NEW k \in Chains, life'[k] = "linked", Src[k] \in E PROVE Dst[k] \in E
      BY DEF Closure
    <3>1. CASE k = l
      <4>1. s \in D BY <1>1, <2>9, <3>1
      <4> QED BY <1>1, <2>9, <3>1, <4>1
    <3>2. CASE k # l
      <4>1. Src[k] \in D BY <2>7, <2>9, <3>2
      <4>2. Dst[k] \in D BY <2>4, <2>7, <3>2, <4>1
      <4> QED BY <2>9, <4>2
    <3> QED BY <3>1, <3>2
  <2>14. Tree(mode', life', q, E, n) BY <2>10, <2>11, <2>12, <2>13 DEF Tree
  <2>15. Shielded(work, Markers(n), E)
    <3>1. CASE s \in D
      <4>1. E = D \union {d} BY <2>9, <3>1
      <4>2. \A x \in Range(work) : Harmless(x, D) => Harmless(x, E) BY <1>1, <4>1, Unheard
      <4> QED BY <1>2, <2>3, <4>2, ShieldWiden
    <3>2. CASE s \notin D BY <2>3, <2>9, <3>2
    <3> QED BY <3>1, <3>2
  <2>16. Shielded(work', Markers(n), E) BY <1>8, <2>15 DEF Shields
  <2> QED BY <2>10, <2>14, <2>16
<1>21. Calm(q)' BY <1>20 DEF Calm
<1> QED BY <1>11, <1>12, <1>14, <1>17, <1>19, <1>21 DEF Tidy

(* A destroyed chain is not destroyed again.                                 *)
LEMMA TidySafe ==
  ASSUME Shape, Counts, Tidy PROVE Safe
<1>1. ASSUME Is("delete") PROVE life[Top.on] # "deleted"
  <2>1. work # <<>> /\ Top.op = "delete" BY <1>1 DEF Is
  <2>2. PICK t \in Items, w \in Seq(Items) :
             /\ t = Top /\ w = Tail(work) /\ Real(t)
             /\ work = Over(t, w) /\ Range(work) = {t} \union Range(w)
    BY <2>1, TopFacts
  <2>3. PICK l \in Links : l = t.on BY <2>1, <2>2 DEF Real
  <2>4. t = Do("delete", l) BY <2>1, <2>2, <2>3, Same DEF Real
  <2>5. Alive(life, l) BY <2>1, <2>2, <2>4, DeleteDue DEF Tidy
  <2> QED BY <2>2, <2>3, <2>5 DEF Alive
<1>2. ASSUME Is("cancels"), Top.todo # <<>>, Head(Top.todo) \in Links
      PROVE  life[Head(Top.todo)] # "deleted"
  BY <1>2, CancelsLinked DEF Is
<1> QED BY <1>1, <1>2 DEF Safe

(* The beginning, steps that change nothing, and all steps.                  *)
LEMMA TidyInit == Init => Tidy
<1> SUFFICES ASSUME Init PROVE Tidy OBVIOUS
<1>1. /\ \A s \in States : mode[s] = "unborn" /\ proH[s] = 0
      /\ \A n \in Links \union Cancels : life[n] = "unborn"
      /\ out = {} /\ work = <<>>
  BY DEF Init
<1>2. \A n \in Links : Count(work, Marks(n)) = 0
  <2> SUFFICES ASSUME NEW n \in Links PROVE Count(<<>>, Marks(n)) = 0 BY <1>1
  <2>1. <<>> \in Seq(Items) OBVIOUS
  <2>2. Range(<<>>) = {} BY DEF Range
  <2>3. Count(<<>>, Marks(n)) \in Nat /\ ~ (Count(<<>>, Marks(n)) > 0) BY <2>1, <2>2, CountType
  <2> QED BY <2>3
<1>3. Placed BY <1>1, <1>2, Consts DEF Placed, Due, Alive
<1>4. OnePromise BY <1>1, Consts DEF OnePromise
<1>5. Immediate BY <1>1, Consts DEF Immediate, Resolved
<1>6. PICK r \in [States -> Nat] : r = [s \in States |-> 0] OBVIOUS
<1>7. Ordered(life, r) /\ Calm(r) BY <1>1, <1>6, Consts DEF Ordered, Calm
<1> QED BY <1>3, <1>4, <1>5, <1>6, <1>7 DEF Tidy

LEMMA TidyStays ==
  ASSUME Tidy, UNCHANGED vars PROVE Tidy'
<1>1. UNCHANGED <<mode, futures, promises, box, cancelBox, life, out, futH, proH, asked, work>>
  BY DEF vars
<1>2. Placed' BY <1>1 DEF Tidy, Placed, Due, Top
<1>3. OnePromise' BY <1>1 DEF Tidy, OnePromise
<1>4. Immediate' BY <1>1 DEF Tidy, Immediate, First, Top
<1>5. PICK r \in [States -> Nat] : Ordered(life, r) /\ Calm(r) BY DEF Tidy
<1>6. Ordered(life', r) /\ Calm(r)' BY <1>1, <1>5 DEF Calm
<1> QED BY <1>2, <1>3, <1>4, <1>5, <1>6 DEF Tidy

LEMMA TidyStep ==
  ASSUME Tame, Shape, Counts, Tidy, [Next]_vars PROVE Tidy'
<1>1. CASE Internal
  <2>1. CASE DecFuture \/ DecPromise BY <2>1, DecTidy
  <2>2. CASE Execute BY <2>2, ExecuteTidy
  <2>3. CASE Activate BY <2>3, ActivateTidy
  <2>4. CASE CallLink BY <2>4, CallLinkTidy
  <2>5. CASE CallCancel BY <2>5, CallCancelTidy
  <2>6. CASE MethodEnds \/ WalkEnds BY <2>6, MethodEndsTidy
  <2>7. CASE Delete BY <2>7, DeleteTidy
  <2>8. CASE CancelSource BY <2>8, CancelSourceTidy
  <2> QED BY <1>1, <2>1, <2>2, <2>3, <2>4, <2>5, <2>6, <2>7, <2>8 DEF Internal
<1>2. CASE \E b \in BOOLEAN : Return(b) BY <1>2, ReturnTidy
<1>3. ASSUME NEW s \in States,
             \/ NewPromise(s) \/ CopyPromise(s) \/ GetFuture(s)
             \/ DropPromise(s) \/ DropFuture(s)
             \/ ResolveValue(s) \/ ResolveCancel(s)
      PROVE  Tidy'
  BY <1>3, NewPromiseTidy, CopyPromiseTidy, GetFutureTidy, DropPromiseTidy, DropFutureTidy,
     ResolveValueTidy, ResolveCancelTidy
<1>4. ASSUME NEW l \in Links, Then(l) \/ Chain(l) \/ FlushOwner(l) PROVE Tidy'
  BY <1>4, ThenTidy, ChainTidy, FlushOwnerTidy
<1>5. ASSUME NEW k \in Cancels, OnCancel(k) \/ FlushCancel(k) PROVE Tidy'
  BY <1>5, OnCancelTidy, FlushCancelTidy
<1>6. CASE UNCHANGED vars BY <1>6, TidyStays
<1> QED BY <1>1, <1>2, <1>3, <1>4, <1>5, <1>6 DEF Next

-----------------------------------------------------------------------------
(* The properties that the runs check.                                       *)

(* What cancels a state, or walks over its cancel continuations, finds it in *)
(* place.                                                                    *)
LEMMA HeldBelow ==
  ASSUME Shape, Steady, NEW x \in Range(work), x.op \in {"cancel", "cancels"}
  PROVE  \E y \in Range(work) : y \in Guards(x)
<1>1. work \in Seq(Items) BY DEF Shape, Typed
<1>2. ASSUME NEW w \in Seq(Items), Sound(w), x \in Range(w)
      PROVE  \E y \in Range(w) : y \in Guards(x)
  <2>1. PICK i \in 1 .. Len(w) : w[i] = x BY <1>2 DEF Range
  <2>2. PICK j \in i + 1 .. Len(w) : w[j] \in Guards(x) BY <1>2, <2>1 DEF Sound, Held
  <2>3. j \in DOMAIN w BY <2>1, <2>2
  <2> QED BY <2>2, <2>3 DEF Range
<1>3. CASE Sound(work) BY <1>1, <1>2, <1>3
<1>4. CASE work # <<>> /\ Top.op \in {"execute", "activate"} /\ Sound(Tail(work))
  <2>1. Tail(work) \in Seq(Items) /\ Range(work) = {Top} \union Range(Tail(work))
    BY <1>4, WorkTop
  <2>2. x \in Range(Tail(work)) BY <1>4, <2>1
  <2> QED BY <1>2, <1>4, <2>1, <2>2
<1> QED BY <1>3, <1>4 DEF Steady

(* What the properties ask follows from the invariant.                       *)
LEMMA UseFacts ==
  ASSUME Shape, Counts, Tidy PROVE NoUseAfterDelete
<1>1. ASSUME NEW x \in Range(work), x.on \in States, mode[x.on] = "deleted"
      PROVE  x.op \in {"links", "ofPromise", "ofFuture"} /\ x.todo = <<>>
  <2>1. PICK s \in States : s = x.on BY <1>1
  <2>2. Real(x) /\ Standing(x) BY DEF Shape, Counts
  <2>3. x \in Items
    <3>1. work \in Seq(Items) BY DEF Shape, Typed
    <3> QED BY <3>1 DEF Range
  <2>4. /\ Do("decFuture", s) \notin Range(work) /\ Do("decPromise", s) \notin Range(work)
        /\ box[s] = <<>>
    <3>1. futures[s] = 0 /\ promises[s] = 0 /\ box[s] = <<>> BY <1>1, <2>1 DEF Counts, Kept
    <3> QED BY <3>1, BalanceGives DEF Counts
  <2>5. x.op \notin {"decFuture", "decPromise"}
    <3>1. x.todo = <<>> \/ x.op \in {"links", "cancels"} BY <2>2 DEF Real
    <3> QED BY <2>1, <2>3, <2>4, <3>1, Same
  <2>6. x.op \notin {"execute", "activate", "cancels"}
    BY <1>1, <2>2 DEF Standing, Resolved
  <2>7. x.op # "cancel"
    <3> SUFFICES ASSUME x.op = "cancel" PROVE FALSE OBVIOUS
    <3>1. PICK y \in Range(work) : y \in Guards(x) BY HeldBelow DEF Counts
    <3>2. y = Do("decFuture", s) BY <2>1, <3>1 DEF Guards
    <3> QED BY <2>4, <3>1, <3>2
  <2>8. x.op \notin {"call", "delete"} BY <1>1, <2>2, Consts DEF Real
  <2>9. x.op \in {"links", "ofPromise", "ofFuture"}
    BY <2>3, <2>5, <2>6, <2>7, <2>8 DEF Items, Ops
  <2>10. x.todo = <<>>
    <3>1. CASE x.op = "links"
      <4>1. Range(<<>>) = {} BY DEF Range
      <4>2. Range(x.todo) = {} BY <2>1, <2>2, <2>4, <3>1, <4>1 DEF Real
      <4>3. x.todo \in Seq(Links \union Cancels) BY <2>3 DEF Items
      <4> QED BY <4>2, <4>3, NoneLeft
    <3>2. CASE x.op # "links" BY <2>2, <2>9, <3>2 DEF Real
    <3> QED BY <3>1, <3>2
  <2> QED BY <2>9, <2>10
<1>2. \A i \in DOMAIN work : work[i] \in Range(work) BY DEF Range
<1>3. ASSUME Is("delete")
      PROVE  life[Top.on] # "deleted" /\ Do("call", Top.on) \notin Range(work)
  <2>1. work # <<>> /\ Top.op = "delete" BY <1>3 DEF Is
  <2>2. PICK t \in Items, w \in Seq(Items) :
             /\ t = Top /\ w = Tail(work) /\ Real(t)
             /\ work = Over(t, w) /\ Range(work) = {t} \union Range(w)
    BY <2>1, TopFacts
  <2>3. PICK l \in Links : l = t.on BY <2>1, <2>2 DEF Real
  <2>4. t = Do("delete", l) BY <2>1, <2>2, <2>3, Same DEF Real
  <2>5. Alive(life, l) /\ Count(w, Marks(l)) = 0 BY <2>1, <2>2, <2>4, DeleteDue DEF Tidy
  <2>6. Do("call", l) \notin Range(w)
    <3>1. Do("call", l) \in Marks(l) BY MarkerFacts
    <3> QED BY <2>5, <3>1, CountType
  <2>7. Do("call", l) # t BY <2>1, <2>2, MarkerFacts
  <2> QED BY <2>2, <2>3, <2>5, <2>6, <2>7 DEF Alive
<1> QED BY <1>1, <1>2, <1>3 DEF NoUseAfterDelete

LEMMA SettledFacts ==
  ASSUME Shape, Counts, Tidy PROVE Settled
<1> SUFFICES ASSUME work = <<>> PROVE Delivered /\ Abandoned /\ ChainsPending
  BY DEF Settled
<1>1. Range(work) = {} BY DEF Range
<1>2. Delivered
  <2> SUFFICES ASSUME NEW s \in States, mode[s] # "unresolved"
               PROVE  box[s] = <<>> /\ cancelBox[s] = <<>>
    BY DEF Delivered
  <2>1. CASE mode[s] \in {"unborn", "deleted"} BY <2>1 DEF Counts, Kept
  <2>2. CASE mode[s] \in Resolved
    <3>1. Range(box[s]) = {} /\ Range(cancelBox[s]) = {}
      BY <1>1, <2>2 DEF Counts, Delivering
    <3>2. box[s] \in Seq(Links) /\ cancelBox[s] \in Seq(Chains \union Cancels)
      BY DEF Shape, Typed
    <3> QED BY <3>1, <3>2, NoneLeft
  <2> QED BY <2>1, <2>2 DEF Shape, Typed
<1>3. Abandoned BY DEF Counts, Kept, Abandoned
<1>4. ChainsPending
  <2> SUFFICES ASSUME NEW l \in Chains
               PROVE  life[l] = "linked" <=> mode[Dst[l]] = "unresolved" /\ l \in out
    BY DEF ChainsPending
  <2>1. l \in out <=> Alive(life, l) BY DEF Tidy, Placed
  <2>2. life[l] # "running"
    <3>1. Count(work, Marks(l)) = IF Due(l) THEN 1 ELSE 0 BY Consts DEF Tidy, Placed
    <3>2. work \in Seq(Items) BY DEF Shape, Typed
    <3>3. ~ (Count(work, Marks(l)) > 0) BY <1>1, <3>2, CountType
    <3> QED BY <3>1, <3>3 DEF Due
  <2>3. life[l] = "linked" => mode[Dst[l]] = "unresolved"
    <3>1. Quiet BY QuietTop
    <3> QED BY <3>1, QuietFacts DEF Tidy
  <2> QED BY <2>1, <2>2, <2>3 DEF Alive
<1> QED BY <1>2, <1>3, <1>4

(* Of every program, tame or not: as long as no continuation is destroyed    *)
(* twice, the counters of every state count what refers to it, and the       *)
(* asserts of the counters hold.                                             *)
THEOREM CountedWhileSafe == Spec /\ []Safe => [](Counted /\ AssertsHold)
<1>1. Init => Shape /\ Counts BY ShapeInit, CountsInit
<1>2. Shape /\ Counts /\ Safe /\ [Next]_vars => (Shape /\ Counts)' BY ShapeStep, CountsStep
<1>3. Shape /\ Counts => Counted /\ AssertsHold BY CountedFacts, AssertsFacts
<1> QED BY <1>1, <1>2, <1>3, PTL DEF Spec

(* The inductive invariant.                                                  *)
IInv == Shape /\ Counts /\ Tidy

(* The invariant holds of every tame program: Tidy gives Safe, Safe carries  *)
(* the counts, and the counts with Tame carry Tidy.                          *)
THEOREM IInvHolds == ASSUME Tame PROVE Spec => []IInv
<1>1. Init => IInv BY ShapeInit, CountsInit, TidyInit DEF IInv
<1>2. IInv /\ [Next]_vars => IInv'
  <2> SUFFICES ASSUME IInv, [Next]_vars PROVE IInv' OBVIOUS
  <2>1. Shape /\ Counts /\ Tidy BY DEF IInv
  <2>2. Safe BY <2>1, TidySafe
  <2>3. Shape' BY <2>1, ShapeStep
  <2>4. Counts' BY <2>1, <2>2, CountsStep
  <2>5. Tidy' BY <2>1, TidyStep
  <2> QED BY <2>3, <2>4, <2>5 DEF IInv
<1> QED BY <1>1, <1>2, PTL DEF Spec

(* The types, and that no counter ever drops below zero, where the code has  *)
(* unsigned numbers that would wrap.                                         *)
THEOREM TypeCorrect == ASSUME Tame PROVE Spec => []TypeOK
<1>1. ASSUME IInv PROVE TypeOK
  <2>1. Shape /\ Counts BY <1>1 DEF IInv
  <2>2. ASSUME NEW s \in States PROVE futures[s] \in Nat /\ promises[s] \in Nat
    <3>1. PICK f, p, a, b \in Nat :
             /\ f = Count(work, FutureOf(s)) /\ p = Count(work, {Do("decPromise", s)})
             /\ IsFiniteSet(Live(life, s)) /\ a = Cardinality(Live(life, s))
             /\ b = Cardinality(Ends(out, s))
             /\ futH[s] \in Nat /\ proH[s] \in Nat
             /\ futures[s] = futH[s] + f + a /\ promises[s] = proH[s] + p + b
      BY <2>1, BalanceAt DEF Counts
    <3> QED BY <3>1
  <2>3. futures \in [States -> Nat] /\ promises \in [States -> Nat]
    <3>1. futures \in [States -> Int] /\ promises \in [States -> Int] BY <2>1 DEF Shape, Typed
    <3> QED BY <2>2, <3>1
  <2>4. \A s \in States : /\ box[s] \in Seq(Links) /\ IsInjective(box[s])
                          /\ cancelBox[s] \in Seq(Chains \union Cancels)
    BY <2>1 DEF Shape, Typed, Boxes
  <2> QED BY <2>1, <2>3, <2>4 DEF TypeOK, Shape, Typed
<1>2. IInv => TypeOK BY <1>1
<1> QED BY <1>2, IInvHolds, PTL

(* The counters of a state are exactly what refers to it: the program's      *)
(* objects, what is attached and what calls under way still hold.            *)
THEOREM CountedHolds == ASSUME Tame PROVE Spec => []Counted
<1>1. IInv => Counted BY CountedFacts DEF IInv
<1> QED BY <1>1, IInvHolds, PTL

(* No counter is given back twice, or to a state that is gone, and only a    *)
(* resolved state that somebody refers to executes its continuations.        *)
THEOREM AssertsNeverFail == ASSUME Tame PROVE Spec => []AssertsHold
<1>1. IInv => AssertsHold BY AssertsFacts DEF IInv
<1> QED BY <1>1, IInvHolds, PTL

(* No call returns into a state that was deleted below it, and no            *)
(* continuation is destroyed twice or while it is being called.              *)
THEOREM NothingUsedAfterDelete == ASSUME Tame PROVE Spec => []NoUseAfterDelete
<1>1. IInv => NoUseAfterDelete BY UseFacts DEF IInv
<1> QED BY <1>1, IInvHolds, PTL

(* When no call is under way resolved states have delivered, abandoned ones  *)
(* are cancelled or gone, and a chain is attached exactly while its result   *)
(* is open.                                                                  *)
THEOREM AllSettled == ASSUME Tame PROVE Spec => []Settled
<1>1. IInv => Settled BY SettledFacts DEF IInv
<1> QED BY <1>1, IInvHolds, PTL
==============================================================================
