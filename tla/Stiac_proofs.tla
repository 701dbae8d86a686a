----------------------------- MODULE Stiac_proofs -----------------------------
(***************************************************************************)
(* Proofs about remote calls, for any number of links, calls and uses: two *)
(* edges never make each other fail, and mean the same link by a number.   *)
(*                                                                         *)
(* A number of an edge is a conversation: the link L that the edge has     *)
(* under it, the link R that the peer has, and what is on its way, F to    *)
(* the peer and B back.  One after another, links of several generations   *)
(* go through it.  The invariant says of each end what it may still hear   *)
(* (HearL, HearR), which stays true when the other end is gone, and of     *)
(* both ends together how far the link they mean has come (Tie).           *)
(***************************************************************************)
EXTENDS Stiac, ListLemmas, FiniteSetTheorems

Gens  == {"put", "call"} \X Nat
New   == {"put", "call"}
Ops   == New \union {"use", "answer", "cancel", "begin", "end"}
Messages == [op : Ops, side : Sides, id : Ids, n : Gens]
Links == {None} \union [kind : {"interface", "promise", "future"}, n : Gens, open : BOOLEAN]

(* What is said in a queue under one number: operations and generations.     *)
Said(Q, s, id) ==
  {<<Q[i].op, Q[i].n>> : i \in {j \in DOMAIN Q : Q[j].side = s /\ Q[j].id = id}}

(* What may follow what: a link is made, used, closed by one end, ended by   *)
(* the other, and a link of another generation is not made before that.      *)
Before(x, y) ==
  IF x[2] = y[2]
  THEN \/ x[1] \in New /\ y[1] \in {"use", "cancel", "begin"}
       \/ x[1] = "use" /\ y[1] \in {"use", "begin", "end"}
       \/ x[1] \in {"answer", "cancel"} /\ y[1] = "end"
  ELSE x[1] \notin New
Ordered(Q) ==
  \A i, j \in DOMAIN Q :
    i < j /\ Q[i].side = Q[j].side /\ Q[i].id = Q[j].id =>
      Before(<<Q[i].op, Q[i].n>>, <<Q[j].op, Q[j].n>>)

(* The link X is there, and of generation g.                                 *)
Is(X, g) == X # None /\ X.n = g
(* The link X at the side whose calls are of this kind, xz if a zombie.      *)
Formed(X, xz, kind) ==
  IF X = None THEN ~xz
  ELSE /\ X.open <=> ~xz
       /\ X.kind = IF X.n[1] = "put" THEN "interface" ELSE kind
Closing(Q, g) == <<"answer", g>> \in Q \/ <<"cancel", g>> \in Q \/ <<"begin", g>> \in Q

(* What the end that made the link may hear.  An end for another generation  *)
(* comes after a cancel (cd) only, and meets no zombie.                      *)
HearL(L, lz, B, cd) ==
  /\ Formed(L, lz, "promise")
  /\ \A x \in B :
       /\ \/ x[1] \in {"use", "begin"} /\ x[2][1] = "put"
          \/ x[1] = "answer" /\ x[2][1] = "call"
          \/ x[1] = "end"
       /\ x[1] # "end" => Is(L, x[2])
       /\ x[1] = "end" => IF Is(L, x[2]) THEN lz ELSE ~lz /\ cd
       /\ x[1] = "begin" => <<"end", x[2]>> \notin B
  /\ lz /\ L.kind = "promise" => cd

(* What the other end may hear.  Whatever it has now is closed before a new  *)
(* link is made.                                                             *)
HearR(R, rz, F) ==
  /\ Formed(R, rz, "future")
  /\ \A x \in F :
       /\ \/ x[1] \in New /\ x[2][1] = x[1]
          \/ x[1] \in {"use", "begin"} /\ x[2][1] = "put"
          \/ x[1] = "cancel" /\ x[2][1] = "call"
          \/ x[1] = "end"
       /\ x[1] \in {"use", "begin", "cancel"} => Is(R, x[2]) \/ <<x[2][1], x[2]>> \in F
       /\ x[1] \in New /\ R # None => R.n # x[2] /\ (Closing(F, R.n) \/ <<"end", R.n>> \in F)
       /\ x[1] = "end" /\ R # None => R.n = x[2] /\ rz

(* How far the link has come that the maker has: it is made, known to both,  *)
(* or gone at the other end.                                                 *)
Made(L, lz, R, F, B) ==
  /\ <<L.n[1], L.n>> \in F /\ ~Is(R, L.n)
  /\ \A x \in B : x[2] # L.n
  /\ <<"end", L.n>> \notin F
  /\ lz <=> Closing(F, L.n)
Known(L, lz, R, rz, F, B) ==
  /\ <<L.n[1], L.n>> \notin F /\ Is(R, L.n)
  /\ <<"end", L.n>> \notin F \union B
  /\ lz <=> Closing(F, L.n)
  /\ rz <=> Closing(B, L.n)
Left(L, lz, R, F, B) ==
  /\ R = None /\ lz
  /\ \A x \in F : x[2] # L.n
  /\ <<"end", L.n>> \in B \/ <<"begin", L.n>> \in B
(* The maker has it no more.                                                 *)
Late(R, rz, F, B) ==
  /\ rz /\ <<"end", R.n>> \notin B
  /\ Closing(F, R.n) \/ <<"end", R.n>> \in F
  /\ <<"cancel", R.n>> \in F => <<"end", R.n>> \in F
Tie(L, lz, R, rz, F, B, cd) ==
  /\ L # None => Made(L, lz, R, F, B) \/ Known(L, lz, R, rz, F, B) \/ Left(L, lz, R, F, B)
  /\ R # None /\ ~Is(L, R.n) => Late(R, rz, F, B)
  /\ \A x \in F :
       /\ x[1] # "end" => Is(L, x[2]) \/ Is(R, x[2])
       /\ x[1] \in New => Is(L, x[2])
       /\ x[1] = "cancel" => cd /\ (lz => Is(L, x[2]))

-----------------------------------------------------------------------------
(* The conversations of edge e.                                              *)
Loc(e, id)     == links[e]["local"][id]
Rem(e, id)     == links[Peer(e)]["remote"][id]
LocZombie(e, id) == id \in zombies[e]["local"]
RemZombie(e, id) == id \in zombies[Peer(e)]["remote"]
Forth(e, id)   == Said(wire[Peer(e)], "remote", id)
Back(e, id)    == Said(wire[e], "local", id)
Cancelled(e)   == done[e]["cancel"] # 0
Works(e)       == state[e] = "work"

Conversation(e, id) ==
  /\ Works(e) => HearL(Loc(e, id), LocZombie(e, id), Back(e, id), Cancelled(e))
  /\ Works(Peer(e)) => HearR(Rem(e, id), RemZombie(e, id), Forth(e, id))
  /\ Works(e) /\ Works(Peer(e)) =>
       Tie(Loc(e, id), LocZombie(e, id), Rem(e, id), RemZombie(e, id), Forth(e, id), Back(e, id),
           Cancelled(e))

(* The links that there have been.                                           *)
Used(e) == {g \in Gens : g[2] <= done[e][g[1]]}
UsedOnly(e, id) ==
  /\ Loc(e, id) # None => Loc(e, id).n \in Used(e)
  /\ Rem(e, id) # None => Rem(e, id).n \in Used(e)
  /\ \A x \in Forth(e, id) \union Back(e, id) : x[2] \in Used(e)

Listed(e) == {id \in Ids : Loc(e, id) # None}
(* A number is left for every link that may still be made, and what an edge  *)
(* has passed it may pass.                                                   *)
Bounded(e) ==
  /\ \A op \in {"put", "call", "cancel", "use"} : done[e][op] <= Quota[e][op]
  /\ Cardinality(Listed(e)) <= done[e]["put"] + done[e]["call"]
  /\ \A id \in Ids : Loc(e, id).kind = "interface" => Quota[e]["put"] > 0

StiacType ==
  /\ state \in [Edges -> {"work", "null"}]
  /\ links \in [Edges -> [Sides -> [Ids -> Links]]]
  /\ zombies \in [Edges -> [Sides -> SUBSET Ids]]
  /\ wire \in [Edges -> Seq(Messages)]
  /\ done \in [Edges -> [{"put", "call", "cancel", "use"} -> Nat]]

StiacInv ==
  /\ StiacType
  /\ \A e \in Edges : Ordered(wire[e]) /\ Bounded(e)
  /\ \A e \in Edges, id \in Ids : Conversation(e, id) /\ UsedOnly(e, id)

-----------------------------------------------------------------------------
(* What one end does, told to the other: lemmas about one conversation.      *)
Sayings == Ops \X Gens

(* One conversation, a queue behind its first message and with one more, a   *)
(* link just closed, and one just made.                                      *)
Terms(L, lz, R, rz, F, B, cd) ==
  /\ L \in Links /\ R \in Links /\ lz \in BOOLEAN /\ rz \in BOOLEAN /\ cd \in BOOLEAN
  /\ F \in SUBSET Sayings /\ B \in SUBSET Sayings
Taken(Q, Q2, op, g) ==
  /\ g \in Gens /\ <<op, g>> \in Q /\ Q2 \subseteq Q /\ Q \subseteq Q2 \union {<<op, g>>}
  /\ \A x \in Q2 : Before(<<op, g>>, x)
Shut(Y, X) == Y = [X EXCEPT !.open = FALSE]
More(Q2, Q, op, g) == Q2 = Q \union {<<op, g>>}
NewLink(X, g, kind) == X \in Links /\ X # None /\ X.n = g /\ Formed(X, FALSE, kind)

(* The maker takes a free number: it meets nothing that is still open.       *)
LEMMA MakeSays ==
  ASSUME NEW lz, NEW R, NEW rz, NEW F, NEW B, NEW cd, Terms(None, lz, R, rz, F, B, cd),
         NEW g \in Gens, NEW L2, NewLink(L2, g, "promise"),
         NEW F2, More(F2, F, g[1], g),
         HearL(None, lz, B, cd), R # None => R.n # g, \A x \in F \union B : x[2] # g
  PROVE  /\ HearL(L2, lz, B, cd)
         /\ HearR(R, rz, F) /\ Tie(None, lz, R, rz, F, B, cd) =>
              /\ \A x \in F : Before(x, <<g[1], g>>)
              /\ HearR(R, rz, F2)
              /\ Tie(L2, lz, R, rz, F2, B, cd)
<1> USE DEF Terms, More, NewLink
<1>1. /\ L2 \in Links /\ L2 # None /\ L2.n = g /\ L2.open
      /\ L2.kind = IF g[1] = "put" THEN "interface" ELSE "promise"
  BY DEF Formed
<1>2. ~lz BY DEF HearL, Formed
<1>3. HearL(L2, lz, B, cd)
  BY <1>1, <1>2 DEF HearL, Formed, Is, Sayings
<1>4. ASSUME HearR(R, rz, F), Tie(None, lz, R, rz, F, B, cd)
      PROVE  /\ \A x \in F : Before(x, <<g[1], g>>)
             /\ HearR(R, rz, F2)
             /\ Tie(L2, lz, R, rz, F2, B, cd)
  <2>1. \A x \in F : x[1] \notin New
    BY <1>4 DEF Tie, Is, HearR
  <2>2. \A x \in F : Before(x, <<g[1], g>>)
    BY <2>1 DEF Before, Sayings
  <2>3. R # None => Late(R, rz, F, B)
    BY <1>4 DEF Tie, Is
  <2>4. HearR(R, rz, F2)
    BY <1>4, <2>3 DEF HearR, Is, Late, Closing, Sayings, New, Gens
  <2>5. Made(L2, lz, R, F2, B)
    BY <1>1, <1>2 DEF Made, Is, Closing, Sayings, New, Gens
  <2>6. R # None => Late(R, rz, F2, B)
    BY <2>3 DEF Late, Closing, Gens, New
  <2>7. Tie(L2, lz, R, rz, F2, B, cd)
    BY <1>1, <1>2, <1>4, <2>1, <2>5, <2>6 DEF Tie, Is, New, Gens
  <2> QED BY <2>2, <2>4, <2>7
<1> QED BY <1>3, <1>4

(* Uses come between the making and the first closing of a link.             *)
LEMMA UseSaysL ==
  ASSUME NEW L, NEW lz, NEW R, NEW rz, NEW F, NEW B, NEW cd,
         Terms(L, lz, R, rz, F, B, cd),
         NEW F2, More(F2, F, "use", L.n),
         HearL(L, lz, B, cd), HearR(R, rz, F), Tie(L, lz, R, rz, F, B, cd),
         L # None, L.kind = "interface", L.open
  PROVE  /\ \A x \in F : Before(x, <<"use", L.n>>)
         /\ HearR(R, rz, F2)
         /\ Tie(L, lz, R, rz, F2, B, cd)
<1> USE DEF Terms, More
<1>1. ~lz /\ L.n \in Gens /\ L.n[1] = "put"
  BY DEF HearL, Formed, Links
<1>2. Made(L, lz, R, F, B) \/ Known(L, lz, R, rz, F, B)
  BY <1>1 DEF Tie, Left
<1>3. \A x \in F : Before(x, <<"use", L.n>>)
  BY <1>1, <1>2 DEF Before, Sayings, Tie, Is, Made, Known, Closing, HearR, New
<1>4. HearR(R, rz, F2)
  BY <1>1, <1>2 DEF HearR, Closing, Is, New, Made, Known
<1>5. Made(L, lz, R, F, B) => Made(L, lz, R, F2, B)
  BY <1>1 DEF Made, Closing
<1>6. Known(L, lz, R, rz, F, B) => Known(L, lz, R, rz, F2, B)
  BY <1>1 DEF Known, Closing
<1>7. R # None /\ ~Is(L, R.n) => Late(R, rz, F2, B)
  BY DEF Tie, Late, Closing
<1>8. Tie(L, lz, R, rz, F2, B, cd)
  BY <1>1, <1>2, <1>5, <1>6, <1>7 DEF Tie, Is, New
<1> QED BY <1>3, <1>4, <1>8

LEMMA UseSaysR ==
  ASSUME NEW L, NEW lz, NEW R, NEW rz, NEW F, NEW B, NEW cd,
         Terms(L, lz, R, rz, F, B, cd),
         NEW B2, More(B2, B, "use", R.n),
         HearL(L, lz, B, cd), HearR(R, rz, F), Tie(L, lz, R, rz, F, B, cd),
         R # None, R.kind = "interface", R.open
  PROVE  /\ \A x \in B : Before(x, <<"use", R.n>>)
         /\ HearL(L, lz, B2, cd)
         /\ Tie(L, lz, R, rz, F, B2, cd)
<1> USE DEF Terms, More
<1>1. ~rz /\ R.n \in Gens /\ R.n[1] = "put"
  BY DEF HearR, Formed, Links
<1>2. L # None /\ L.n = R.n /\ Known(L, lz, R, rz, F, B)
  BY <1>1 DEF Tie, Is, Late, Made, Left
<1>3. \A x \in B : Before(x, <<"use", R.n>>)
  <2>1. \A x \in B : x = <<x[1], x[2]>> BY DEF Sayings
  <2>2. \A x \in B : x[2] = R.n => x[1] = "use"
    BY <1>1, <1>2, <2>1 DEF HearL, Known, Closing
  <2>3. \A x \in B : x[1] \notin New BY DEF HearL, New
  <2> QED BY <2>2, <2>3 DEF Before
<1>4. HearL(L, lz, B2, cd)
  BY <1>1, <1>2 DEF HearL, Is
<1>5. Known(L, lz, R, rz, F, B2)
  BY <1>1, <1>2 DEF Known, Closing
<1>6. Tie(L, lz, R, rz, F, B2, cd)
  BY <1>1, <1>2, <1>5 DEF Tie, Is
<1> QED BY <1>3, <1>4, <1>6

(* Both ends may let go of an interface, each once.  The one that made it    *)
(* has cancelled nothing.                                                    *)
LEMMA UninvolveSaysL ==
  ASSUME NEW L, NEW lz, NEW R, NEW rz, NEW F, NEW B, NEW cd,
         Terms(L, lz, R, rz, F, B, cd),
         NEW L2, Shut(L2, L),
         NEW F2, More(F2, F, "begin", L.n),
         HearL(L, lz, B, cd), L # None, L.kind = "interface", L.open, ~cd
  PROVE  /\ HearL(L2, TRUE, B, cd)
         /\ HearR(R, rz, F) /\ Tie(L, lz, R, rz, F, B, cd) =>
              /\ \A x \in F : Before(x, <<"begin", L.n>>)
              /\ HearR(R, rz, F2)
              /\ Tie(L2, TRUE, R, rz, F2, B, cd)
<1> USE DEF Terms, Shut, More
<1>1. ~lz /\ L.n \in Gens /\ L.n[1] = "put"
  BY DEF HearL, Formed, Links
<1>2. L2 \in Links /\ L2 # None /\ L2.n = L.n /\ L2.kind = L.kind /\ ~L2.open
  BY DEF Links, None
<1>3. HearL(L2, TRUE, B, cd)
  BY <1>1, <1>2 DEF HearL, Formed, Is
<1>4. ASSUME HearR(R, rz, F), Tie(L, lz, R, rz, F, B, cd)
      PROVE  /\ \A x \in F : Before(x, <<"begin", L.n>>)
             /\ HearR(R, rz, F2)
             /\ Tie(L2, TRUE, R, rz, F2, B, cd)
  <2>1. Made(L, lz, R, F, B) \/ Known(L, lz, R, rz, F, B)
    BY <1>1, <1>4 DEF Tie, Left
  <2>2. \A x \in F : Before(x, <<"begin", L.n>>)
    BY <1>1, <1>4, <2>1 DEF Before, Sayings, Tie, Is, Made, Known, Closing, HearR, New
  <2>3. HearR(R, rz, F2)
    BY <1>1, <1>4, <2>1 DEF HearR, Closing, Is, New, Made, Known
  <2>4. Made(L, lz, R, F, B) => Made(L2, TRUE, R, F2, B)
    BY <1>1, <1>2 DEF Made, Closing, New
  <2>5. Known(L, lz, R, rz, F, B) => Known(L2, TRUE, R, rz, F2, B)
    BY <1>1, <1>2 DEF Known, Closing
  <2>6. R # None /\ ~Is(L2, R.n) => Late(R, rz, F2, B)
    BY <1>2, <1>4 DEF Tie, Late, Closing, Is
  <2>7. Tie(L2, TRUE, R, rz, F2, B, cd)
    <3>1. \A x \in F2 :
            /\ x[1] # "end" => Is(L2, x[2]) \/ Is(R, x[2])
            /\ x[1] \in New => Is(L2, x[2])
      BY <1>2, <1>4 DEF Tie, Is, New
    <3>2. \A x \in F2 : x[1] = "cancel" => cd /\ (TRUE => Is(L2, x[2]))
      BY <1>2, <1>4 DEF Tie, Is
    <3> QED BY <2>1, <2>4, <2>5, <2>6, <3>1, <3>2 DEF Tie
  <2> QED BY <2>2, <2>3, <2>7
<1> QED BY <1>3, <1>4

LEMMA UninvolveSaysR ==
  ASSUME NEW L, NEW lz, NEW R, NEW rz, NEW F, NEW B, NEW cd,
         Terms(L, lz, R, rz, F, B, cd),
         NEW R2, Shut(R2, R),
         NEW B2, More(B2, B, "begin", R.n),
         HearR(R, rz, F), R # None, R.kind = "interface", R.open
  PROVE  /\ HearR(R2, TRUE, F)
         /\ HearL(L, lz, B, cd) /\ Tie(L, lz, R, rz, F, B, cd) =>
              /\ \A x \in B : Before(x, <<"begin", R.n>>)
              /\ HearL(L, lz, B2, cd)
              /\ Tie(L, lz, R2, TRUE, F, B2, cd)
<1> USE DEF Terms, Shut, More
<1>1. ~rz /\ R.n \in Gens /\ R.n[1] = "put"
  BY DEF HearR, Formed, Links
<1>2. R2 \in Links /\ R2 # None /\ R2.n = R.n /\ R2.kind = R.kind /\ ~R2.open
  BY DEF Links, None
<1>3. HearR(R2, TRUE, F)
  BY <1>1, <1>2 DEF HearR, Formed, Is
<1>4. ASSUME HearL(L, lz, B, cd), Tie(L, lz, R, rz, F, B, cd)
      PROVE  /\ \A x \in B : Before(x, <<"begin", R.n>>)
             /\ HearL(L, lz, B2, cd)
             /\ Tie(L, lz, R2, TRUE, F, B2, cd)
  <2>1. L # None /\ L.n = R.n /\ Known(L, lz, R, rz, F, B)
    BY <1>1, <1>4 DEF Tie, Is, Late, Made, Left
  <2>2. \A x \in B : Before(x, <<"begin", R.n>>)
    <3>1. \A x \in B : x = <<x[1], x[2]>> BY DEF Sayings
    <3>2. \A x \in B : x[2] = R.n => x[1] = "use"
      BY <1>1, <1>4, <2>1, <3>1 DEF HearL, Known, Closing
    <3>3. \A x \in B : x[1] \notin New BY <1>4 DEF HearL, New
    <3> QED BY <3>2, <3>3 DEF Before
  <2>3. HearL(L, lz, B2, cd)
    BY <1>1, <1>4, <2>1 DEF HearL, Is, Known
  <2>4. Known(L, lz, R2, TRUE, F, B2)
    BY <1>1, <1>2, <2>1 DEF Known, Closing, Is
  <2>5. Tie(L, lz, R2, TRUE, F, B2, cd)
    BY <1>1, <1>2, <1>4, <2>1, <2>4 DEF Tie, Is
  <2> QED BY <2>2, <2>3, <2>5
<1> QED BY <1>3, <1>4

(* The first cancel: no end of an earlier link is still under way.           *)
LEMMA CancelSays ==
  ASSUME NEW L, NEW lz, NEW R, NEW rz, NEW F, NEW B, NEW cd,
         Terms(L, lz, R, rz, F, B, cd),
         NEW L2, Shut(L2, L),
         NEW F2, More(F2, F, "cancel", L.n),
         HearL(L, lz, B, cd), L # None, L.kind = "promise", L.open, ~cd
  PROVE  /\ HearL(L2, TRUE, B, TRUE)
         /\ HearR(R, rz, F) /\ Tie(L, lz, R, rz, F, B, cd) =>
              /\ \A x \in F : Before(x, <<"cancel", L.n>>)
              /\ HearR(R, rz, F2)
              /\ Tie(L2, TRUE, R, rz, F2, B, TRUE)
<1> USE DEF Terms, Shut, More
<1>1. ~lz /\ L.n \in Gens /\ L.n[1] = "call"
  BY DEF HearL, Formed, Links, Gens
<1>2. L2 \in Links /\ L2 # None /\ L2.n = L.n /\ L2.kind = L.kind /\ ~L2.open
  BY DEF Links, None
<1>3. HearL(L2, TRUE, B, TRUE)
  BY <1>1, <1>2 DEF HearL, Formed, Is
<1>4. ASSUME HearR(R, rz, F), Tie(L, lz, R, rz, F, B, cd)
      PROVE  /\ \A x \in F : Before(x, <<"cancel", L.n>>)
             /\ HearR(R, rz, F2)
             /\ Tie(L2, TRUE, R, rz, F2, B, TRUE)
  <2>1. Made(L, lz, R, F, B) \/ Known(L, lz, R, rz, F, B)
    BY <1>1, <1>4 DEF Tie, Left
  <2>2. \A x \in F : Before(x, <<"cancel", L.n>>)
    BY <1>1, <1>4, <2>1 DEF Before, Sayings, Tie, Is, Made, Known, Closing, HearR, New
  <2>3. HearR(R, rz, F2)
    BY <1>1, <1>4, <2>1 DEF HearR, Closing, Is, New, Made, Known
  <2>4. Made(L, lz, R, F, B) => Made(L2, TRUE, R, F2, B)
    BY <1>1, <1>2 DEF Made, Closing, New
  <2>5. Known(L, lz, R, rz, F, B) => Known(L2, TRUE, R, rz, F2, B)
    BY <1>1, <1>2 DEF Known, Closing
  <2>6. R # None /\ ~Is(L2, R.n) => Late(R, rz, F2, B)
    BY <1>2, <1>4 DEF Tie, Late, Closing, Is
  <2>7. Tie(L2, TRUE, R, rz, F2, B, TRUE)
    <3>1. \A x \in F2 :
            /\ x[1] # "end" => Is(L2, x[2]) \/ Is(R, x[2])
            /\ x[1] \in New => Is(L2, x[2])
      BY <1>2, <1>4 DEF Tie, Is, New
    <3>2. \A x \in F2 : x[1] = "cancel" => TRUE /\ (TRUE => Is(L2, x[2]))
      BY <1>2, <1>4 DEF Tie, Is
    <3> QED BY <2>1, <2>4, <2>5, <2>6, <3>1, <3>2 DEF Tie
  <2> QED BY <2>2, <2>3, <2>7
<1> QED BY <1>3, <1>4

(* The answer.                                                               *)
LEMMA ResolveSays ==
  ASSUME NEW L, NEW lz, NEW R, NEW rz, NEW F, NEW B, NEW cd,
         Terms(L, lz, R, rz, F, B, cd),
         NEW R2, Shut(R2, R),
         NEW B2, More(B2, B, "answer", R.n),
         HearR(R, rz, F), R # None, R.kind = "future", R.open
  PROVE  /\ HearR(R2, TRUE, F)
         /\ HearL(L, lz, B, cd) /\ Tie(L, lz, R, rz, F, B, cd) =>
              /\ \A x \in B : Before(x, <<"answer", R.n>>)
              /\ HearL(L, lz, B2, cd)
              /\ Tie(L, lz, R2, TRUE, F, B2, cd)
<1> USE DEF Terms, Shut, More
<1>1. ~rz /\ R.n \in Gens /\ R.n[1] = "call"
  BY DEF HearR, Formed, Links, Gens
<1>2. R2 \in Links /\ R2 # None /\ R2.n = R.n /\ R2.kind = R.kind /\ ~R2.open
  BY DEF Links, None
<1>3. HearR(R2, TRUE, F)
  BY <1>1, <1>2 DEF HearR, Formed, Is
<1>4. ASSUME HearL(L, lz, B, cd), Tie(L, lz, R, rz, F, B, cd)
      PROVE  /\ \A x \in B : Before(x, <<"answer", R.n>>)
             /\ HearL(L, lz, B2, cd)
             /\ Tie(L, lz, R2, TRUE, F, B2, cd)
  <2>1. L # None /\ L.n = R.n /\ Known(L, lz, R, rz, F, B)
    BY <1>1, <1>4 DEF Tie, Is, Late, Made, Left
  <2>2. \A x \in B : Before(x, <<"answer", R.n>>)
    <3>1. \A x \in B : x = <<x[1], x[2]>> BY DEF Sayings
    <3>2. \A x \in B : x[2] # R.n
      BY <1>1, <1>4, <2>1, <3>1 DEF HearL, Known, Closing
    <3>3. \A x \in B : x[1] \notin New BY <1>4 DEF HearL, New
    <3> QED BY <3>2, <3>3 DEF Before
  <2>3. HearL(L, lz, B2, cd)
    BY <1>1, <1>4, <2>1 DEF HearL, Is
  <2>4. Known(L, lz, R2, TRUE, F, B2)
    BY <1>1, <1>2, <2>1 DEF Known, Closing, Is
  <2>5. Tie(L, lz, R2, TRUE, F, B2, cd)
    BY <1>1, <1>2, <1>4, <2>1, <2>4 DEF Tie, Is
  <2> QED BY <2>2, <2>3, <2>5
<1> QED BY <1>3, <1>4

-----------------------------------------------------------------------------
(* What one end hears: lemmas about one conversation.                        *)

(* HearL and HearR of one message.                                           *)
LEMMA SaidToL ==
  ASSUME NEW L, NEW lz, NEW B, NEW cd, NEW g, HearL(L, lz, B, cd)
  PROVE  /\ <<"use", g>> \in B => g[1] = "put" /\ Is(L, g)
         /\ <<"begin", g>> \in B => g[1] = "put" /\ Is(L, g) /\ <<"end", g>> \notin B
         /\ <<"answer", g>> \in B => g[1] = "call" /\ Is(L, g)
         /\ <<"end", g>> \in B => IF Is(L, g) THEN lz ELSE ~lz /\ cd
<1>1. ASSUME <<"use", g>> \in B PROVE g[1] = "put" /\ Is(L, g)
  <2> DEFINE x == <<"use", g>>
  <2>1. x \in B /\ x[1] = "use" /\ x[2] = g BY <1>1
  <2> QED BY <2>1 DEF HearL
<1>2. ASSUME <<"begin", g>> \in B PROVE g[1] = "put" /\ Is(L, g) /\ <<"end", g>> \notin B
  <2> DEFINE x == <<"begin", g>>
  <2>1. x \in B /\ x[1] = "begin" /\ x[2] = g BY <1>2
  <2> QED BY <2>1 DEF HearL
<1>3. ASSUME <<"answer", g>> \in B PROVE g[1] = "call" /\ Is(L, g)
  <2> DEFINE x == <<"answer", g>>
  <2>1. x \in B /\ x[1] = "answer" /\ x[2] = g BY <1>3
  <2> QED BY <2>1 DEF HearL
<1>4. ASSUME <<"end", g>> \in B PROVE IF Is(L, g) THEN lz ELSE ~lz /\ cd
  <2> DEFINE x == <<"end", g>>
  <2>1. x \in B /\ x[1] = "end" /\ x[2] = g BY <1>4
  <2> QED BY <2>1 DEF HearL
<1> QED BY <1>1, <1>2, <1>3, <1>4

LEMMA SaidToR ==
  ASSUME NEW R, NEW rz, NEW F, NEW g, HearR(R, rz, F)
  PROVE  /\ \A op \in New : <<op, g>> \in F =>
              /\ g[1] = op
              /\ R # None => R.n # g /\ (Closing(F, R.n) \/ <<"end", R.n>> \in F)
         /\ \A op \in {"use", "begin"} :
              <<op, g>> \in F => g[1] = "put" /\ (Is(R, g) \/ <<"put", g>> \in F)
         /\ <<"cancel", g>> \in F => g[1] = "call" /\ (Is(R, g) \/ <<"call", g>> \in F)
         /\ <<"end", g>> \in F /\ R # None => R.n = g /\ rz
<1>1. ASSUME NEW op \in New, <<op, g>> \in F
      PROVE  /\ g[1] = op
             /\ R # None => R.n # g /\ (Closing(F, R.n) \/ <<"end", R.n>> \in F)
  <2> DEFINE x == <<op, g>>
  <2>1. x \in F /\ x[1] = op /\ x[2] = g BY <1>1
  <2> QED BY <2>1 DEF HearR, New
<1>2. ASSUME NEW op \in {"use", "begin"}, <<op, g>> \in F
      PROVE  g[1] = "put" /\ (Is(R, g) \/ <<"put", g>> \in F)
  <2> DEFINE x == <<op, g>>
  <2>1. x \in F /\ x[1] = op /\ x[2] = g BY <1>2
  <2> QED BY <2>1 DEF HearR, New
<1>3. ASSUME <<"cancel", g>> \in F PROVE g[1] = "call" /\ (Is(R, g) \/ <<"call", g>> \in F)
  <2> DEFINE x == <<"cancel", g>>
  <2>1. x \in F /\ x[1] = "cancel" /\ x[2] = g BY <1>3
  <2> QED BY <2>1 DEF HearR, New
<1>4. ASSUME <<"end", g>> \in F, R # None PROVE R.n = g /\ rz
  <2> DEFINE x == <<"end", g>>
  <2>1. x \in F /\ x[1] = "end" /\ x[2] = g BY <1>4
  <2> QED BY <2>1, <1>4 DEF HearR
<1> QED BY <1>1, <1>2, <1>3, <1>4

(* ... and of an end more.                                                   *)
LEMMA EndToL ==
  ASSUME NEW L, NEW lz, NEW B, NEW cd, NEW g, HearL(L, lz, B, cd),
         \A x \in B : x[1] = "begin" => x[2] # g,
         IF Is(L, g) THEN lz ELSE ~lz /\ cd
  PROVE  HearL(L, lz, B \union {<<"end", g>>}, cd)
<1> DEFINE e == <<"end", g>>
           B2 == B \union {e}
<1>1. e[1] = "end" /\ e[2] = g OBVIOUS
<1> HIDE DEF e
<1>2. \A x \in B2 :
        /\ \/ x[1] \in {"use", "begin"} /\ x[2][1] = "put"
           \/ x[1] = "answer" /\ x[2][1] = "call"
           \/ x[1] = "end"
        /\ x[1] # "end" => Is(L, x[2])
        /\ x[1] = "end" => IF Is(L, x[2]) THEN lz ELSE ~lz /\ cd
  BY <1>1 DEF HearL
<1>3. \A x \in B2 : x[1] = "begin" => <<"end", x[2]>> \notin B2
  BY <1>1 DEF HearL, e
<1> QED BY <1>2, <1>3 DEF HearL, e

(* What comes after a message of the link it closes, makes or ends.          *)
LEMMA SaidAfter ==
  ASSUME NEW Q, NEW y, NEW op, NEW g, \A x \in Q : Before(y, x), <<op, g>> \in Q
  PROVE  Before(y, <<op, g>>)
OBVIOUS

(* A new link comes under a number that this end has given up.               *)
LEMMA HearNew ==
  ASSUME NEW L, NEW lz, NEW R, NEW rz, NEW F, NEW B, NEW cd,
         Terms(L, lz, R, rz, F, B, cd),
         NEW op \in New, NEW g, NEW F2, Taken(F, F2, op, g),
         HearR(R, rz, F),
         NEW R2, NewLink(R2, g, "future")
  PROVE  /\ R = None
         /\ HearR(R2, rz, F2)
         /\ Tie(L, lz, R, rz, F, B, cd) => Tie(L, lz, R2, rz, F2, B, cd)
<1> USE DEF Terms, Taken, NewLink
<1>1. g[1] = op /\ <<op, g>> \in F
  BY SaidToR DEF New
<1>2. \A x \in F2 : x[2] = g /\ x[1] \in {"use", "cancel", "begin"}
  BY DEF Before, New
<1>3. R = None
  BY <1>1, <1>2 DEF HearR, Closing, New
<1>4. ~rz
  BY <1>3 DEF HearR, Formed
<1>5. R2 \in Links /\ R2 # None /\ R2.n = g /\ R2.open
      /\ R2.kind = IF op = "put" THEN "interface" ELSE "future"
  BY <1>1 DEF Formed
<1>6. HearR(R2, rz, F2)
  BY <1>1, <1>2, <1>4, <1>5 DEF HearR, Formed, Is, New
<1>7. ASSUME Tie(L, lz, R, rz, F, B, cd)
      PROVE  Tie(L, lz, R2, rz, F2, B, cd)
  <2>1. L # None /\ L.n = g
    BY <1>1, <1>7 DEF Tie, Is
  <2>2. Made(L, lz, R, F, B)
    BY <1>1, <1>3, <1>7, <2>1 DEF Tie, Is, Known, Left
  <2>3. Known(L, lz, R2, rz, F2, B)
    BY <1>1, <1>2, <1>4, <1>5, <2>1, <2>2 DEF Made, Known, Is, Closing, New
  <2>4. \A x \in F2 : Is(L, x[2]) /\ x[1] \notin New
                      /\ (x[1] = "cancel" => cd)
    BY <1>2, <1>7, <2>1 DEF Is, New, Tie
  <2> QED BY <1>5, <2>1, <2>3, <2>4 DEF Tie, Is
<1> QED BY <1>3, <1>6, <1>7

(* A use finds its interface.                                                *)
LEMMA HearUseR ==
  ASSUME NEW L, NEW lz, NEW R, NEW rz, NEW F, NEW B, NEW cd,
         Terms(L, lz, R, rz, F, B, cd),
         NEW g, NEW F2, Taken(F, F2, "use", g),
         HearR(R, rz, F)
  PROVE  /\ R # None /\ R.n = g /\ R.kind = "interface"
         /\ HearR(R, rz, F2)
         /\ Tie(L, lz, R, rz, F, B, cd) => Tie(L, lz, R, rz, F2, B, cd)
<1> USE DEF Terms, Taken
<1>1. g[1] = "put" /\ R # None /\ R.n = g
  <2>1. g[1] = "put" /\ (Is(R, g) \/ <<g[1], g>> \in F)
    BY SaidToR DEF New
  <2>2. <<g[1], g>> \notin F2
    <3>1. <<g[1], g>> \in F2 => Before(<<"use", g>>, <<g[1], g>>)
      BY SaidAfter
    <3> QED BY <2>1, <3>1 DEF Before, New
  <2> QED BY <2>1, <2>2 DEF Is
<1>2. R.kind = "interface"
  BY <1>1 DEF HearR, Formed
<1>3. HearR(R, rz, F2)
  BY DEF HearR, Closing, New
<1>4. Tie(L, lz, R, rz, F, B, cd) => Tie(L, lz, R, rz, F2, B, cd)
  BY DEF Tie, Made, Known, Left, Late, Closing, New, Links, Gens
<1> QED BY <1>1, <1>2, <1>3, <1>4

LEMMA HearUseL ==
  ASSUME NEW L, NEW lz, NEW R, NEW rz, NEW F, NEW B, NEW cd,
         Terms(L, lz, R, rz, F, B, cd),
         NEW g, NEW B2, Taken(B, B2, "use", g),
         HearL(L, lz, B, cd)
  PROVE  /\ L # None /\ L.n = g /\ L.kind = "interface"
         /\ HearL(L, lz, B2, cd)
         /\ Tie(L, lz, R, rz, F, B, cd) => Tie(L, lz, R, rz, F, B2, cd)
<1> USE DEF Terms, Taken
<1>1. g[1] = "put" /\ L # None /\ L.n = g
  <2>1. g[1] = "put" /\ Is(L, g) BY SaidToL
  <2> QED BY <2>1 DEF Is
<1>2. L.kind = "interface"
  BY <1>1 DEF HearL, Formed
<1>3. HearL(L, lz, B2, cd)
  BY DEF HearL
<1>4. Tie(L, lz, R, rz, F, B, cd) => Tie(L, lz, R, rz, F, B2, cd)
  BY DEF Tie, Made, Known, Left, Late, Closing
<1> QED BY <1>1, <1>2, <1>3, <1>4

(* A cancel finds its future link, whose end is said then, although the      *)
(* answer may have been on the way and the number be in use again.           *)
LEMMA HearCancel ==
  ASSUME NEW L, NEW lz, NEW R, NEW rz, NEW F, NEW B, NEW cd,
         Terms(L, lz, R, rz, F, B, cd),
         NEW g, NEW F2, Taken(F, F2, "cancel", g),
         HearR(R, rz, F),
         NEW B2, More(B2, B, "end", g)
  PROVE  /\ R # None /\ R.n = g /\ R.kind = "future"
         /\ HearR(None, FALSE, F2)
         /\ HearL(L, lz, B, cd) /\ Tie(L, lz, R, rz, F, B, cd) =>
              /\ \A x \in B : Before(x, <<"end", g>>)
              /\ HearL(L, lz, B2, cd)
              /\ Tie(L, lz, None, FALSE, F2, B2, cd)
<1> USE DEF Terms, Taken, More
<1>1. g[1] = "call" /\ R # None /\ R.n = g
  <2>1. g[1] = "call" /\ (Is(R, g) \/ <<g[1], g>> \in F)
    BY SaidToR DEF New
  <2>2. <<g[1], g>> \notin F2
    <3>1. <<g[1], g>> \in F2 => Before(<<"cancel", g>>, <<g[1], g>>)
      BY SaidAfter
    <3> QED BY <2>1, <3>1 DEF Before, New
  <2> QED BY <2>1, <2>2 DEF Is
<1>2. R.kind = "future"
  BY <1>1 DEF HearR, Formed
<1>3. \A x \in F2 : x[2] = g => x[1] = "end"
  BY DEF Before, New
<1>4. HearR(None, FALSE, F2)
  BY <1>1, <1>3 DEF HearR, Formed, Is, New
<1>5. ASSUME HearL(L, lz, B, cd), Tie(L, lz, R, rz, F, B, cd)
      PROVE  /\ \A x \in B : Before(x, <<"end", g>>)
             /\ HearL(L, lz, B2, cd)
             /\ Tie(L, lz, None, FALSE, F2, B2, cd)
  <2>1. cd /\ (lz => Is(L, g)) /\ Closing(F, g)
    BY <1>5 DEF Tie, Closing
  <2>2. CASE Is(L, g)
    <3>1. Known(L, lz, R, rz, F, B) /\ lz
      BY <1>1, <1>5, <2>1, <2>2 DEF Tie, Is, Made, Left, Known
    <3>2. \A x \in B : x[2] = g => x = <<"answer", g>>
      BY <1>1, <1>5, <2>2, <3>1 DEF HearL, Known, Sayings, Is
    <3>3. \A x \in B : Before(x, <<"end", g>>)
      <4>1. \A x \in B : x[2] = g => x[1] = "answer" BY <3>2
      <4>2. \A x \in B : x[1] \notin New BY <1>5 DEF HearL, New
      <4> QED BY <4>1, <4>2 DEF Before
    <3>4. HearL(L, lz, B2, cd)
      <4>1. \A x \in B : x[1] = "begin" => x[2] # g
        <5>1. <<"begin", g>> \notin B BY <1>1, <1>5, SaidToL
        <5> QED BY <5>1 DEF Sayings
      <4> QED BY <1>5, <2>2, <3>1, <4>1, EndToL
    <3>5. Left(L, lz, None, F2, B2)
      BY <1>3, <2>2, <3>1 DEF Left, Known, Is, Sayings
    <3>6. \A x \in F2 : x[1] # "end" => Is(L, x[2])
      BY <1>1, <1>3, <1>5 DEF Tie, Is
    <3> QED BY <1>5, <2>1, <2>2, <3>3, <3>4, <3>5, <3>6 DEF Tie, Is
  <2>3. CASE ~Is(L, g)
    <3>1. Late(R, rz, F, B) /\ ~lz
      BY <1>1, <1>5, <2>1, <2>3 DEF Tie
    <3>2. \A x \in B : x[2] # g
      BY <1>1, <1>5, <2>3, <3>1 DEF HearL, Late, Sayings, Is
    <3>3. \A x \in B : Before(x, <<"end", g>>)
      BY <1>5, <3>2 DEF Before, HearL, New
    <3>4. HearL(L, lz, B2, cd)
      BY <1>1, <1>5, <2>1, <2>3, <3>1 DEF HearL, Is
    <3>5. L # None => Made(L, lz, None, F2, B2)
      BY <1>1, <1>3, <1>5, <2>3, <3>1 DEF Tie, Made, Known, Left, Is, Closing
    <3>6. \A x \in F2 : x[1] # "end" => Is(L, x[2])
      BY <1>1, <1>3, <1>5 DEF Tie, Is
    <3> QED BY <1>5, <2>1, <3>1, <3>3, <3>4, <3>5, <3>6 DEF Tie, Is
  <2> QED BY <2>2, <2>3
<1> QED BY <1>1, <1>2, <1>4, <1>5

(* An answer finds its promise link.                                         *)
LEMMA HearAnswer ==
  ASSUME NEW L, NEW lz, NEW R, NEW rz, NEW F, NEW B, NEW cd,
         Terms(L, lz, R, rz, F, B, cd),
         NEW g, NEW B2, Taken(B, B2, "answer", g),
         HearL(L, lz, B, cd),
         NEW F2, More(F2, F, "end", g)
  PROVE  /\ L # None /\ L.n = g /\ L.kind = "promise"
         /\ HearL(None, FALSE, B2, cd)
         /\ HearR(R, rz, F) /\ Tie(L, lz, R, rz, F, B, cd) =>
              /\ \A x \in F : Before(x, <<"end", g>>)
              /\ HearR(R, rz, F2)
              /\ Tie(None, FALSE, R, rz, F2, B2, cd)
<1> USE DEF Terms, Taken, More
<1>1. g[1] = "call" /\ L # None /\ L.n = g
  <2>1. g[1] = "call" /\ Is(L, g) BY SaidToL
  <2> QED BY <2>1 DEF Is
<1>2. L.kind = "promise"
  BY <1>1 DEF HearL, Formed
<1>3. \A x \in B2 : x[1] = "end" /\ cd
  <2> SUFFICES ASSUME NEW x \in B2 PROVE x[1] = "end" /\ cd
    OBVIOUS
  <2>1. x[1] = "end"
    BY <1>1 DEF HearL, Is, Before
  <2>2. cd
    BY <1>1, <1>2, <2>1 DEF HearL, Is
  <2> QED BY <2>1, <2>2
<1>4. HearL(None, FALSE, B2, cd)
  BY <1>3 DEF HearL, Formed, Is
<1>5. ASSUME HearR(R, rz, F), Tie(L, lz, R, rz, F, B, cd)
      PROVE  /\ \A x \in F : Before(x, <<"end", g>>)
             /\ HearR(R, rz, F2)
             /\ Tie(None, FALSE, R, rz, F2, B2, cd)
  <2>1. (Known(L, lz, R, rz, F, B) /\ rz) \/ Left(L, lz, R, F, B)
    BY <1>1, <1>5 DEF Tie, Made, Known, Closing
  <2>2. \A x \in F : x[2] = g => x[1] = "cancel"
    BY <1>1, <1>5, <2>1 DEF HearR, Known, Left, Sayings, New
  <2>3. \A x \in F : x[1] \notin New
    BY <1>1, <1>5, <2>2 DEF Tie, Is, New
  <2>4. \A x \in F : Before(x, <<"end", g>>)
    BY <2>2, <2>3 DEF Before
  <2>5. R # None => R.n = g /\ rz
    BY <1>1, <2>1 DEF Known, Left, Is
  <2>6. HearR(R, rz, F2)
    BY <1>5, <2>3, <2>5 DEF HearR, Is, New
  <2>7. R # None => Late(R, rz, F2, B2)
    <3>1. ASSUME R # None PROVE <<"end", g>> \notin B2
      BY <1>1, <2>1, <3>1 DEF Known, Left
    <3> QED BY <2>5, <3>1 DEF Late
  <2>8. \A x \in F : x[1] # "end" => Is(R, x[2])
    BY <1>1, <1>5, <2>1, <2>2 DEF Tie, Is, Known, Left
  <2> QED BY <1>5, <2>3, <2>4, <2>6, <2>7, <2>8 DEF Tie, Is, New
<1> QED BY <1>1, <1>2, <1>4, <1>5

(* A begin finds its interface link ...                                      *)
LEMMA BeginFindsR ==
  ASSUME NEW L, NEW lz, NEW R, NEW rz, NEW F, NEW B, NEW cd,
         Terms(L, lz, R, rz, F, B, cd),
         NEW g, NEW F2, Taken(F, F2, "begin", g),
         HearR(R, rz, F)
  PROVE  g[1] = "put" /\ R # None /\ R.n = g
<1> USE DEF Taken
<1>1. g[1] = "put" /\ (Is(R, g) \/ <<g[1], g>> \in F)
  BY SaidToR DEF New
<1>2. <<g[1], g>> \notin F2
  <2>1. <<g[1], g>> \in F2 => Before(<<"begin", g>>, <<g[1], g>>)
    BY SaidAfter
  <2> QED BY <1>1, <2>1 DEF Before, New
<1> QED BY <1>1, <1>2 DEF Is

LEMMA BeginFindsL ==
  ASSUME NEW L, NEW lz, NEW R, NEW rz, NEW F, NEW B, NEW cd,
         Terms(L, lz, R, rz, F, B, cd),
         NEW g, NEW B2, Taken(B, B2, "begin", g),
         HearL(L, lz, B, cd)
  PROVE  g[1] = "put" /\ L # None /\ L.n = g
<1>1. g[1] = "put" /\ Is(L, g) BY SaidToL DEF Taken
<1> QED BY <1>1 DEF Is

(* ... and is answered by an end unless this end has begun as well.          *)
LEMMA HearBeginR ==
  ASSUME NEW L, NEW lz, NEW R, NEW rz, NEW F, NEW B, NEW cd,
         Terms(L, lz, R, rz, F, B, cd),
         NEW g, NEW F2, Taken(F, F2, "begin", g),
         HearR(R, rz, F),
         NEW B2, rz => B2 = B, ~rz => More(B2, B, "end", g)
  PROVE  /\ R # None /\ R.n = g
         /\ HearR(None, FALSE, F2)
         /\ HearL(L, lz, B, cd) /\ Tie(L, lz, R, rz, F, B, cd) =>
              /\ ~rz => \A x \in B : Before(x, <<"end", g>>)
              /\ HearL(L, lz, B2, cd)
              /\ Tie(L, lz, None, FALSE, F2, B2, cd)
<1>1. g[1] = "put" /\ R # None /\ R.n = g
  BY BeginFindsR
<1> USE DEF Terms, Taken, More
<1>2. \A x \in F2 : x[2] # g
  BY DEF Before, New
<1>3. HearR(None, FALSE, F2)
  BY <1>1, <1>2 DEF HearR, Formed, Is, New
<1>4. ASSUME HearL(L, lz, B, cd), Tie(L, lz, R, rz, F, B, cd)
      PROVE  /\ ~rz => \A x \in B : Before(x, <<"end", g>>)
             /\ HearL(L, lz, B2, cd)
             /\ Tie(L, lz, None, FALSE, F2, B2, cd)
  <2>1. Closing(F, g)
    BY DEF Closing
  <2>2. CASE Is(L, g)
    <3>1. Known(L, lz, R, rz, F, B) /\ lz
      BY <1>1, <1>4, <2>1, <2>2 DEF Tie, Is, Made, Left, Known
    <3>2. ~rz => \A x \in B : x[2] = g => x[1] = "use"
      BY <1>1, <1>4, <2>2, <3>1 DEF HearL, Known, Sayings, Is, Closing
    <3>3. ~rz => \A x \in B : Before(x, <<"end", g>>)
      BY <1>4, <3>2 DEF Before, HearL, New
    <3>4. HearL(L, lz, B2, cd)
      <4>1. CASE rz BY <1>4, <4>1
      <4>2. CASE ~rz
        <5>1. \A x \in B : x[1] = "begin" => x[2] # g BY <3>2, <4>2
        <5>2. B2 = B \union {<<"end", g>>} BY <4>2
        <5> QED BY <1>4, <2>2, <3>1, <5>1, <5>2, EndToL
      <4> QED BY <4>1, <4>2
    <3>5. <<"end", g>> \in B2 \/ <<"begin", g>> \in B2
      <4>1. <<"answer", g>> \notin B /\ <<"cancel", g>> \notin B
        BY <1>1, <1>4 DEF HearL
      <4> QED BY <2>2, <3>1, <4>1 DEF Known, Closing, Is
    <3>6. Left(L, lz, None, F2, B2)
      BY <1>2, <2>2, <3>1, <3>5 DEF Left, Is
    <3>7. \A x \in F2 : x[1] # "end" => Is(L, x[2])
      BY <1>1, <1>2, <1>4 DEF Tie, Is
    <3> QED BY <1>4, <2>2, <3>3, <3>4, <3>6, <3>7 DEF Tie, Is
  <2>3. CASE ~Is(L, g)
    <3>1. rz /\ B2 = B
      BY <1>1, <1>4, <2>3 DEF Tie, Late
    <3>2. L # None => Made(L, lz, None, F2, B)
      BY <1>1, <1>2, <1>4, <2>3 DEF Tie, Made, Known, Left, Is, Closing
    <3>3. \A x \in F2 : x[1] # "end" => Is(L, x[2])
      BY <1>1, <1>2, <1>4 DEF Tie, Is
    <3> QED BY <1>4, <3>1, <3>2, <3>3 DEF Tie, Is
  <2> QED BY <2>2, <2>3
<1> QED BY <1>1, <1>3, <1>4

LEMMA HearBeginL ==
  ASSUME NEW L, NEW lz, NEW R, NEW rz, NEW F, NEW B, NEW cd,
         Terms(L, lz, R, rz, F, B, cd),
         NEW g, NEW B2, Taken(B, B2, "begin", g),
         HearL(L, lz, B, cd),
         NEW F2, lz => F2 = F, ~lz => More(F2, F, "end", g)
  PROVE  /\ L # None /\ L.n = g
         /\ HearL(None, FALSE, B2, cd)
         /\ HearR(R, rz, F) /\ Tie(L, lz, R, rz, F, B, cd) =>
              /\ ~lz => \A x \in F : Before(x, <<"end", g>>)
              /\ HearR(R, rz, F2)
              /\ Tie(None, FALSE, R, rz, F2, B2, cd)
<1>1. g[1] = "put" /\ L # None /\ L.n = g
  BY BeginFindsL
<1> USE DEF Terms, Taken, More
<1>2. \A x \in B2 : x[2] # g
  BY DEF Before, New
<1>3. HearL(None, FALSE, B2, cd)
  BY <1>1, <1>2 DEF HearL, Formed, Is
<1>4. ASSUME HearR(R, rz, F), Tie(L, lz, R, rz, F, B, cd)
      PROVE  /\ ~lz => \A x \in F : Before(x, <<"end", g>>)
             /\ HearR(R, rz, F2)
             /\ Tie(None, FALSE, R, rz, F2, B2, cd)
  <2>1. (Known(L, lz, R, rz, F, B) /\ rz) \/ Left(L, lz, R, F, B)
    BY <1>1, <1>4 DEF Tie, Made, Known, Closing
  <2>2. \A x \in F : x[2] = g => x[1] \in {"use", "begin"}
    BY <1>1, <1>4, <2>1 DEF HearR, Known, Left, Sayings, New
  <2>3. \A x \in F : x[1] \notin New
    BY <1>1, <1>4, <2>2 DEF Tie, Is, New
  <2>4. ~lz => \A x \in F : x[2] = g => x[1] = "use"
    BY <1>1, <2>1, <2>2 DEF Known, Left, Closing, Sayings
  <2>5. ~lz => \A x \in F : Before(x, <<"end", g>>)
    BY <2>3, <2>4 DEF Before
  <2>6. R # None => R.n = g /\ rz
    BY <1>1, <2>1 DEF Known, Left, Is
  <2>7. HearR(R, rz, F2)
    BY <1>4, <2>3, <2>6 DEF HearR, Is, New
  <2>8. R # None => Late(R, rz, F2, B2)
    <3> SUFFICES ASSUME R # None PROVE Late(R, rz, F2, B2)
      OBVIOUS
    <3>1. <<"end", g>> \notin B2 /\ (lz <=> Closing(F, g))
      BY <1>1, <2>1 DEF Known, Left
    <3>2. <<"cancel", g>> \notin F2
      BY <2>2
    <3> QED BY <2>6, <3>1, <3>2 DEF Late, Closing
  <2>9. \A x \in F : x[1] # "end" => Is(R, x[2])
    BY <1>1, <1>4, <2>1, <2>2 DEF Tie, Is, Known, Left
  <2> QED BY <1>4, <2>3, <2>5, <2>7, <2>8, <2>9 DEF Tie, Is, New
<1> QED BY <1>1, <1>3, <1>4

(* An end ends the link it was meant for, or nothing.                        *)
LEMMA HearEndR ==
  ASSUME NEW L, NEW lz, NEW R, NEW rz, NEW F, NEW B, NEW cd,
         Terms(L, lz, R, rz, F, B, cd),
         NEW g, NEW F2, Taken(F, F2, "end", g),
         HearR(R, rz, F)
  PROVE  /\ R # None => R.n = g /\ rz
         /\ HearR(None, FALSE, F2)
         /\ Tie(L, lz, R, rz, F, B, cd) => Tie(L, lz, None, FALSE, F2, B, cd)
<1> USE DEF Terms, Taken
<1>1. R # None => R.n = g /\ rz
  BY SaidToR
<1>2. \A x \in F2 : x[2] # g
  BY DEF Before, New
<1>3. HearR(None, FALSE, F2)
  BY <1>1, <1>2 DEF HearR, Formed, Is, New
<1>4. ASSUME Tie(L, lz, R, rz, F, B, cd)
      PROVE  Tie(L, lz, None, FALSE, F2, B, cd)
  <2>1. L # None => Made(L, lz, None, F2, B) \/ Left(L, lz, None, F2, B)
    BY <1>1, <1>4 DEF Tie, Made, Known, Left, Is, Closing
  <2>2. \A x \in F2 : x[1] # "end" => Is(L, x[2])
    BY <1>1, <1>2, <1>4 DEF Tie, Is
  <2> QED BY <1>4, <2>1, <2>2 DEF Tie, Is
<1> QED BY <1>1, <1>3, <1>4

LEMMA HearEndL ==
  ASSUME NEW L, NEW lz, NEW R, NEW rz, NEW F, NEW B, NEW cd,
         Terms(L, lz, R, rz, F, B, cd),
         NEW g, NEW B2, Taken(B, B2, "end", g),
         HearL(L, lz, B, cd)
  PROVE  /\ L # None /\ lz => L.n = g
         /\ LET L2 == IF lz THEN None ELSE L
            IN  /\ HearL(L2, FALSE, B2, cd)
                /\ Tie(L, lz, R, rz, F, B, cd) => Tie(L2, FALSE, R, rz, F, B2, cd)
<1> DEFINE L2 == IF lz THEN None ELSE L
<1> USE DEF Terms, Taken
<1>1. lz => Is(L, g)
  BY SaidToL
<1>2. \A x \in B2 : x[2] # g
  BY DEF Before, New
<1>3. HearL(L2, FALSE, B2, cd)
  BY <1>1, <1>2 DEF HearL, Formed, Is
<1>4. ASSUME Tie(L, lz, R, rz, F, B, cd)
      PROVE  Tie(L2, FALSE, R, rz, F, B2, cd)
  <2>1. CASE lz
    <3>1. L # None /\ L.n = g /\ R = None /\ \A x \in F : x[2] # g
      BY <1>1, <1>4, <2>1 DEF Tie, Made, Known, Left, Is
    <3> QED BY <1>4, <2>1, <3>1 DEF Tie, Is
  <2>2. CASE ~lz
    <3>1. L # None => Made(L, FALSE, R, F, B2) \/ Known(L, FALSE, R, rz, F, B2)
      BY <1>4, <2>2 DEF Tie, Made, Known, Left, Closing
    <3>2. R # None /\ ~Is(L, R.n) => Late(R, rz, F, B2)
      BY <1>4 DEF Tie, Late
    <3> QED BY <1>4, <2>2, <3>1, <3>2 DEF Tie
  <2> QED BY <2>1, <2>2
<1> QED BY <1>1, <1>3, <1>4 DEF Is

-----------------------------------------------------------------------------
(* Queues, numbers and ends.                                                 *)
LEMMA Peers ==
  ASSUME NEW e \in Edges
  PROVE  /\ Peer(e) \in Edges /\ Peer(e) # e /\ Peer(Peer(e)) = e
         /\ \A c \in Edges : c = e \/ c = Peer(e)
<1>1. PICK x \in Edges, y \in Edges : x # y /\ Edges = {x, y} BY TwoEdges
<1>2. Peer(x) = y BY <1>1 DEF Peer
<1>3. Peer(y) = x BY <1>1 DEF Peer
<1> QED BY <1>1, <1>2, <1>3

LEMMA Enough ==
  /\ IsFiniteSet(Ids) /\ Ids \subseteq Nat
  /\ \A e \in Edges : Quota[e]["put"] + Quota[e]["call"] <= Cardinality(Ids)
<1> DEFINE T == {Quota[e]["put"] + Quota[e]["call"] : e \in Edges}
<1>1. PICK x \in Edges, y \in Edges : x # y /\ Edges = {x, y} BY TwoEdges
<1>2. \A e \in Edges : Quota[e]["put"] + Quota[e]["call"] \in Nat BY QuotaNat
<1> DEFINE qx == Quota[x]["put"] + Quota[x]["call"]
           qy == Quota[y]["put"] + Quota[y]["call"]
<1>3. T = {qx, qy} /\ qx \in Nat /\ qy \in Nat BY <1>1, <1>2
<1> HIDE DEF T, qx, qy
<1>4. \E m \in T : \A n \in T : m >= n
  <2>1. CASE qx >= qy BY <1>3, <2>1
  <2>2. CASE qy >= qx BY <1>3, <2>2
  <2> QED BY <1>3, <2>1, <2>2
<1>5. Max(T) \in T /\ \A n \in T : Max(T) >= n BY <1>4 DEF Max
<1>6. Max(T) \in Nat BY <1>3, <1>5
<1>7. Ids = 1 .. Max(T) BY DEF Ids, T
<1>8. IsFiniteSet(Ids) /\ Cardinality(Ids) = Max(T)
  BY <1>6, <1>7, FS_Interval
<1>9. \A e \in Edges : Quota[e]["put"] + Quota[e]["call"] \in T BY DEF T
<1>10. \A e \in Edges : Max(T) >= Quota[e]["put"] + Quota[e]["call"] BY <1>5, <1>9
<1> QED BY <1>2, <1>6, <1>7, <1>8, <1>10

LEMMA SaidAt ==
  ASSUME NEW Q, NEW s, NEW id, NEW x
  PROVE  x \in Said(Q, s, id) <=>
           \E i \in DOMAIN Q : Q[i].side = s /\ Q[i].id = id /\ x = <<Q[i].op, Q[i].n>>
BY DEF Said

(* A message more at the end of a queue, and one less at its front.          *)
LEMMA SaidLonger ==
  ASSUME NEW Q, NEW Q2, NEW n \in Nat, DOMAIN Q = 1 .. n, DOMAIN Q2 = 1 .. n + 1,
         \A i \in 1 .. n : Q2[i] = Q[i]
  PROVE  LET m == Q2[n + 1]
         IN  /\ \A s, id : Said(Q2, s, id) =
                  IF m.side = s /\ m.id = id THEN Said(Q, s, id) \union {<<m.op, m.n>>}
                  ELSE Said(Q, s, id)
             /\ Ordered(Q) /\ (\A x \in Said(Q, m.side, m.id) : Before(x, <<m.op, m.n>>)) =>
                  Ordered(Q2)
<1> DEFINE m == Q2[n + 1]
<1>1. 1 .. n + 1 = (1 .. n) \union {n + 1} OBVIOUS
<1> HIDE DEF m
<1>2. ASSUME NEW s, NEW id
      PROVE  Said(Q2, s, id) =
               IF m.side = s /\ m.id = id THEN Said(Q, s, id) \union {<<m.op, m.n>>}
               ELSE Said(Q, s, id)
  BY <1>1 DEF Said, m
<1>3. ASSUME Ordered(Q), \A x \in Said(Q, m.side, m.id) : Before(x, <<m.op, m.n>>)
      PROVE  Ordered(Q2)
  <2> SUFFICES ASSUME NEW i \in 1 .. n + 1, NEW j \in 1 .. n + 1, i < j,
                      Q2[i].side = Q2[j].side, Q2[i].id = Q2[j].id
               PROVE  Before(<<Q2[i].op, Q2[i].n>>, <<Q2[j].op, Q2[j].n>>)
    BY DEF Ordered
  <2>1. i \in 1 .. n /\ Q2[i] = Q[i] OBVIOUS
  <2>2. CASE j <= n
    <3>1. j \in 1 .. n /\ Q2[j] = Q[j] BY <2>2
    <3> QED BY <1>3, <2>1, <3>1 DEF Ordered
  <2>3. CASE j = n + 1
    <3> DEFINE x == <<Q[i].op, Q[i].n>>
    <3>1. Q2[j] = m BY <2>3 DEF m
    <3>2. x \in Said(Q, m.side, m.id) BY <2>1, <3>1, SaidAt
    <3>3. Before(x, <<m.op, m.n>>) BY <1>3, <3>2
    <3> QED BY <2>1, <3>1, <3>3
  <2> QED BY <2>2, <2>3
<1> QED BY <1>2, <1>3 DEF m

LEMMA SaidShorter ==
  ASSUME NEW Q, NEW Q2, NEW n \in Nat, DOMAIN Q = 1 .. n + 1, DOMAIN Q2 = 1 .. n,
         \A i \in 1 .. n : Q2[i] = Q[i + 1]
  PROVE  LET m == Q[1]
         IN  /\ \A s, id : m.side # s \/ m.id # id => Said(Q2, s, id) = Said(Q, s, id)
             /\ Said(Q2, m.side, m.id) \subseteq Said(Q, m.side, m.id)
             /\ <<m.op, m.n>> \in Said(Q, m.side, m.id)
             /\ Said(Q, m.side, m.id) \subseteq Said(Q2, m.side, m.id) \union {<<m.op, m.n>>}
             /\ Ordered(Q) =>
                  /\ Ordered(Q2)
                  /\ \A x \in Said(Q2, m.side, m.id) : Before(<<m.op, m.n>>, x)
<1> DEFINE m == Q[1]
<1>1. \A i \in 1 .. n : i + 1 \in 1 .. n + 1 /\ 1 < i + 1 OBVIOUS
<1>2. \A i \in 1 .. n + 1 : i = 1 \/ (i - 1 \in 1 .. n /\ Q2[i - 1] = Q[i])
  <2> SUFFICES ASSUME NEW i \in 1 .. n + 1, i # 1 PROVE i - 1 \in 1 .. n /\ Q2[i - 1] = Q[i]
    OBVIOUS
  <2>1. i - 1 \in 1 .. n /\ (i - 1) + 1 = i OBVIOUS
  <2> QED BY <2>1
<1>3. 1 \in DOMAIN Q OBVIOUS
<1> HIDE DEF m
<1>4. ASSUME NEW s, NEW id PROVE Said(Q2, s, id) \subseteq Said(Q, s, id)
  <2> SUFFICES ASSUME NEW x \in Said(Q2, s, id) PROVE x \in Said(Q, s, id) OBVIOUS
  <2>1. PICK i \in 1 .. n : Q2[i].side = s /\ Q2[i].id = id /\ x = <<Q2[i].op, Q2[i].n>>
    BY SaidAt
  <2>2. i + 1 \in DOMAIN Q /\ Q2[i] = Q[i + 1] BY <1>1
  <2> QED BY <2>1, <2>2, SaidAt
<1>5. ASSUME NEW s, NEW id, NEW x \in Said(Q, s, id)
      PROVE  x \in Said(Q2, s, id) \/ (s = m.side /\ id = m.id /\ x = <<m.op, m.n>>)
  <2>1. PICK i \in 1 .. n + 1 : Q[i].side = s /\ Q[i].id = id /\ x = <<Q[i].op, Q[i].n>>
    BY SaidAt
  <2>2. CASE i = 1 BY <2>1, <2>2 DEF m
  <2>3. CASE i # 1
    <3>1. i - 1 \in DOMAIN Q2 /\ Q2[i - 1] = Q[i] BY <1>2, <2>3
    <3> QED BY <2>1, <3>1, SaidAt
  <2> QED BY <2>2, <2>3
<1>6. <<m.op, m.n>> \in Said(Q, m.side, m.id)
  BY <1>3, SaidAt DEF m
<1>7. ASSUME Ordered(Q)
      PROVE  Ordered(Q2) /\ \A x \in Said(Q2, m.side, m.id) : Before(<<m.op, m.n>>, x)
  <2>1. Ordered(Q2)
    <3> SUFFICES ASSUME NEW i \in 1 .. n, NEW j \in 1 .. n, i < j,
                        Q2[i].side = Q2[j].side, Q2[i].id = Q2[j].id
                 PROVE  Before(<<Q2[i].op, Q2[i].n>>, <<Q2[j].op, Q2[j].n>>)
      BY DEF Ordered
    <3>1. i + 1 < j + 1 /\ i + 1 \in DOMAIN Q /\ j + 1 \in DOMAIN Q OBVIOUS
    <3>2. Q2[i] = Q[i + 1] /\ Q2[j] = Q[j + 1] OBVIOUS
    <3> QED BY <1>7, <3>1, <3>2 DEF Ordered
  <2>2. ASSUME NEW x \in Said(Q2, m.side, m.id) PROVE Before(<<m.op, m.n>>, x)
    <3>1. PICK i \in 1 .. n :
            Q2[i].side = m.side /\ Q2[i].id = m.id /\ x = <<Q2[i].op, Q2[i].n>>
      BY SaidAt
    <3>2. i + 1 \in DOMAIN Q /\ 1 < i + 1 /\ Q2[i] = Q[i + 1] BY <1>1
    <3>3. Q[1].side = Q[i + 1].side /\ Q[1].id = Q[i + 1].id BY <3>1, <3>2 DEF m
    <3>4. Before(<<Q[1].op, Q[1].n>>, <<Q[i + 1].op, Q[i + 1].n>>)
      BY <1>3, <1>7, <3>2, <3>3 DEF Ordered
    <3> QED BY <3>1, <3>2, <3>4 DEF m
  <2> QED BY <2>1, <2>2
<1>8. \A s, id : m.side # s \/ m.id # id => Said(Q2, s, id) = Said(Q, s, id)
  <2> SUFFICES ASSUME NEW s, NEW id, m.side # s \/ m.id # id
               PROVE  Said(Q2, s, id) = Said(Q, s, id)
    OBVIOUS
  <2>1. Said(Q2, s, id) \subseteq Said(Q, s, id) BY <1>4
  <2>2. Said(Q, s, id) \subseteq Said(Q2, s, id) BY <1>5
  <2> QED BY <2>1, <2>2
<1>9. Said(Q, m.side, m.id) \subseteq Said(Q2, m.side, m.id) \union {<<m.op, m.n>>}
  BY <1>5
<1> QED BY <1>4, <1>6, <1>7, <1>8, <1>9 DEF m

LEMMA SaidMore ==
  ASSUME NEW Q \in Seq(Messages), NEW m \in Messages
  PROVE  LET Q2 == Append(Q, m)
         IN  /\ Q2 \in Seq(Messages)
             /\ \A s, id : Said(Q2, s, id) =
                  IF m.side = s /\ m.id = id THEN Said(Q, s, id) \union {<<m.op, m.n>>}
                  ELSE Said(Q, s, id)
             /\ Ordered(Q) /\ (\A x \in Said(Q, m.side, m.id) : Before(x, <<m.op, m.n>>)) =>
                  Ordered(Q2)
<1> DEFINE Q2 == Append(Q, m)
           n  == Len(Q)
<1>1. Q2 \in Seq(Messages) /\ n \in Nat /\ DOMAIN Q = 1 .. n /\ DOMAIN Q2 = 1 .. n + 1
  OBVIOUS
<1>2. (\A i \in 1 .. n : Q2[i] = Q[i]) /\ Q2[n + 1] = m OBVIOUS
<1> HIDE DEF Q2, n
<1>3. /\ \A s, id : Said(Q2, s, id) =
           IF Q2[n + 1].side = s /\ Q2[n + 1].id = id
           THEN Said(Q, s, id) \union {<<Q2[n + 1].op, Q2[n + 1].n>>}
           ELSE Said(Q, s, id)
      /\ Ordered(Q)
           /\ (\A x \in Said(Q, Q2[n + 1].side, Q2[n + 1].id) :
                 Before(x, <<Q2[n + 1].op, Q2[n + 1].n>>)) =>
           Ordered(Q2)
  BY <1>1, <1>2, SaidLonger
<1> QED BY <1>1, <1>2, <1>3 DEF Q2

Popped(Q, Q2, m) ==
  /\ m \in Messages /\ Q2 \in Seq(Messages)
  /\ \A s, id : m.side # s \/ m.id # id => Said(Q2, s, id) = Said(Q, s, id)
  /\ Said(Q2, m.side, m.id) \subseteq Said(Q, m.side, m.id)
  /\ <<m.op, m.n>> \in Said(Q, m.side, m.id)
  /\ Said(Q, m.side, m.id) \subseteq Said(Q2, m.side, m.id) \union {<<m.op, m.n>>}
  /\ Ordered(Q) => /\ Ordered(Q2)
                   /\ \A x \in Said(Q2, m.side, m.id) : Before(<<m.op, m.n>>, x)

LEMMA SaidLess ==
  ASSUME NEW Q \in Seq(Messages), Q # <<>>
  PROVE  Popped(Q, Tail(Q), Head(Q))
<1> DEFINE m  == Head(Q)
           Q2 == Tail(Q)
           n  == Len(Q) - 1
<1>1. /\ m \in Messages /\ Q2 \in Seq(Messages)
      /\ n \in Nat /\ DOMAIN Q = 1 .. n + 1 /\ DOMAIN Q2 = 1 .. n
  OBVIOUS
<1>2. (\A i \in 1 .. n : Q2[i] = Q[i + 1]) /\ m = Q[1] OBVIOUS
<1> SUFFICES Popped(Q, Q2, m) OBVIOUS
<1> HIDE DEF Q2, n, m
<1>3. /\ \A s, id : Q[1].side # s \/ Q[1].id # id => Said(Q2, s, id) = Said(Q, s, id)
      /\ Said(Q2, Q[1].side, Q[1].id) \subseteq Said(Q, Q[1].side, Q[1].id)
      /\ <<Q[1].op, Q[1].n>> \in Said(Q, Q[1].side, Q[1].id)
      /\ Said(Q, Q[1].side, Q[1].id) \subseteq
           Said(Q2, Q[1].side, Q[1].id) \union {<<Q[1].op, Q[1].n>>}
      /\ Ordered(Q) =>
           /\ Ordered(Q2)
           /\ \A x \in Said(Q2, Q[1].side, Q[1].id) : Before(<<Q[1].op, Q[1].n>>, x)
  BY <1>1, <1>2, SaidShorter
<1> QED BY <1>1, <1>2, <1>3 DEF Popped

LEMMA SaidSayings ==
  ASSUME NEW Q \in Seq(Messages), NEW s, NEW id
  PROVE  Said(Q, s, id) \in SUBSET Sayings
<1> SUFFICES ASSUME NEW x \in Said(Q, s, id) PROVE x \in Sayings OBVIOUS
<1>1. PICK i \in DOMAIN Q : Q[i].side = s /\ Q[i].id = id /\ x = <<Q[i].op, Q[i].n>>
  BY SaidAt
<1>2. Q[i] \in Messages OBVIOUS
<1> QED BY <1>1, <1>2 DEF Messages, Sayings

-----------------------------------------------------------------------------
(* A step at one end, which changes one link there at most, and the          *)
(* conversations.                                                            *)
Talks ==
  /\ wire \in [Edges -> Seq(Messages)]
  /\ \A e \in Edges : Ordered(wire[e])
  /\ \A e \in Edges, id \in Ids : Conversation(e, id) /\ UsedOnly(e, id)

Elsewhere(e, s, id) ==
  \A c \in Edges, t \in Sides, j \in Ids : c # e \/ t # s \/ j # id =>
    links'[c][t][j] = links[c][t][j] /\ (j \in zombies'[c][t] <=> j \in zombies[c][t])
Later == \A c \in Edges : (Cancelled(c) => Cancelled(c)') /\ Used(c) \subseteq Used(c)'

LEMMA LinksMade ==
  ASSUME StiacType, NEW e \in Edges, NEW s \in Sides, NEW id \in Ids, NEW X \in Links,
         links' = [links EXCEPT ![e][s][id] = X], zombies' = zombies
  PROVE  /\ links' \in [Edges -> [Sides -> [Ids -> Links]]]
         /\ links'[e][s][id] = X /\ (id \in zombies'[e][s] <=> id \in zombies[e][s])
         /\ Elsewhere(e, s, id)
BY DEF StiacType, Elsewhere

LEMMA LinksGone ==
  ASSUME StiacType, NEW e \in Edges, NEW s \in Sides, NEW id \in Ids, Gone(e, s, id)
  PROVE  /\ links' \in [Edges -> [Sides -> [Ids -> Links]]]
         /\ zombies' \in [Edges -> [Sides -> SUBSET Ids]]
         /\ links'[e][s][id] = None /\ id \notin zombies'[e][s]
         /\ Elsewhere(e, s, id)
<1>1. None \in Links BY DEF Links
<1>2. links' = [links EXCEPT ![e][s][id] = None] BY DEF Gone
<1>3. zombies' = [zombies EXCEPT ![e][s] = zombies[e][s] \ {id}] BY DEF Gone, StiacType
<1>4. zombies' \in [Edges -> [Sides -> SUBSET Ids]] BY <1>3 DEF StiacType
<1>5. \A c \in Edges, t \in Sides : zombies'[c][t] =
        IF c = e /\ t = s THEN zombies[c][t] \ {id} ELSE zombies[c][t]
  BY <1>3 DEF StiacType
<1>6. /\ links' \in [Edges -> [Sides -> [Ids -> Links]]]
      /\ \A c \in Edges, t \in Sides, j \in Ids : links'[c][t][j] =
           IF c = e /\ t = s /\ j = id THEN None ELSE links[c][t][j]
  BY <1>1, <1>2 DEF StiacType
<1>7. ASSUME NEW c \in Edges, NEW t \in Sides, NEW j \in Ids, c # e \/ t # s \/ j # id
      PROVE  j \in zombies'[c][t] <=> j \in zombies[c][t]
  BY <1>5, <1>7
<1>8. links'[e][s][id] = None /\ id \notin zombies'[e][s] BY <1>5, <1>6
<1> QED BY <1>4, <1>6, <1>7, <1>8 DEF Elsewhere

LEMMA LinksBegun ==
  ASSUME StiacType, NEW e \in Edges, NEW s \in Sides, NEW id \in Ids, Begun(e, s, id),
         links[e][s][id] # None
  PROVE  /\ links' \in [Edges -> [Sides -> [Ids -> Links]]]
         /\ zombies' \in [Edges -> [Sides -> SUBSET Ids]]
         /\ links'[e][s][id] = [links[e][s][id] EXCEPT !.open = FALSE]
         /\ id \in zombies'[e][s]
         /\ Elsewhere(e, s, id)
<1> DEFINE X == [links[e][s][id] EXCEPT !.open = FALSE]
<1>1. links[e][s][id] \in Links \ {None} BY DEF StiacType
<1>2. X \in Links BY <1>1 DEF Links
<1>3. links' = [links EXCEPT ![e][s][id] = X] BY DEF Begun, StiacType
<1>4. zombies' = [zombies EXCEPT ![e][s] = zombies[e][s] \union {id}] BY DEF Begun, StiacType
<1> HIDE DEF X
<1>5. zombies' \in [Edges -> [Sides -> SUBSET Ids]] BY <1>4 DEF StiacType
<1>6. \A c \in Edges, t \in Sides : zombies'[c][t] =
        IF c = e /\ t = s THEN zombies[c][t] \union {id} ELSE zombies[c][t]
  BY <1>4 DEF StiacType
<1>7. /\ links' \in [Edges -> [Sides -> [Ids -> Links]]]
      /\ \A c \in Edges, t \in Sides, j \in Ids : links'[c][t][j] =
           IF c = e /\ t = s /\ j = id THEN X ELSE links[c][t][j]
  BY <1>2, <1>3 DEF StiacType
<1>8. ASSUME NEW c \in Edges, NEW t \in Sides, NEW j \in Ids, c # e \/ t # s \/ j # id
      PROVE  j \in zombies'[c][t] <=> j \in zombies[c][t]
  BY <1>6, <1>8
<1>9. links'[e][s][id] = X /\ id \in zombies'[e][s] BY <1>6, <1>7
<1> QED BY <1>5, <1>7, <1>8, <1>9 DEF Elsewhere, X

(* Conversations only gain from a cancel that was said under another number. *)
LEMMA CancelledLater ==
  ASSUME NEW L, NEW lz, NEW R, NEW rz, NEW F, NEW B, NEW cd, NEW cd2, cd => cd2
  PROVE  /\ HearL(L, lz, B, cd) => HearL(L, lz, B, cd2)
         /\ Tie(L, lz, R, rz, F, B, cd) => Tie(L, lz, R, rz, F, B, cd2)
<1>1. HearL(L, lz, B, cd) => HearL(L, lz, B, cd2) BY DEF HearL
<1>2. Tie(L, lz, R, rz, F, B, cd) => Tie(L, lz, R, rz, F, B, cd2) BY DEF Tie
<1> QED BY <1>1, <1>2

LEMMA OtherConversations ==
  ASSUME StiacInv, NEW e \in Edges, NEW s \in Sides, NEW id \in Ids, state' = state,
         Elsewhere(e, s, id), Later, NEW c \in Edges, NEW j \in Ids,
         j # id \/ c # (IF s = "local" THEN e ELSE Peer(e)),
         Forth(c, j)' = Forth(c, j), Back(c, j)' = Back(c, j)
  PROVE  Conversation(c, j)' /\ UsedOnly(c, j)'
<1>1. /\ Peer(e) \in Edges /\ Peer(e) # e /\ Peer(Peer(e)) = e
      /\ Peer(c) \in Edges /\ (c = e \/ c = Peer(e))
  BY Peers
<1>2. Loc(c, j)' = Loc(c, j) /\ LocZombie(c, j)' = LocZombie(c, j)
  BY <1>1 DEF Elsewhere, Sides, Loc, LocZombie
<1>3. Rem(c, j)' = Rem(c, j) /\ RemZombie(c, j)' = RemZombie(c, j)
  BY <1>1 DEF Elsewhere, Sides, Rem, RemZombie
<1>4. (Works(c)' <=> Works(c)) /\ (Works(Peer(c))' <=> Works(Peer(c))) BY DEF Works
<1>5. Conversation(c, j) /\ UsedOnly(c, j) BY DEF StiacInv
<1>6. Cancelled(c) => Cancelled(c)' BY DEF Later
<1>7. UsedOnly(c, j)' BY <1>2, <1>3, <1>5 DEF UsedOnly, Later
<1>8. ASSUME Works(c)
      PROVE  HearL(Loc(c, j)', LocZombie(c, j)', Back(c, j)', Cancelled(c)')
  <2>1. HearL(Loc(c, j), LocZombie(c, j), Back(c, j), Cancelled(c)')
    BY <1>5, <1>6, <1>8, CancelledLater DEF Conversation
  <2> QED BY <1>2, <2>1
<1>9. ASSUME Works(Peer(c)) PROVE HearR(Rem(c, j)', RemZombie(c, j)', Forth(c, j)')
  BY <1>3, <1>5, <1>9 DEF Conversation
<1>10. ASSUME Works(c), Works(Peer(c))
       PROVE  Tie(Loc(c, j)', LocZombie(c, j)', Rem(c, j)', RemZombie(c, j)', Forth(c, j)',
                  Back(c, j)', Cancelled(c)')
  <2>1. Tie(Loc(c, j), LocZombie(c, j), Rem(c, j), RemZombie(c, j), Forth(c, j), Back(c, j),
            Cancelled(c)')
    BY <1>5, <1>6, <1>10, CancelledLater DEF Conversation
  <2> QED BY <1>2, <1>3, <2>1
<1> QED BY <1>4, <1>7, <1>8, <1>9, <1>10 DEF Conversation

(* What is sent arrives behind what was sent before, if the peer works.      *)
Delivered(w, e, s, id, x) ==
  /\ w \in [Edges -> Seq(Messages)] /\ w[e] = wire[e]
  /\ \A t, j : Said(w[Peer(e)], t, j) =
       IF Works(Peer(e)) /\ t = s /\ j = id
       THEN Said(wire[Peer(e)], t, j) \union {x} ELSE Said(wire[Peer(e)], t, j)
  /\ \A c \in Edges : Ordered(w[c])

LEMMA Told ==
  ASSUME StiacInv, NEW e \in Edges, NEW s \in Sides, NEW id \in Ids, NEW op \in Ops, NEW g \in Gens,
         Works(Peer(e)) => \A x \in Said(wire[Peer(e)], s, id) : Before(x, <<op, g>>)
  PROVE  Delivered(Sent(e, <<Msg(op, s, id, g)>>), e, s, id, <<op, g>>)
<1> DEFINE w == Sent(e, <<Msg(op, s, id, g)>>)
           p == Peer(e)
           m == Msg(op, s, id, g)
           Q == wire[p]
<1>1. p \in Edges /\ p # e /\ \A c \in Edges : c = e \/ c = p BY Peers
<1>2. wire \in [Edges -> Seq(Messages)] /\ \A c \in Edges : Ordered(wire[c])
  BY DEF StiacInv, StiacType
<1> SUFFICES Delivered(w, e, s, id, <<op, g>>)
  OBVIOUS
<1> HIDE DEF w
<1>3. CASE ~Works(p)
  <2>1. w = wire BY <1>3 DEF w, Sent, Works
  <2> QED BY <1>2, <1>3, <2>1 DEF Delivered
<1>4. CASE Works(p)
  <2>1. m \in Messages /\ m.op = op /\ m.side = s /\ m.id = id /\ m.n = g
    BY DEF Messages, Msg
  <2>2. Q \in Seq(Messages) BY <1>1, <1>2
  <2>3. w = [wire EXCEPT ![p] = Q \o <<m>>] BY <1>1, <1>2, <1>4 DEF w, m, p, Q, Sent, Works
  <2> HIDE DEF m, p, Q
  <2>4. Q \o <<m>> = Append(Q, m) /\ Append(Q, m) \in Seq(Messages) BY <2>1, <2>2
  <2>5. w \in [Edges -> Seq(Messages)] /\ w[e] = wire[e] /\ w[p] = Append(Q, m)
    BY <1>1, <1>2, <2>3, <2>4
  <2>6. \A t, j : Said(w[p], t, j) =
          IF m.side = t /\ m.id = j THEN Said(Q, t, j) \union {<<m.op, m.n>>} ELSE Said(Q, t, j)
    <3>1. \A t, j : Said(Append(Q, m), t, j) =
            IF m.side = t /\ m.id = j THEN Said(Q, t, j) \union {<<m.op, m.n>>}
            ELSE Said(Q, t, j)
      BY <2>1, <2>2, SaidMore
    <3> QED BY <2>5, <3>1
  <2>7. Ordered(w[p])
    <3>1. Ordered(Q) BY <1>1, <1>2 DEF Q
    <3>2. \A x \in Said(Q, m.side, m.id) : Before(x, <<m.op, m.n>>)
      BY <1>4, <2>1 DEF p, Q
    <3> QED BY <2>1, <2>2, <2>5, <3>1, <3>2, SaidMore
  <2>8. \A c \in Edges : Ordered(w[c]) BY <1>1, <1>2, <2>5, <2>7
  <2> QED BY <1>4, <2>1, <2>5, <2>6, <2>8 DEF p, Q, Delivered
<1> QED BY <1>3, <1>4

LEMMA SentNothing ==
  ASSUME StiacInv, NEW e \in Edges
  PROVE  Sent(e, <<>>) = wire
<1>1. wire \in [Edges -> Seq(Messages)] /\ Peer(e) \in Edges
  BY Peers DEF StiacInv, StiacType
<1>2. wire[Peer(e)] \o <<>> = wire[Peer(e)] BY <1>1
<1> QED BY <1>1, <1>2 DEF Sent

(* The next message is read, and may be answered with an end.                *)
Replied(w, e, m, reply) ==
  /\ w \in [Edges -> Seq(Messages)] /\ w[e] = Tail(wire[e])
  /\ \A t, j : Said(w[Peer(e)], t, j) =
       IF Works(Peer(e)) /\ reply /\ t = Flip(m.side) /\ j = m.id
       THEN Said(wire[Peer(e)], t, j) \union {<<"end", m.n>>} ELSE Said(wire[Peer(e)], t, j)
  /\ \A c \in Edges : Ordered(w[c])

LEMMA Heard ==
  ASSUME StiacInv, NEW e \in Edges, wire[e] # <<>>, NEW m, m = Head(wire[e]),
         NEW reply \in BOOLEAN,
         wire' = [Sent(e, IF reply THEN <<Msg("end", Flip(m.side), m.id, m.n)>> ELSE <<>>)
                    EXCEPT ![e] = Tail(@)],
         Works(Peer(e)) /\ reply =>
           \A x \in Said(wire[Peer(e)], Flip(m.side), m.id) : Before(x, <<"end", m.n>>)
  PROVE  Replied(wire', e, m, reply)
<1> DEFINE p == Peer(e)
           w == Sent(e, IF reply THEN <<Msg("end", Flip(m.side), m.id, m.n)>> ELSE <<>>)
<1>1. p \in Edges /\ p # e /\ \A c \in Edges : c = e \/ c = p BY Peers
<1>2. wire[e] \in Seq(Messages) /\ Ordered(wire[e]) /\ \A c \in Edges : Ordered(wire[c])
  BY DEF StiacInv, StiacType
<1>3. m \in Messages BY <1>2
<1>4. m.n \in Gens /\ m.id \in Ids /\ Flip(m.side) \in Sides /\ "end" \in Ops
  BY <1>3 DEF Messages, Flip, Sides, Ops
<1>5. /\ w \in [Edges -> Seq(Messages)] /\ w[e] = wire[e]
      /\ \A t, j : Said(w[p], t, j) =
           IF Works(p) /\ reply /\ t = Flip(m.side) /\ j = m.id
           THEN Said(wire[p], t, j) \union {<<"end", m.n>>} ELSE Said(wire[p], t, j)
      /\ \A c \in Edges : Ordered(w[c])
  <2>1. CASE reply
    <3>1. w = Sent(e, <<Msg("end", Flip(m.side), m.id, m.n)>>) BY <2>1
    <3>2. Delivered(w, e, Flip(m.side), m.id, <<"end", m.n>>)
      BY <1>4, <2>1, <3>1, Told
    <3> HIDE DEF w
    <3> QED BY <2>1, <3>2 DEF Delivered
  <2>2. CASE ~reply
    <3>1. w = wire BY <2>2, SentNothing
    <3>2. wire \in [Edges -> Seq(Messages)] BY DEF StiacInv, StiacType
    <3> HIDE DEF w
    <3> QED BY <1>2, <2>2, <3>1, <3>2
  <2> QED BY <2>1, <2>2
<1>6. wire' = [w EXCEPT ![e] = Tail(wire[e])] BY <1>5
<1> HIDE DEF w, p
<1>7. Tail(wire[e]) \in Seq(Messages) /\ Ordered(Tail(wire[e])) BY <1>2, SaidLess DEF Popped
<1>8. wire' \in [Edges -> Seq(Messages)] /\ wire'[e] = Tail(wire[e]) /\ wire'[p] = w[p]
  BY <1>1, <1>5, <1>6, <1>7
<1>9. \A c \in Edges : Ordered(wire'[c]) BY <1>1, <1>5, <1>7, <1>8
<1> QED BY <1>5, <1>8, <1>9 DEF p, Replied

(* The end that made link id of e does something, and says so.               *)
LEMMA MakerSpeaks ==
  ASSUME StiacInv, NEW e \in Edges, NEW id \in Ids, NEW op \in Ops, NEW g \in Gens,
         state' = state, Elsewhere(e, "local", id), Later, g \in Used(e)',
         Loc(e, id)' # None => Loc(e, id)'.n = g,
         wire' = Sent(e, <<Msg(op, "remote", id, g)>>),
         NEW F2, F2 = Forth(e, id) \union {<<op, g>>},
         HearL(Loc(e, id)', LocZombie(e, id)', Back(e, id), Cancelled(e)'),
         Works(Peer(e)) =>
           /\ \A x \in Forth(e, id) : Before(x, <<op, g>>)
           /\ HearR(Rem(e, id), RemZombie(e, id), F2)
           /\ Tie(Loc(e, id)', LocZombie(e, id)', Rem(e, id), RemZombie(e, id), F2, Back(e, id),
                  Cancelled(e)')
  PROVE  Talks'
<1>1. /\ wire' \in [Edges -> Seq(Messages)] /\ wire'[e] = wire[e]
      /\ \A t, j : Said(wire'[Peer(e)], t, j) =
           IF Works(Peer(e)) /\ t = "remote" /\ j = id
           THEN Said(wire[Peer(e)], t, j) \union {<<op, g>>} ELSE Said(wire[Peer(e)], t, j)
      /\ \A c \in Edges : Ordered(wire'[c])
  <2>1. Works(Peer(e)) => \A x \in Said(wire[Peer(e)], "remote", id) : Before(x, <<op, g>>)
    BY Peers DEF Forth, Back
  <2>2. Delivered(wire', e, "remote", id, <<op, g>>)
    BY <2>1, Told DEF Sides
  <2> QED BY <2>2 DEF Delivered
<1>2. /\ Peer(e) \in Edges /\ Peer(e) # e /\ Peer(Peer(e)) = e
      /\ \A c \in Edges : c = e \/ c = Peer(e)
  BY Peers
<1>3. /\ Back(e, id)' = Back(e, id)
      /\ Forth(e, id)' = IF Works(Peer(e)) THEN F2 ELSE Forth(e, id)
  BY <1>1, <1>2 DEF Forth, Back
<1>4. ASSUME NEW c \in Edges, NEW j \in Ids, j # id \/ c # e
      PROVE  Conversation(c, j)' /\ UsedOnly(c, j)'
  <2>1. Forth(c, j)' = Forth(c, j) /\ Back(c, j)' = Back(c, j)
    <3>1. CASE c = e BY <1>1, <1>2, <1>4, <3>1 DEF Forth, Back
    <3>2. CASE c = Peer(e) BY <1>1, <1>2, <3>2 DEF Forth, Back
    <3> QED BY <1>2, <3>1, <3>2
  <2> QED BY <1>4, <2>1, OtherConversations DEF Sides
<1>5. Rem(e, id)' = Rem(e, id) /\ RemZombie(e, id)' = RemZombie(e, id)
  BY <1>2 DEF Elsewhere, Sides, Rem, RemZombie
<1>6. (Works(e)' <=> Works(e)) /\ (Works(Peer(e))' <=> Works(Peer(e))) BY DEF Works
<1>7. Conversation(e, id) /\ UsedOnly(e, id) BY DEF StiacInv
<1>8. HearL(Loc(e, id)', LocZombie(e, id)', Back(e, id)', Cancelled(e)')
  BY <1>3
<1>9. ASSUME Works(Peer(e))
      PROVE  /\ HearR(Rem(e, id)', RemZombie(e, id)', Forth(e, id)')
             /\ Tie(Loc(e, id)', LocZombie(e, id)', Rem(e, id)', RemZombie(e, id)',
                    Forth(e, id)', Back(e, id)', Cancelled(e)')
  BY <1>3, <1>5, <1>9
<1>10. Conversation(e, id)' BY <1>6, <1>8, <1>9 DEF Conversation
<1>11. UsedOnly(e, id)'
  <2>1. \A x \in F2 : x[2] \in Used(e)' BY <1>7 DEF UsedOnly, Later
  <2> QED BY <1>3, <1>5, <1>7, <2>1 DEF UsedOnly, Later
<1> QED BY <1>1, <1>4, <1>10, <1>11 DEF Talks

(* The end that has been told of link id of its peer does something.         *)
LEMMA OtherSpeaks ==
  ASSUME StiacInv, NEW e \in Edges, NEW id \in Ids, NEW op \in Ops, NEW p, p = Peer(e),
         NEW g \in Used(p), g \in Gens,
         state' = state, Later, Cancelled(p)' = Cancelled(p), Elsewhere(e, "remote", id),
         Rem(p, id)' # None => Rem(p, id)'.n = g,
         wire' = Sent(e, <<Msg(op, "local", id, g)>>),
         NEW B2, B2 = Back(p, id) \union {<<op, g>>},
         HearR(Rem(p, id)', RemZombie(p, id)', Forth(p, id)),
         Works(p) =>
           /\ \A x \in Back(p, id) : Before(x, <<op, g>>)
           /\ HearL(Loc(p, id), LocZombie(p, id), B2, Cancelled(p))
           /\ Tie(Loc(p, id), LocZombie(p, id), Rem(p, id)', RemZombie(p, id)', Forth(p, id), B2,
                  Cancelled(p))
  PROVE  Talks'
<1>1. /\ wire' \in [Edges -> Seq(Messages)] /\ wire'[e] = wire[e]
      /\ \A t, j : Said(wire'[p], t, j) =
           IF Works(p) /\ t = "local" /\ j = id
           THEN Said(wire[p], t, j) \union {<<op, g>>} ELSE Said(wire[p], t, j)
      /\ \A c \in Edges : Ordered(wire'[c])
  <2>1. Works(p) => \A x \in Said(wire[p], "local", id) : Before(x, <<op, g>>)
    BY Peers DEF Forth, Back
  <2>2. Delivered(wire', e, "local", id, <<op, g>>)
    BY <2>1, Told DEF Sides
  <2> QED BY <2>2 DEF Delivered
<1>2. p \in Edges /\ p # e /\ Peer(p) = e /\ \A c \in Edges : c = e \/ c = p
  BY Peers
<1>3. /\ Forth(p, id)' = Forth(p, id)
      /\ Back(p, id)' = IF Works(p) THEN B2 ELSE Back(p, id)
  BY <1>1, <1>2 DEF Forth, Back
<1>4. Later OBVIOUS
<1>5. ASSUME NEW c \in Edges, NEW j \in Ids, j # id \/ c # p
      PROVE  Conversation(c, j)' /\ UsedOnly(c, j)'
  <2>1. Forth(c, j)' = Forth(c, j) /\ Back(c, j)' = Back(c, j)
    <3>1. CASE c = e BY <1>1, <1>2, <3>1 DEF Forth, Back
    <3>2. CASE c = p BY <1>1, <1>2, <1>5, <3>2 DEF Forth, Back
    <3> QED BY <1>2, <3>1, <3>2
  <2> QED BY <1>4, <1>5, <2>1, OtherConversations DEF Sides
<1>6. Loc(p, id)' = Loc(p, id) /\ LocZombie(p, id)' = LocZombie(p, id)
  BY <1>2 DEF Elsewhere, Sides, Loc, LocZombie
<1>7. (Works(p)' <=> Works(p)) /\ (Works(Peer(p))' <=> Works(Peer(p))) BY DEF Works
<1>8. Conversation(p, id) /\ UsedOnly(p, id) BY <1>2 DEF StiacInv
<1>9. Cancelled(p)' = Cancelled(p) /\ Used(p) \subseteq Used(p)' BY <1>2 DEF Later
<1>10. HearR(Rem(p, id)', RemZombie(p, id)', Forth(p, id)') BY <1>3
<1>11. ASSUME Works(p)
       PROVE  /\ HearL(Loc(p, id)', LocZombie(p, id)', Back(p, id)', Cancelled(p)')
              /\ Tie(Loc(p, id)', LocZombie(p, id)', Rem(p, id)', RemZombie(p, id)',
                     Forth(p, id)', Back(p, id)', Cancelled(p)')
  BY <1>3, <1>6, <1>9, <1>11
<1>12. Conversation(p, id)' BY <1>7, <1>10, <1>11 DEF Conversation
<1>13. UsedOnly(p, id)'
  <2>1. \A x \in B2 : x[2] \in Used(p) BY <1>8 DEF UsedOnly
  <2> QED BY <1>3, <1>6, <1>8, <1>9, <2>1 DEF UsedOnly
<1> QED BY <1>1, <1>5, <1>12, <1>13 DEF Talks

(* The end that has been told of the link under a number hears of it.        *)
LEMMA OtherHears ==
  ASSUME StiacInv, NEW e \in Edges, wire[e] # <<>>, NEW m, m = Head(wire[e]), m.side = "remote",
         NEW p, p = Peer(e), NEW id, id = m.id, NEW reply \in BOOLEAN,
         Replied(wire', e, m, reply),
         state' = state, done' = done, Elsewhere(e, "remote", id),
         Rem(p, id)' # None => Rem(p, id)'.n \in Used(p),
         NEW F2, F2 = Said(Tail(wire[e]), "remote", id),
         NEW B2, B2 = IF reply THEN Back(p, id) \union {<<"end", m.n>>} ELSE Back(p, id),
         HearR(Rem(p, id)', RemZombie(p, id)', F2),
         Works(p) =>
           /\ HearL(Loc(p, id), LocZombie(p, id), B2, Cancelled(p))
           /\ Tie(Loc(p, id), LocZombie(p, id), Rem(p, id)', RemZombie(p, id)', F2, B2,
                  Cancelled(p))
  PROVE  Talks'
<1>1. p \in Edges /\ p # e /\ Peer(p) = e /\ \A c \in Edges : c = e \/ c = p
  BY Peers
<1>2. /\ wire' \in [Edges -> Seq(Messages)] /\ wire'[e] = Tail(wire[e])
      /\ \A t, j : Said(wire'[p], t, j) =
           IF Works(p) /\ reply /\ t = "local" /\ j = id
           THEN Said(wire[p], t, j) \union {<<"end", m.n>>} ELSE Said(wire[p], t, j)
      /\ \A c \in Edges : Ordered(wire'[c])
  BY DEF Replied, Flip
<1>3. wire[e] \in Seq(Messages) BY DEF StiacInv, StiacType
<1>4. /\ m \in Messages /\ <<m.op, m.n>> \in Forth(p, id) /\ F2 \subseteq Forth(p, id)
      /\ \A t, j : t # "remote" \/ j # id => Said(wire'[e], t, j) = Said(wire[e], t, j)
  <2>1. Popped(wire[e], wire'[e], m) BY <1>2, <1>3, SaidLess
  <2>2. Said(wire[e], "remote", id) = Forth(p, id) /\ Said(wire'[e], "remote", id) = F2
    BY <1>1, <1>2 DEF Forth
  <2> QED BY <2>1, <2>2 DEF Popped
<1>5. /\ Forth(p, id)' = F2
      /\ Back(p, id)' = IF Works(p) THEN B2 ELSE Back(p, id)
  BY <1>1, <1>2 DEF Forth, Back
<1>6. \A t, j : t # "local" \/ j # id => Said(wire'[p], t, j) = Said(wire[p], t, j)
  BY <1>2
<1>7. \A t, j : t # "remote" \/ j # id => Said(wire'[e], t, j) = Said(wire[e], t, j)
  BY <1>4
<1>8. Later BY DEF Later, Cancelled, Used
<1>9. ASSUME NEW c \in Edges, NEW j \in Ids, j # id \/ c # p
      PROVE  Conversation(c, j)' /\ UsedOnly(c, j)'
  <2>1. Forth(c, j)' = Forth(c, j) /\ Back(c, j)' = Back(c, j)
    <3>1. /\ Said(wire'[e], "local", j) = Said(wire[e], "local", j)
          /\ Said(wire'[p], "remote", j) = Said(wire[p], "remote", j)
      BY <1>6, <1>7
    <3>2. j # id => /\ Said(wire'[e], "remote", j) = Said(wire[e], "remote", j)
                    /\ Said(wire'[p], "local", j) = Said(wire[p], "local", j)
      BY <1>6, <1>7
    <3>3. CASE c = e BY <1>1, <3>1, <3>3 DEF Forth, Back
    <3>4. CASE c = p BY <1>1, <1>9, <3>2, <3>4 DEF Forth, Back
    <3> QED BY <1>1, <3>3, <3>4
  <2>2. id \in Ids BY <1>4 DEF Messages
  <2> QED BY <1>8, <1>9, <2>1, <2>2, OtherConversations DEF Sides
<1>10. id \in Ids BY <1>4 DEF Messages
<1>11. Loc(p, id)' = Loc(p, id) /\ LocZombie(p, id)' = LocZombie(p, id)
  BY <1>1, <1>10 DEF Elsewhere, Sides, Loc, LocZombie
<1>12. (Works(p)' <=> Works(p)) /\ (Works(Peer(p))' <=> Works(Peer(p))) BY DEF Works
<1>13. Conversation(p, id) /\ UsedOnly(p, id) BY <1>1, <1>10 DEF StiacInv
<1>14. Cancelled(p)' = Cancelled(p) /\ Used(p)' = Used(p) BY DEF Cancelled, Used
<1>15. HearR(Rem(p, id)', RemZombie(p, id)', Forth(p, id)') BY <1>5
<1>16. ASSUME Works(p)
       PROVE  /\ HearL(Loc(p, id)', LocZombie(p, id)', Back(p, id)', Cancelled(p)')
              /\ Tie(Loc(p, id)', LocZombie(p, id)', Rem(p, id)', RemZombie(p, id)',
                     Forth(p, id)', Back(p, id)', Cancelled(p)')
  BY <1>5, <1>11, <1>14, <1>16
<1>17. Conversation(p, id)' BY <1>12, <1>15, <1>16 DEF Conversation
<1>18. UsedOnly(p, id)'
  <2>1. m.n \in Used(p)
    <3> DEFINE x == <<m.op, m.n>>
    <3>1. x[2] \in Used(p) BY <1>4, <1>13 DEF UsedOnly
    <3> QED BY <3>1
  <2>2. \A x \in B2 : x[2] \in Used(p) BY <1>13, <2>1 DEF UsedOnly
  <2> QED BY <1>4, <1>5, <1>11, <1>13, <1>14, <2>2 DEF UsedOnly
<1> QED BY <1>2, <1>9, <1>17, <1>18 DEF Talks

(* The end that made the link under a number hears of it.                    *)
LEMMA MakerHears ==
  ASSUME StiacInv, NEW e \in Edges, wire[e] # <<>>, NEW m, m = Head(wire[e]), m.side = "local",
         NEW p, p = Peer(e), NEW id, id = m.id, NEW reply \in BOOLEAN,
         Replied(wire', e, m, reply),
         state' = state, done' = done, Elsewhere(e, "local", id),
         Loc(e, id)' # None => Loc(e, id)' = Loc(e, id),
         NEW B2, B2 = Said(Tail(wire[e]), "local", id),
         NEW F2, F2 = IF reply THEN Forth(e, id) \union {<<"end", m.n>>} ELSE Forth(e, id),
         HearL(Loc(e, id)', LocZombie(e, id)', B2, Cancelled(e)),
         Works(p) =>
           /\ HearR(Rem(e, id), RemZombie(e, id), F2)
           /\ Tie(Loc(e, id)', LocZombie(e, id)', Rem(e, id), RemZombie(e, id), F2, B2,
                  Cancelled(e))
  PROVE  Talks'
<1>1. p \in Edges /\ p # e /\ Peer(p) = e /\ \A c \in Edges : c = e \/ c = p
  BY Peers
<1>2. /\ wire' \in [Edges -> Seq(Messages)] /\ wire'[e] = Tail(wire[e])
      /\ \A t, j : Said(wire'[p], t, j) =
           IF Works(p) /\ reply /\ t = "remote" /\ j = id
           THEN Said(wire[p], t, j) \union {<<"end", m.n>>} ELSE Said(wire[p], t, j)
      /\ \A c \in Edges : Ordered(wire'[c])
  BY DEF Replied, Flip
<1>3. wire[e] \in Seq(Messages) BY DEF StiacInv, StiacType
<1>4. /\ m \in Messages /\ <<m.op, m.n>> \in Back(e, id) /\ B2 \subseteq Back(e, id)
      /\ \A t, j : t # "local" \/ j # id => Said(wire'[e], t, j) = Said(wire[e], t, j)
  <2>1. Popped(wire[e], wire'[e], m) BY <1>2, <1>3, SaidLess
  <2>2. Said(wire[e], "local", id) = Back(e, id) /\ Said(wire'[e], "local", id) = B2
    BY <1>1, <1>2 DEF Back
  <2> QED BY <2>1, <2>2 DEF Popped
<1>5. /\ Back(e, id)' = B2
      /\ Forth(e, id)' = IF Works(p) THEN F2 ELSE Forth(e, id)
  BY <1>1, <1>2 DEF Forth, Back
<1>6. \A t, j : t # "remote" \/ j # id => Said(wire'[p], t, j) = Said(wire[p], t, j)
  BY <1>2
<1>7. \A t, j : t # "local" \/ j # id => Said(wire'[e], t, j) = Said(wire[e], t, j)
  BY <1>4
<1>8. Later BY DEF Later, Cancelled, Used
<1>9. id \in Ids BY <1>4 DEF Messages
<1>10. ASSUME NEW c \in Edges, NEW j \in Ids, j # id \/ c # e
      PROVE  Conversation(c, j)' /\ UsedOnly(c, j)'
  <2>1. Forth(c, j)' = Forth(c, j) /\ Back(c, j)' = Back(c, j)
    <3>1. /\ Said(wire'[e], "remote", j) = Said(wire[e], "remote", j)
          /\ Said(wire'[p], "local", j) = Said(wire[p], "local", j)
      BY <1>6, <1>7
    <3>2. j # id => /\ Said(wire'[e], "local", j) = Said(wire[e], "local", j)
                    /\ Said(wire'[p], "remote", j) = Said(wire[p], "remote", j)
      BY <1>6, <1>7
    <3>3. CASE c = e BY <1>1, <1>10, <3>2, <3>3 DEF Forth, Back
    <3>4. CASE c = p BY <1>1, <3>1, <3>4 DEF Forth, Back
    <3> QED BY <1>1, <3>3, <3>4
  <2> QED BY <1>8, <1>9, <1>10, <2>1, OtherConversations DEF Sides
<1>11. Rem(e, id)' = Rem(e, id) /\ RemZombie(e, id)' = RemZombie(e, id)
  BY <1>1, <1>9 DEF Elsewhere, Sides, Rem, RemZombie
<1>12. (Works(e)' <=> Works(e)) /\ (Works(Peer(e))' <=> Works(Peer(e))) BY DEF Works
<1>13. Conversation(e, id) /\ UsedOnly(e, id) BY <1>9 DEF StiacInv
<1>14. Cancelled(e)' = Cancelled(e) /\ Used(e)' = Used(e) BY DEF Cancelled, Used
<1>15. HearL(Loc(e, id)', LocZombie(e, id)', Back(e, id)', Cancelled(e)') BY <1>5, <1>14
<1>16. ASSUME Works(Peer(e))
       PROVE  /\ HearR(Rem(e, id)', RemZombie(e, id)', Forth(e, id)')
              /\ Tie(Loc(e, id)', LocZombie(e, id)', Rem(e, id)', RemZombie(e, id)',
                     Forth(e, id)', Back(e, id)', Cancelled(e)')
  BY <1>5, <1>11, <1>14, <1>16
<1>17. Conversation(e, id)' BY <1>12, <1>15, <1>16 DEF Conversation
<1>18. UsedOnly(e, id)'
  <2>1. m.n \in Used(e)
    <3> DEFINE x == <<m.op, m.n>>
    <3>1. x[2] \in Used(e) BY <1>4, <1>13 DEF UsedOnly
    <3> QED BY <3>1
  <2>2. \A x \in F2 : x[2] \in Used(e) BY <1>13, <2>1 DEF UsedOnly
  <2> QED BY <1>4, <1>5, <1>11, <1>13, <1>14, <2>2 DEF UsedOnly
<1> QED BY <1>2, <1>10, <1>17, <1>18 DEF Talks

-----------------------------------------------------------------------------
(* The numbers and the counts of one end.                                    *)
LEMMA ConvType ==
  ASSUME StiacType, NEW e \in Edges, NEW id \in Ids
  PROVE  Terms(Loc(e, id), LocZombie(e, id), Rem(e, id), RemZombie(e, id), Forth(e, id), Back(e, id),
               Cancelled(e))
<1>1. Peer(e) \in Edges BY Peers
<1>2. Forth(e, id) \in SUBSET Sayings BY <1>1, SaidSayings DEF Forth, StiacType
<1>3. Back(e, id) \in SUBSET Sayings BY SaidSayings DEF Back, StiacType
<1>4. Loc(e, id) \in Links /\ Rem(e, id) \in Links BY <1>1 DEF StiacType, Loc, Rem, Sides
<1>5. LocZombie(e, id) \in BOOLEAN /\ RemZombie(e, id) \in BOOLEAN /\ Cancelled(e) \in BOOLEAN
  BY DEF LocZombie, RemZombie, Cancelled
<1> QED BY <1>2, <1>3, <1>4, <1>5 DEF Terms

Counts == {"put", "call", "cancel", "use"}
(* The counts go up, to the quota at most.                                   *)
Counted ==
  /\ done' \in [Edges -> [Counts -> Nat]]
  /\ \A c \in Edges, o \in Counts : done[c][o] <= done'[c][o] /\ done'[c][o] <= Quota[c][o]

LEMMA UsesFacts ==
  ASSUME StiacInv, NEW e \in Edges, NEW op \in Counts, May(e, op), Uses(e, op)
  PROVE  /\ Counted /\ Later
         /\ done'[e][op] = done[e][op] + 1
         /\ op # "cancel" => \A c \in Edges : Cancelled(c)' = Cancelled(c)
<1>1. done \in [Edges -> [Counts -> Nat]] BY DEF StiacInv, StiacType, Counts
<1>2. done' = [done EXCEPT ![e][op] = done[e][op] + 1] BY <1>1 DEF Uses
<1>3. done' \in [Edges -> [Counts -> Nat]] BY <1>1, <1>2
<1>4. \A c \in Edges, o \in Counts :
        done'[c][o] = IF c = e /\ o = op THEN done[c][o] + 1 ELSE done[c][o]
  BY <1>1, <1>2
<1>5. \A c \in Edges, o \in Counts : done[c][o] \in Nat /\ Quota[c][o] \in Nat
  BY <1>1, QuotaNat DEF Counts
<1>6. ASSUME NEW c \in Edges, NEW o \in Counts
      PROVE  done[c][o] <= done'[c][o] /\ done'[c][o] <= Quota[c][o]
  <2>1. done[c][o] <= Quota[c][o] BY DEF StiacInv, Bounded, Counts
  <2>2. c = e /\ o = op => done[c][o] < Quota[c][o] BY DEF May
  <2> QED BY <1>4, <1>5, <2>1, <2>2
<1>7. Later
  <2> SUFFICES ASSUME NEW c \in Edges
               PROVE  (Cancelled(c) => Cancelled(c)') /\ Used(c) \subseteq Used(c)'
    BY DEF Later
  <2>1. Cancelled(c) => Cancelled(c)'
    <3>1. done[c]["cancel"] <= done'[c]["cancel"] BY <1>6 DEF Counts
    <3>2. done[c]["cancel"] \in Nat /\ done'[c]["cancel"] \in Nat BY <1>1, <1>3 DEF Counts
    <3> QED BY <3>1, <3>2 DEF Cancelled
  <2>2. ASSUME NEW g \in Used(c) PROVE g \in Used(c)'
    <3>1. g \in Gens /\ g[2] <= done[c][g[1]] /\ g[1] \in Counts /\ g[2] \in Nat
      BY DEF Used, Gens, Counts
    <3>2. done[c][g[1]] <= done'[c][g[1]] /\ done[c][g[1]] \in Nat /\ done'[c][g[1]] \in Nat
      BY <1>1, <1>3, <1>6, <3>1
    <3> QED BY <3>1, <3>2 DEF Used
  <2> QED BY <2>1, <2>2
<1>8. op # "cancel" => \A c \in Edges : Cancelled(c)' = Cancelled(c)
  BY <1>4 DEF Cancelled, Counts
<1> QED BY <1>3, <1>4, <1>6, <1>7, <1>8 DEF Counted

LEMMA NoUses ==
  ASSUME StiacInv, done' = done
  PROVE  Counted /\ Later
<1>1. Counted BY QuotaNat DEF Counted, StiacInv, StiacType, Bounded, Counts
<1>2. Later BY DEF Later, Cancelled, Used
<1> QED BY <1>1, <1>2

(* No end has more links than it made, unless a step makes one.              *)
LEMMA BoundedKept ==
  ASSUME StiacInv, Counted,
         \A c \in Edges, j \in Ids : Loc(c, j)' # None =>
           Loc(c, j) # None /\ Loc(c, j)'.kind = Loc(c, j).kind
  PROVE  \A c \in Edges : Bounded(c)'
<1> SUFFICES ASSUME NEW c \in Edges PROVE Bounded(c)' OBVIOUS
<1>1. Bounded(c) BY DEF StiacInv
<1>2. Listed(c)' \subseteq Listed(c) BY DEF Listed
<1>3. IsFiniteSet(Listed(c)) BY Enough, FS_Subset DEF Listed
<1>4. /\ IsFiniteSet(Listed(c)') /\ Cardinality(Listed(c)') <= Cardinality(Listed(c))
  BY <1>2, <1>3, FS_Subset
<1>5. Cardinality(Listed(c)') \in Nat /\ Cardinality(Listed(c)) \in Nat
  BY <1>3, <1>4, FS_CardinalityType
<1>6. /\ done[c]["put"] \in Nat /\ done[c]["call"] \in Nat
      /\ done'[c]["put"] \in Nat /\ done'[c]["call"] \in Nat
      /\ done[c]["put"] <= done'[c]["put"] /\ done[c]["call"] <= done'[c]["call"]
  BY DEF Counted, StiacInv, StiacType, Counts
<1>7. Cardinality(Listed(c)) <= done[c]["put"] + done[c]["call"] BY <1>1 DEF Bounded
<1>8. Cardinality(Listed(c)') <= done'[c]["put"] + done'[c]["call"]
  BY <1>4, <1>5, <1>6, <1>7
<1>9. ASSUME NEW j \in Ids, Loc(c, j)'.kind = "interface" PROVE Quota[c]["put"] > 0
  <2>1. Loc(c, j)' # None BY <1>9 DEF None
  <2> QED BY <1>1, <1>9, <2>1 DEF Bounded
<1>10. \A o \in Counts : done'[c][o] <= Quota[c][o] BY DEF Counted
<1> QED BY <1>8, <1>9, <1>10 DEF Bounded, Counts

LEMMA BoundedMade ==
  ASSUME StiacInv, Counted, NEW e \in Edges, NEW id \in Ids, NEW op \in New,
         done'[e][op] = done[e][op] + 1, May(e, op),
         Elsewhere(e, "local", id), Loc(e, id)'.kind = "interface" => op = "put"
  PROVE  \A c \in Edges : Bounded(c)'
<1> SUFFICES ASSUME NEW c \in Edges PROVE Bounded(c)' OBVIOUS
<1>1. Bounded(c) BY DEF StiacInv
<1>2. \A j \in Ids : j # id \/ c # e => Loc(c, j)' = Loc(c, j)
  BY DEF Loc, Elsewhere, Sides
<1>3. IsFiniteSet(Listed(c)) BY Enough, FS_Subset DEF Listed
<1>4. Cardinality(Listed(c)) \in Nat BY <1>3, FS_CardinalityType
<1>5. /\ done[c]["put"] \in Nat /\ done[c]["call"] \in Nat
      /\ done'[c]["put"] \in Nat /\ done'[c]["call"] \in Nat
      /\ done[c]["put"] <= done'[c]["put"] /\ done[c]["call"] <= done'[c]["call"]
  BY DEF Counted, StiacInv, StiacType, Counts
<1>6. Cardinality(Listed(c)) <= done[c]["put"] + done[c]["call"] BY <1>1 DEF Bounded
<1>7. Cardinality(Listed(c)') <= done'[c]["put"] + done'[c]["call"]
  <2>1. CASE c = e
    <3> DEFINE S == Listed(c) \union {id}
    <3>1. IsFiniteSet(S) /\ (Cardinality(S) = Cardinality(Listed(c))
            \/ Cardinality(S) = Cardinality(Listed(c)) + 1)
      BY <1>3, FS_AddElement
    <3>2. Listed(c)' \subseteq S BY <1>2 DEF Listed
    <3> HIDE DEF S
    <3>3. IsFiniteSet(Listed(c)') /\ Cardinality(Listed(c)') <= Cardinality(S)
      BY <3>1, <3>2, FS_Subset
    <3>4. Cardinality(Listed(c)') \in Nat BY <3>3, FS_CardinalityType
    <3>5. done'[c]["put"] + done'[c]["call"] >= done[c]["put"] + done[c]["call"] + 1
      BY <1>5, <2>1 DEF New
    <3> QED BY <1>4, <1>5, <1>6, <3>1, <3>3, <3>4, <3>5
  <2>2. CASE c # e
    <3>1. Listed(c)' = Listed(c) BY <1>2, <2>2 DEF Listed
    <3> QED BY <1>4, <1>5, <1>6, <3>1
  <2> QED BY <2>1, <2>2
<1>8. ASSUME NEW j \in Ids, Loc(c, j)'.kind = "interface" PROVE Quota[c]["put"] > 0
  <2>1. CASE j # id \/ c # e BY <1>1, <1>2, <1>8, <2>1 DEF Bounded
  <2>2. CASE j = id /\ c = e
    <3>1. done[e]["put"] < Quota[e]["put"] BY <1>8, <2>2 DEF May
    <3>2. Quota[e]["put"] \in Nat BY QuotaNat
    <3> QED BY <1>5, <2>2, <3>1, <3>2
  <2> QED BY <2>1, <2>2
<1>9. \A o \in Counts : done'[c][o] <= Quota[c][o] BY DEF Counted
<1> QED BY <1>7, <1>8, <1>9 DEF Bounded, Counts

LEMMA FreeIdFacts ==
  ASSUME StiacInv, NEW e \in Edges, NEW op \in New, May(e, op)
  PROVE  FreeId(e) \in Ids /\ Loc(e, FreeId(e)) = None
<1> DEFINE Free == {id \in Ids : ~ Has(e, "local", id)}
<1>1. IsFiniteSet(Ids) /\ Ids \subseteq Nat
      /\ Quota[e]["put"] + Quota[e]["call"] <= Cardinality(Ids)
  BY Enough
<1>2. Free # {}
  <2> SUFFICES ASSUME Free = {} PROVE FALSE OBVIOUS
  <2>1. Listed(e) = Ids BY DEF Listed, Has, Loc
  <2>2. Cardinality(Ids) <= done[e]["put"] + done[e]["call"]
    BY <2>1 DEF StiacInv, Bounded
  <2>3. /\ done[e]["put"] <= Quota[e]["put"] /\ done[e]["call"] <= Quota[e]["call"]
        /\ done[e]["put"] < Quota[e]["put"] \/ done[e]["call"] < Quota[e]["call"]
    BY DEF StiacInv, Bounded, May, New
  <2>4. /\ done[e]["put"] \in Nat /\ done[e]["call"] \in Nat
        /\ Quota[e]["put"] \in Nat /\ Quota[e]["call"] \in Nat
    BY QuotaNat DEF StiacInv, StiacType
  <2>5. Cardinality(Ids) \in Nat BY <1>1, FS_CardinalityType
  <2> QED BY <1>1, <2>2, <2>3, <2>4, <2>5
<1>3. Min(Free) \in Free BY <1>1, <1>2, MinFacts
<1> QED BY <1>3 DEF FreeId, Has, Loc

-----------------------------------------------------------------------------
(* Each step keeps the invariant.                                            *)
LEMMA Together ==
  ASSUME StiacType', Talks', \A c \in Edges : Bounded(c)'
  PROVE  StiacInv'
BY DEF StiacInv, Talks

LEMMA MakesKeeps ==
  ASSUME StiacInv, NEW e \in Edges, NEW op \in New, NEW kind,
         kind = IF op = "put" THEN "interface" ELSE "promise", Makes(e, op, kind)
  PROVE  StiacInv'
<1>1. May(e, op) /\ Uses(e, op) /\ state' = state BY DEF Makes
<1>2. PICK id \in Ids : id = FreeId(e) /\ Loc(e, id) = None BY <1>1, FreeIdFacts
<1>3. StiacType BY DEF StiacInv
<1>4. op \in Counts /\ op # "cancel" /\ op \in Ops BY DEF New, Counts, Ops
<1>5. /\ Counted /\ Later /\ done'[e][op] = done[e][op] + 1 /\ Cancelled(e)' = Cancelled(e)
  BY <1>1, <1>4, UsesFacts
<1>6. done[e][op] \in Nat BY <1>3, <1>4 DEF StiacType, Counts
<1>7. PICK g \in Gens : g = <<op, done[e][op] + 1>> /\ g[1] = op
  <2>1. <<op, done[e][op] + 1>> \in Gens BY <1>6 DEF Gens, New
  <2> QED BY <2>1
<1>8. g \in Used(e)' /\ g \notin Used(e) BY <1>5, <1>6, <1>7 DEF Used
<1>9. PICK X \in Links : X = Link(kind, g) /\ X.n = g /\ X.kind = kind /\ X.open /\ X # None
  <2>1. Link(kind, g) \in Links BY DEF Links, Link
  <2>2. /\ Link(kind, g).n = g /\ Link(kind, g).kind = kind
        /\ Link(kind, g).open /\ Link(kind, g) # None
    BY DEF Link, None
  <2> QED BY <2>1, <2>2
<1>21. zombies' = zombies /\ links' = [links EXCEPT ![e]["local"][id] = X]
  BY <1>2, <1>7, <1>9 DEF Makes
<1>22. wire' = Sent(e, <<Msg(op, "remote", id, g)>>)
  BY <1>2, <1>7 DEF Makes
<1>10. /\ links' \in [Edges -> [Sides -> [Ids -> Links]]]
       /\ Loc(e, id)' = X /\ LocZombie(e, id)' = LocZombie(e, id)
       /\ Elsewhere(e, "local", id) /\ zombies' \in [Edges -> [Sides -> SUBSET Ids]]
  <2>1. /\ links' \in [Edges -> [Sides -> [Ids -> Links]]]
        /\ links'[e]["local"][id] = X /\ Elsewhere(e, "local", id)
    BY <1>3, <1>21, LinksMade DEF Sides
  <2>2. zombies' \in [Edges -> [Sides -> SUBSET Ids]] /\ LocZombie(e, id)' = LocZombie(e, id)
    BY <1>3, <1>21 DEF StiacType, LocZombie
  <2> QED BY <2>1, <2>2 DEF Loc
<1>11. Conversation(e, id) /\ UsedOnly(e, id) BY <1>2 DEF StiacInv
<1>12. (Rem(e, id) # None => Rem(e, id).n # g) /\ \A x \in Forth(e, id) \union Back(e, id) : x[2] # g
  BY <1>8, <1>11 DEF UsedOnly
<1>13. Works(e) BY <1>1 DEF May, Works
<1> DEFINE F2 == Forth(e, id) \union {<<g[1], g>>}
<1>14. NewLink(X, g, "promise")
  BY <1>7, <1>9 DEF NewLink, Formed
<1>15. HearL(None, LocZombie(e, id), Back(e, id), Cancelled(e))
  BY <1>2, <1>11, <1>13 DEF Conversation
<1>16. /\ HearL(X, LocZombie(e, id), Back(e, id), Cancelled(e))
       /\ HearR(Rem(e, id), RemZombie(e, id), Forth(e, id))
            /\ Tie(None, LocZombie(e, id), Rem(e, id), RemZombie(e, id), Forth(e, id), Back(e, id),
                   Cancelled(e)) =>
            /\ \A x \in Forth(e, id) : Before(x, <<g[1], g>>)
            /\ HearR(Rem(e, id), RemZombie(e, id), F2)
            /\ Tie(X, LocZombie(e, id), Rem(e, id), RemZombie(e, id), F2, Back(e, id), Cancelled(e))
  <2>1. Terms(None, LocZombie(e, id), Rem(e, id), RemZombie(e, id), Forth(e, id), Back(e, id),
              Cancelled(e))
    BY <1>2, <1>3, ConvType
  <2>2. /\ Rem(e, id) # None => Rem(e, id).n # g
        /\ \A x \in Forth(e, id) \union Back(e, id) : x[2] # g
    BY <1>12
  <2>3. More(F2, Forth(e, id), g[1], g) BY DEF More
  <2> HIDE DEF F2
  <2> QED BY <1>14, <1>15, <2>1, <2>2, <2>3, MakeSays
<1>17. Works(Peer(e)) =>
         HearR(Rem(e, id), RemZombie(e, id), Forth(e, id))
           /\ Tie(None, LocZombie(e, id), Rem(e, id), RemZombie(e, id), Forth(e, id), Back(e, id),
                  Cancelled(e))
  BY <1>2, <1>11, <1>13 DEF Conversation
<1>18. Talks'
  <2>1. HearL(Loc(e, id)', LocZombie(e, id)', Back(e, id), Cancelled(e)')
    BY <1>5, <1>10, <1>16
  <2>2. Works(Peer(e)) =>
          /\ \A x \in Forth(e, id) : Before(x, <<op, g>>)
          /\ HearR(Rem(e, id), RemZombie(e, id), F2)
          /\ Tie(Loc(e, id)', LocZombie(e, id)', Rem(e, id), RemZombie(e, id), F2, Back(e, id),
                 Cancelled(e)')
    BY <1>5, <1>7, <1>10, <1>16, <1>17
  <2>3. Loc(e, id)' # None => Loc(e, id)'.n = g BY <1>9, <1>10
  <2> HIDE DEF F2
  <2>4. F2 = Forth(e, id) \union {<<op, g>>} BY <1>7 DEF F2
  <2> QED BY <1>1, <1>4, <1>5, <1>8, <1>10, <1>22, <2>1, <2>2, <2>3, <2>4, MakerSpeaks
<1>19. \A c \in Edges : Bounded(c)'
  BY <1>1, <1>2, <1>5, <1>9, <1>10, BoundedMade
<1>20. StiacType'
  BY <1>1, <1>3, <1>5, <1>10, <1>18 DEF StiacType, Talks, Counted, Counts
<1> QED BY <1>18, <1>19, <1>20, Together

(* A step that leaves the links of its edge, or closes one, or drops it.     *)
LEMMA LinkLess ==
  ASSUME StiacInv, Counted, NEW e \in Edges, NEW s \in Sides, NEW id \in Ids,
         Elsewhere(e, s, id),
         s = "local" /\ links'[e][s][id] # None =>
           links[e][s][id] # None /\ links'[e][s][id].kind = links[e][s][id].kind
  PROVE  \A c \in Edges : Bounded(c)'
<1>1. ASSUME NEW c \in Edges, NEW j \in Ids, Loc(c, j)' # None
      PROVE  Loc(c, j) # None /\ Loc(c, j)'.kind = Loc(c, j).kind
  <2>1. CASE c = e /\ j = id /\ s = "local" BY <1>1, <2>1 DEF Loc
  <2>2. CASE ~(c = e /\ j = id /\ s = "local")
    BY <1>1, <2>2 DEF Elsewhere, Loc, Sides
  <2> QED BY <2>1, <2>2
<1> QED BY <1>1, BoundedKept

LEMMA SameLinks ==
  ASSUME links' = links, zombies' = zombies, NEW e, NEW s, NEW id
  PROVE  Elsewhere(e, s, id)
BY DEF Elsewhere

LEMMA UseKeepsL ==
  ASSUME StiacInv, NEW e \in Edges, NEW id \in Ids, Use(e, "local", id)
  PROVE  StiacInv'
<1> DEFINE L == Loc(e, id)
           g == L.n
           F2 == Forth(e, id) \union {<<"use", g>>}
<1>1. /\ May(e, "use") /\ Uses(e, "use") /\ state' = state /\ links' = links /\ zombies' = zombies
      /\ L.kind = "interface" /\ L.open
      /\ wire' = Sent(e, <<Msg("use", "remote", id, g)>>)
  BY DEF Use, Loc, Flip
<1>2. L # None BY <1>1 DEF None
<1>3. Conversation(e, id) /\ UsedOnly(e, id) /\ StiacType BY DEF StiacInv
<1>4. Counted /\ Later /\ Cancelled(e)' = Cancelled(e) BY <1>1, UsesFacts DEF Counts
<1>5. Works(e) BY <1>1 DEF May, Works
<1>6. Elsewhere(e, "local", id) BY <1>1, SameLinks
<1>7. Loc(e, id)' = L /\ LocZombie(e, id)' = LocZombie(e, id) BY <1>1 DEF Loc, LocZombie
<1>8. g \in Used(e)' BY <1>2, <1>3, <1>4 DEF UsedOnly, Later
<1>9. g \in Gens BY <1>8 DEF Used
<1>10. HearL(L, LocZombie(e, id), Back(e, id), Cancelled(e))
  BY <1>3, <1>5 DEF Conversation
<1>11. ASSUME Works(Peer(e))
       PROVE  /\ \A x \in Forth(e, id) : Before(x, <<"use", g>>)
              /\ HearR(Rem(e, id), RemZombie(e, id), F2)
              /\ Tie(L, LocZombie(e, id), Rem(e, id), RemZombie(e, id), F2, Back(e, id), Cancelled(e))
  <2>1. Terms(L, LocZombie(e, id), Rem(e, id), RemZombie(e, id), Forth(e, id), Back(e, id),
              Cancelled(e))
    BY <1>3, ConvType
  <2>2. HearR(Rem(e, id), RemZombie(e, id), Forth(e, id))
        /\ Tie(L, LocZombie(e, id), Rem(e, id), RemZombie(e, id), Forth(e, id), Back(e, id),
               Cancelled(e))
    BY <1>3, <1>5, <1>11 DEF Conversation
  <2>3. More(F2, Forth(e, id), "use", L.n) BY DEF More
  <2> HIDE DEF L, F2
  <2> QED BY <1>1, <1>2, <1>10, <2>1, <2>2, <2>3, UseSaysL
<1> HIDE DEF L, g, F2
<1>12. Talks'
  <2>1. HearL(Loc(e, id)', LocZombie(e, id)', Back(e, id), Cancelled(e)')
    BY <1>4, <1>7, <1>10
  <2>2. Works(Peer(e)) =>
          /\ \A x \in Forth(e, id) : Before(x, <<"use", g>>)
          /\ HearR(Rem(e, id), RemZombie(e, id), F2)
          /\ Tie(Loc(e, id)', LocZombie(e, id)', Rem(e, id), RemZombie(e, id), F2, Back(e, id),
                 Cancelled(e)')
    BY <1>4, <1>7, <1>11
  <2>3. Loc(e, id)' # None => Loc(e, id)'.n = g BY <1>7 DEF g
  <2>4. F2 = Forth(e, id) \union {<<"use", g>>} BY DEF F2
  <2> QED BY <1>1, <1>4, <1>6, <1>8, <1>9, <2>1, <2>2, <2>3, <2>4, MakerSpeaks DEF Ops
<1>13. \A c \in Edges : Bounded(c)'
  BY <1>1, <1>4, <1>6, LinkLess DEF Sides
<1>14. StiacType'
  BY <1>1, <1>3, <1>4, <1>12 DEF StiacType, Talks, Counted, Counts
<1> QED BY <1>12, <1>13, <1>14, Together

LEMMA UseKeepsR ==
  ASSUME StiacInv, NEW e \in Edges, NEW id \in Ids, Use(e, "remote", id)
  PROVE  StiacInv'
<1>1. PICK p \in Edges : p = Peer(e) /\ Peer(p) = e BY Peers
<1>2. StiacType /\ Conversation(p, id) /\ UsedOnly(p, id) BY DEF StiacInv
<1>3. PICK R \in Links : R = Rem(p, id) /\ R = links[e]["remote"][id]
  BY <1>1, <1>2 DEF StiacType, Rem, Sides
<1>4. R.kind = "interface" /\ R.open /\ R # None BY <1>3 DEF Use, None
<1>5. Works(e) BY DEF Use, May, Works
<1>6. PICK g \in Gens : g = R.n BY <1>4 DEF Links
<1>7. g \in Used(p) BY <1>2, <1>3, <1>4, <1>6 DEF UsedOnly
<1>8. Counted /\ Later /\ Cancelled(p)' = Cancelled(p)
  <2>1. May(e, "use") /\ Uses(e, "use") BY DEF Use
  <2> QED BY <2>1, UsesFacts DEF Counts
<1>9. Elsewhere(e, "remote", id) BY SameLinks DEF Use
<1>10. /\ Rem(p, id)' = R /\ RemZombie(p, id)' = RemZombie(p, id)
       /\ links'[e]["remote"][id] # None => links'[e]["remote"][id].kind = R.kind
  BY <1>1, <1>3 DEF Use, Rem, RemZombie
<1>11. links' \in [Edges -> [Sides -> [Ids -> Links]]] /\ zombies' \in [Edges -> [Sides -> SUBSET Ids]]
  BY <1>2 DEF Use, StiacType
<1> DEFINE B2 == Back(p, id) \union {<<"use", g>>}
<1>20. wire' = Sent(e, <<Msg("use", "local", id, g)>>)
  BY <1>3, <1>6 DEF Use, Flip
<1>21. state' = state BY DEF Use
<1>22. HearR(R, RemZombie(p, id), Forth(p, id))
  BY <1>1, <1>2, <1>3, <1>5 DEF Conversation
<1>23. Terms(Loc(p, id), LocZombie(p, id), R, RemZombie(p, id), Forth(p, id), Back(p, id),
             Cancelled(p))
  BY <1>2, <1>3, ConvType
<1>24. Works(p) => /\ HearL(Loc(p, id), LocZombie(p, id), Back(p, id), Cancelled(p))
                   /\ Tie(Loc(p, id), LocZombie(p, id), R, RemZombie(p, id), Forth(p, id),
                          Back(p, id), Cancelled(p))
  BY <1>1, <1>2, <1>3, <1>5 DEF Conversation
<1>25. More(B2, Back(p, id), "use", R.n) BY <1>6 DEF More
<1> HIDE DEF B2
<1>26. /\ HearR(R, RemZombie(p, id), Forth(p, id))
       /\ Works(p) =>
            /\ \A x \in Back(p, id) : Before(x, <<"use", R.n>>)
            /\ HearL(Loc(p, id), LocZombie(p, id), B2, Cancelled(p))
            /\ Tie(Loc(p, id), LocZombie(p, id), R, RemZombie(p, id), Forth(p, id), B2, Cancelled(p))
  BY <1>4, <1>22, <1>23, <1>24, <1>25, UseSaysR
<1>27. B2 = Back(p, id) \union {<<"use", g>>} BY DEF B2
<1>28. /\ HearR(Rem(p, id)', RemZombie(p, id)', Forth(p, id))
       /\ Works(p) =>
            /\ \A x \in Back(p, id) : Before(x, <<"use", g>>)
            /\ HearL(Loc(p, id), LocZombie(p, id), B2, Cancelled(p))
            /\ Tie(Loc(p, id), LocZombie(p, id), Rem(p, id)', RemZombie(p, id)', Forth(p, id), B2,
                   Cancelled(p))
  BY <1>6, <1>10, <1>24, <1>26
<1>29. Rem(p, id)' # None => Rem(p, id)'.n = g BY <1>6, <1>10
<1>30. "use" \in Ops BY DEF Ops
<1>31. Talks'
  BY <1>1, <1>7, <1>8, <1>9, <1>20, <1>21, <1>27, <1>28, <1>29, <1>30, OtherSpeaks
<1>32. \A c \in Edges : Bounded(c)'
  BY <1>3, <1>4, <1>8, <1>9, <1>10, <1>11, LinkLess DEF Sides
<1>33. StiacType'
  BY <1>2, <1>8, <1>11, <1>21, <1>31 DEF StiacType, Talks, Counted, Counts
<1> QED BY <1>31, <1>32, <1>33, Together

LEMMA UninvolveKeepsR ==
  ASSUME StiacInv, NEW e \in Edges, NEW id \in Ids, Uninvolve(e, "remote", id)
  PROVE  StiacInv'
<1>1. PICK p \in Edges : p = Peer(e) /\ Peer(p) = e BY Peers
<1>2. StiacType /\ Conversation(p, id) /\ UsedOnly(p, id) BY DEF StiacInv
<1>3. PICK R \in Links : R = Rem(p, id) /\ R = links[e]["remote"][id]
  BY <1>1, <1>2 DEF StiacType, Rem, Sides
<1>4. R.kind = "interface" /\ R.open /\ R # None BY <1>3 DEF Uninvolve, None
<1>5. Works(e) BY DEF Uninvolve, May, Works
<1>6. PICK g \in Gens : g = R.n BY <1>4 DEF Links
<1>7. g \in Used(p) BY <1>2, <1>3, <1>4, <1>6 DEF UsedOnly
<1>8. Counted /\ Later /\ Cancelled(p)' = Cancelled(p)
  <2>1. done' = done BY DEF Uninvolve
  <2> QED BY <2>1, NoUses DEF Cancelled
<1> DEFINE R2 == [R EXCEPT !.open = FALSE]
<1>12. /\ links' \in [Edges -> [Sides -> [Ids -> Links]]]
       /\ zombies' \in [Edges -> [Sides -> SUBSET Ids]]
       /\ links'[e]["remote"][id] = R2 /\ id \in zombies'[e]["remote"]
       /\ Elsewhere(e, "remote", id)
  <2>1. Begun(e, "remote", id) BY DEF Uninvolve
  <2>2. "remote" \in Sides /\ links[e]["remote"][id] # None BY <1>3, <1>4 DEF Sides
  <2> QED BY <1>2, <1>3, <2>1, <2>2, LinksBegun
<1>9. Elsewhere(e, "remote", id) BY <1>12
<1>13. R2.n = R.n /\ R2.kind = R.kind BY <1>4 DEF Links
<1> HIDE DEF R2
<1>10. /\ Rem(p, id)' = R2 /\ (RemZombie(p, id)' <=> TRUE) /\ R2.n = R.n
       /\ links'[e]["remote"][id] # None => links'[e]["remote"][id].kind = R.kind
  BY <1>1, <1>12, <1>13 DEF Rem, RemZombie
<1>11. links' \in [Edges -> [Sides -> [Ids -> Links]]] /\ zombies' \in [Edges -> [Sides -> SUBSET Ids]]
  BY <1>12
<1>14. Shut(R2, R) BY DEF R2, Shut
<1> DEFINE B2 == Back(p, id) \union {<<"begin", g>>}
<1>20. wire' = Sent(e, <<Msg("begin", "local", id, g)>>)
  BY <1>3, <1>6 DEF Uninvolve, Flip
<1>21. state' = state BY DEF Uninvolve
<1>22. HearR(R, RemZombie(p, id), Forth(p, id))
  BY <1>1, <1>2, <1>3, <1>5 DEF Conversation
<1>23. Terms(Loc(p, id), LocZombie(p, id), R, RemZombie(p, id), Forth(p, id), Back(p, id),
             Cancelled(p))
  BY <1>2, <1>3, ConvType
<1>24. Works(p) => /\ HearL(Loc(p, id), LocZombie(p, id), Back(p, id), Cancelled(p))
                   /\ Tie(Loc(p, id), LocZombie(p, id), R, RemZombie(p, id), Forth(p, id),
                          Back(p, id), Cancelled(p))
  BY <1>1, <1>2, <1>3, <1>5 DEF Conversation
<1>25. More(B2, Back(p, id), "begin", R.n) BY <1>6 DEF More
<1> HIDE DEF B2
<1>26. /\ HearR(R2, TRUE, Forth(p, id))
       /\ HearL(Loc(p, id), LocZombie(p, id), Back(p, id), Cancelled(p))
            /\ Tie(Loc(p, id), LocZombie(p, id), R, RemZombie(p, id), Forth(p, id), Back(p, id),
                   Cancelled(p)) =>
            /\ \A x \in Back(p, id) : Before(x, <<"begin", R.n>>)
            /\ HearL(Loc(p, id), LocZombie(p, id), B2, Cancelled(p))
            /\ Tie(Loc(p, id), LocZombie(p, id), R2, TRUE, Forth(p, id), B2, Cancelled(p))
  BY <1>4, <1>14, <1>22, <1>23, <1>25, UninvolveSaysR
<1>27. B2 = Back(p, id) \union {<<"begin", g>>} BY DEF B2
<1>28. /\ HearR(Rem(p, id)', RemZombie(p, id)', Forth(p, id))
       /\ Works(p) =>
            /\ \A x \in Back(p, id) : Before(x, <<"begin", g>>)
            /\ HearL(Loc(p, id), LocZombie(p, id), B2, Cancelled(p))
            /\ Tie(Loc(p, id), LocZombie(p, id), Rem(p, id)', RemZombie(p, id)', Forth(p, id), B2,
                   Cancelled(p))
  BY <1>6, <1>10, <1>24, <1>26
<1>29. Rem(p, id)' # None => Rem(p, id)'.n = g BY <1>6, <1>10
<1>30. "begin" \in Ops BY DEF Ops
<1>31. Talks'
  BY <1>1, <1>7, <1>8, <1>9, <1>20, <1>21, <1>27, <1>28, <1>29, <1>30, OtherSpeaks
<1>32. \A c \in Edges : Bounded(c)'
  BY <1>3, <1>4, <1>8, <1>9, <1>10, <1>11, LinkLess DEF Sides
<1>33. StiacType'
  BY <1>2, <1>8, <1>11, <1>21, <1>31 DEF StiacType, Talks, Counted, Counts
<1> QED BY <1>31, <1>32, <1>33, Together

LEMMA ResolveKeeps ==
  ASSUME StiacInv, NEW e \in Edges, NEW id \in Ids, Resolve(e, id)
  PROVE  StiacInv'
<1>1. PICK p \in Edges : p = Peer(e) /\ Peer(p) = e BY Peers
<1>2. StiacType /\ Conversation(p, id) /\ UsedOnly(p, id) BY DEF StiacInv
<1>3. PICK R \in Links : R = Rem(p, id) /\ R = links[e]["remote"][id]
  BY <1>1, <1>2 DEF StiacType, Rem, Sides
<1>4. R.kind = "future" /\ R.open /\ R # None BY <1>3 DEF Resolve, None
<1>5. Works(e) BY DEF Resolve, May, Works
<1>6. PICK g \in Gens : g = R.n BY <1>4 DEF Links
<1>7. g \in Used(p) BY <1>2, <1>3, <1>4, <1>6 DEF UsedOnly
<1>8. Counted /\ Later /\ Cancelled(p)' = Cancelled(p)
  <2>1. done' = done BY DEF Resolve
  <2> QED BY <2>1, NoUses DEF Cancelled
<1> DEFINE R2 == [R EXCEPT !.open = FALSE]
<1>12. /\ links' \in [Edges -> [Sides -> [Ids -> Links]]]
       /\ zombies' \in [Edges -> [Sides -> SUBSET Ids]]
       /\ links'[e]["remote"][id] = R2 /\ id \in zombies'[e]["remote"]
       /\ Elsewhere(e, "remote", id)
  <2>1. Begun(e, "remote", id) BY DEF Resolve
  <2>2. "remote" \in Sides /\ links[e]["remote"][id] # None BY <1>3, <1>4 DEF Sides
  <2> QED BY <1>2, <1>3, <2>1, <2>2, LinksBegun
<1>9. Elsewhere(e, "remote", id) BY <1>12
<1>13. R2.n = R.n /\ R2.kind = R.kind BY <1>4 DEF Links
<1> HIDE DEF R2
<1>10. /\ Rem(p, id)' = R2 /\ (RemZombie(p, id)' <=> TRUE) /\ R2.n = R.n
       /\ links'[e]["remote"][id] # None => links'[e]["remote"][id].kind = R.kind
  BY <1>1, <1>12, <1>13 DEF Rem, RemZombie
<1>11. links' \in [Edges -> [Sides -> [Ids -> Links]]] /\ zombies' \in [Edges -> [Sides -> SUBSET Ids]]
  BY <1>12
<1>14. Shut(R2, R) BY DEF R2, Shut
<1> DEFINE B2 == Back(p, id) \union {<<"answer", g>>}
<1>20. wire' = Sent(e, <<Msg("answer", "local", id, g)>>)
  BY <1>3, <1>6 DEF Resolve, Flip
<1>21. state' = state BY DEF Resolve
<1>22. HearR(R, RemZombie(p, id), Forth(p, id))
  BY <1>1, <1>2, <1>3, <1>5 DEF Conversation
<1>23. Terms(Loc(p, id), LocZombie(p, id), R, RemZombie(p, id), Forth(p, id), Back(p, id),
             Cancelled(p))
  BY <1>2, <1>3, ConvType
<1>24. Works(p) => /\ HearL(Loc(p, id), LocZombie(p, id), Back(p, id), Cancelled(p))
                   /\ Tie(Loc(p, id), LocZombie(p, id), R, RemZombie(p, id), Forth(p, id),
                          Back(p, id), Cancelled(p))
  BY <1>1, <1>2, <1>3, <1>5 DEF Conversation
<1>25. More(B2, Back(p, id), "answer", R.n) BY <1>6 DEF More
<1> HIDE DEF B2
<1>26. /\ HearR(R2, TRUE, Forth(p, id))
       /\ HearL(Loc(p, id), LocZombie(p, id), Back(p, id), Cancelled(p))
            /\ Tie(Loc(p, id), LocZombie(p, id), R, RemZombie(p, id), Forth(p, id), Back(p, id),
                   Cancelled(p)) =>
            /\ \A x \in Back(p, id) : Before(x, <<"answer", R.n>>)
            /\ HearL(Loc(p, id), LocZombie(p, id), B2, Cancelled(p))
            /\ Tie(Loc(p, id), LocZombie(p, id), R2, TRUE, Forth(p, id), B2, Cancelled(p))
  BY <1>4, <1>14, <1>22, <1>23, <1>25, ResolveSays
<1>27. B2 = Back(p, id) \union {<<"answer", g>>} BY DEF B2
<1>28. /\ HearR(Rem(p, id)', RemZombie(p, id)', Forth(p, id))
       /\ Works(p) =>
            /\ \A x \in Back(p, id) : Before(x, <<"answer", g>>)
            /\ HearL(Loc(p, id), LocZombie(p, id), B2, Cancelled(p))
            /\ Tie(Loc(p, id), LocZombie(p, id), Rem(p, id)', RemZombie(p, id)', Forth(p, id), B2,
                   Cancelled(p))
  BY <1>6, <1>10, <1>24, <1>26
<1>29. Rem(p, id)' # None => Rem(p, id)'.n = g BY <1>6, <1>10
<1>30. "answer" \in Ops BY DEF Ops
<1>31. Talks'
  BY <1>1, <1>7, <1>8, <1>9, <1>20, <1>21, <1>27, <1>28, <1>29, <1>30, OtherSpeaks
<1>32. \A c \in Edges : Bounded(c)'
  BY <1>3, <1>4, <1>8, <1>9, <1>10, <1>11, LinkLess DEF Sides
<1>33. StiacType'
  BY <1>2, <1>8, <1>11, <1>21, <1>31 DEF StiacType, Talks, Counted, Counts
<1> QED BY <1>31, <1>32, <1>33, Together

LEMMA UninvolveKeepsL ==
  ASSUME Restrained, StiacInv, NEW e \in Edges, NEW id \in Ids, Uninvolve(e, "local", id)
  PROVE  StiacInv'
<1>1. PICK L \in Links : L = Loc(e, id) /\ L = links[e]["local"][id]
  BY DEF StiacInv, StiacType, Loc, Sides
<1>2. StiacType /\ Conversation(e, id) /\ UsedOnly(e, id) BY DEF StiacInv
<1>3. L.kind = "interface" /\ L.open /\ L # None BY <1>1 DEF Uninvolve, None
<1>4. Works(e) BY DEF Uninvolve, May, Works
<1>5. PICK g \in Gens : g = L.n BY <1>3 DEF Links
<1>6. g \in Used(e) BY <1>1, <1>2, <1>3, <1>5 DEF UsedOnly
<1>7. Counted /\ Later /\ ~Cancelled(e) /\ Cancelled(e)' = Cancelled(e)
  <2>1. done' = done BY DEF Uninvolve
  <2>2. ~Cancelled(e)
    <3>1. Quota[e]["put"] > 0 /\ done[e]["cancel"] <= Quota[e]["cancel"]
      BY <1>1, <1>3 DEF StiacInv, Bounded
    <3>2. Quota[e]["cancel"] = 0 BY <3>1, QuotaNat DEF Restrained
    <3>3. done[e]["cancel"] \in Nat BY <1>2 DEF StiacType
    <3> QED BY <3>1, <3>2, <3>3 DEF Cancelled
  <2> QED BY <2>1, <2>2, NoUses DEF Cancelled
<1>8. g \in Used(e)' BY <1>6, <1>7 DEF Later
<1> DEFINE L2 == [L EXCEPT !.open = FALSE]
           F2 == Forth(e, id) \union {<<"begin", g>>}
<1>9. /\ links' \in [Edges -> [Sides -> [Ids -> Links]]]
      /\ zombies' \in [Edges -> [Sides -> SUBSET Ids]]
      /\ links'[e]["local"][id] = L2 /\ id \in zombies'[e]["local"]
      /\ Elsewhere(e, "local", id)
  <2>1. Begun(e, "local", id) BY DEF Uninvolve
  <2>2. "local" \in Sides /\ links[e]["local"][id] # None BY <1>1, <1>3 DEF Sides
  <2> QED BY <1>1, <1>2, <2>1, <2>2, LinksBegun
<1>10. L2.n = L.n /\ L2.kind = L.kind BY <1>3 DEF Links
<1>11. Shut(L2, L) /\ More(F2, Forth(e, id), "begin", L.n) BY <1>5 DEF Shut, More
<1>12. F2 = Forth(e, id) \union {<<"begin", g>>} OBVIOUS
<1> HIDE DEF L2, F2
<1>13. /\ Loc(e, id)' = L2 /\ (LocZombie(e, id)' <=> TRUE)
       /\ links'[e]["local"][id] # None => links'[e]["local"][id].kind = L.kind
       /\ Loc(e, id)' # None => Loc(e, id)'.n = g
  BY <1>5, <1>9, <1>10 DEF Loc, LocZombie
<1>14. wire' = Sent(e, <<Msg("begin", "remote", id, g)>>)
  BY <1>1, <1>5 DEF Uninvolve, Flip
<1>15. state' = state BY DEF Uninvolve
<1>16. HearL(L, LocZombie(e, id), Back(e, id), Cancelled(e))
  BY <1>1, <1>2, <1>4 DEF Conversation
<1>17. Terms(L, LocZombie(e, id), Rem(e, id), RemZombie(e, id), Forth(e, id), Back(e, id),
             Cancelled(e))
  BY <1>1, <1>2, ConvType
<1>18. /\ HearL(L2, TRUE, Back(e, id), Cancelled(e))
       /\ HearR(Rem(e, id), RemZombie(e, id), Forth(e, id))
            /\ Tie(L, LocZombie(e, id), Rem(e, id), RemZombie(e, id), Forth(e, id), Back(e, id),
                   Cancelled(e)) =>
            /\ \A x \in Forth(e, id) : Before(x, <<"begin", L.n>>)
            /\ HearR(Rem(e, id), RemZombie(e, id), F2)
            /\ Tie(L2, TRUE, Rem(e, id), RemZombie(e, id), F2, Back(e, id), Cancelled(e))
  BY <1>3, <1>7, <1>11, <1>16, <1>17, UninvolveSaysL
<1>19. Works(Peer(e)) =>
         HearR(Rem(e, id), RemZombie(e, id), Forth(e, id))
           /\ Tie(L, LocZombie(e, id), Rem(e, id), RemZombie(e, id), Forth(e, id), Back(e, id),
                  Cancelled(e))
  BY <1>1, <1>2, <1>4 DEF Conversation
<1>20. /\ HearL(Loc(e, id)', LocZombie(e, id)', Back(e, id), Cancelled(e)')
       /\ Works(Peer(e)) =>
            /\ \A x \in Forth(e, id) : Before(x, <<"begin", g>>)
            /\ HearR(Rem(e, id), RemZombie(e, id), F2)
            /\ Tie(Loc(e, id)', LocZombie(e, id)', Rem(e, id), RemZombie(e, id), F2, Back(e, id),
                   Cancelled(e)')
  BY <1>5, <1>7, <1>13, <1>18, <1>19
<1>21. "begin" \in Ops BY DEF Ops
<1>22. Talks'
  BY <1>7, <1>8, <1>9, <1>12, <1>13, <1>14, <1>15, <1>20, <1>21, MakerSpeaks
<1>23. \A c \in Edges : Bounded(c)'
  BY <1>1, <1>3, <1>7, <1>9, <1>13, LinkLess DEF Sides
<1>24. StiacType'
  BY <1>2, <1>7, <1>9, <1>15, <1>22 DEF StiacType, Talks, Counted, Counts
<1> QED BY <1>22, <1>23, <1>24, Together

LEMMA CancelKeeps ==
  ASSUME Restrained, StiacInv, NEW e \in Edges, NEW id \in Ids, Cancel(e, id)
  PROVE  StiacInv'
<1>1. PICK L \in Links : L = Loc(e, id) /\ L = links[e]["local"][id]
  BY DEF StiacInv, StiacType, Loc, Sides
<1>2. StiacType /\ Conversation(e, id) /\ UsedOnly(e, id) BY DEF StiacInv
<1>3. L.kind = "promise" /\ L.open /\ L # None BY <1>1 DEF Cancel, None
<1>4. Works(e) BY DEF Cancel, May, Works
<1>5. PICK g \in Gens : g = L.n BY <1>3 DEF Links
<1>6. g \in Used(e) BY <1>1, <1>2, <1>3, <1>5 DEF UsedOnly
<1>7. Counted /\ Later /\ ~Cancelled(e) /\ (Cancelled(e)' <=> TRUE)
  <2>1. May(e, "cancel") /\ Uses(e, "cancel") BY DEF Cancel
  <2>2. Counted /\ Later /\ done'[e]["cancel"] = done[e]["cancel"] + 1
    BY <2>1, UsesFacts DEF Counts
  <2>3. done[e]["cancel"] \in Nat /\ Quota[e]["cancel"] \in Nat BY <1>2, QuotaNat DEF StiacType
  <2>4. done[e]["cancel"] < Quota[e]["cancel"] /\ Quota[e]["cancel"] \in {0, 1}
    BY <2>1 DEF May, Restrained
  <2> QED BY <2>2, <2>3, <2>4 DEF Cancelled
<1>8. g \in Used(e)' BY <1>6, <1>7 DEF Later
<1> DEFINE L2 == [L EXCEPT !.open = FALSE]
           F2 == Forth(e, id) \union {<<"cancel", g>>}
<1>9. /\ links' \in [Edges -> [Sides -> [Ids -> Links]]]
      /\ zombies' \in [Edges -> [Sides -> SUBSET Ids]]
      /\ links'[e]["local"][id] = L2 /\ id \in zombies'[e]["local"]
      /\ Elsewhere(e, "local", id)
  <2>1. Begun(e, "local", id) BY DEF Cancel
  <2>2. "local" \in Sides /\ links[e]["local"][id] # None BY <1>1, <1>3 DEF Sides
  <2> QED BY <1>1, <1>2, <2>1, <2>2, LinksBegun
<1>10. L2.n = L.n /\ L2.kind = L.kind BY <1>3 DEF Links
<1>11. Shut(L2, L) /\ More(F2, Forth(e, id), "cancel", L.n) BY <1>5 DEF Shut, More
<1>12. F2 = Forth(e, id) \union {<<"cancel", g>>} OBVIOUS
<1> HIDE DEF L2, F2
<1>13. /\ Loc(e, id)' = L2 /\ (LocZombie(e, id)' <=> TRUE)
       /\ links'[e]["local"][id] # None => links'[e]["local"][id].kind = L.kind
       /\ Loc(e, id)' # None => Loc(e, id)'.n = g
  BY <1>5, <1>9, <1>10 DEF Loc, LocZombie
<1>14. wire' = Sent(e, <<Msg("cancel", "remote", id, g)>>)
  BY <1>1, <1>5 DEF Cancel, Flip
<1>15. state' = state BY DEF Cancel
<1>16. HearL(L, LocZombie(e, id), Back(e, id), Cancelled(e))
  BY <1>1, <1>2, <1>4 DEF Conversation
<1>17. Terms(L, LocZombie(e, id), Rem(e, id), RemZombie(e, id), Forth(e, id), Back(e, id),
             Cancelled(e))
  BY <1>1, <1>2, ConvType
<1>18. /\ HearL(L2, TRUE, Back(e, id), TRUE)
       /\ HearR(Rem(e, id), RemZombie(e, id), Forth(e, id))
            /\ Tie(L, LocZombie(e, id), Rem(e, id), RemZombie(e, id), Forth(e, id), Back(e, id),
                   Cancelled(e)) =>
            /\ \A x \in Forth(e, id) : Before(x, <<"cancel", L.n>>)
            /\ HearR(Rem(e, id), RemZombie(e, id), F2)
            /\ Tie(L2, TRUE, Rem(e, id), RemZombie(e, id), F2, Back(e, id), TRUE)
  BY <1>3, <1>7, <1>11, <1>16, <1>17, CancelSays
<1>19. Works(Peer(e)) =>
         HearR(Rem(e, id), RemZombie(e, id), Forth(e, id))
           /\ Tie(L, LocZombie(e, id), Rem(e, id), RemZombie(e, id), Forth(e, id), Back(e, id),
                  Cancelled(e))
  BY <1>1, <1>2, <1>4 DEF Conversation
<1>20. /\ HearL(Loc(e, id)', LocZombie(e, id)', Back(e, id), Cancelled(e)')
       /\ Works(Peer(e)) =>
            /\ \A x \in Forth(e, id) : Before(x, <<"cancel", g>>)
            /\ HearR(Rem(e, id), RemZombie(e, id), F2)
            /\ Tie(Loc(e, id)', LocZombie(e, id)', Rem(e, id), RemZombie(e, id), F2, Back(e, id),
                   Cancelled(e)')
  BY <1>5, <1>7, <1>13, <1>18, <1>19
<1>21. "cancel" \in Ops BY DEF Ops
<1>22. Talks'
  BY <1>7, <1>8, <1>9, <1>12, <1>13, <1>14, <1>15, <1>20, <1>21, MakerSpeaks
<1>23. \A c \in Edges : Bounded(c)'
  BY <1>1, <1>3, <1>7, <1>9, <1>13, LinkLess DEF Sides
<1>24. StiacType'
  BY <1>2, <1>7, <1>9, <1>15, <1>22 DEF StiacType, Talks, Counted, Counts
<1> QED BY <1>22, <1>23, <1>24, Together

LEMMA InputKept ==
  ASSUME StiacInv, Talks', state' = state, done' = done,
         links' \in [Edges -> [Sides -> [Ids -> Links]]],
         zombies' \in [Edges -> [Sides -> SUBSET Ids]],
         NEW e \in Edges, NEW s \in Sides, NEW id \in Ids, Elsewhere(e, s, id),
         s = "remote" \/ links'[e][s][id] = None \/ links'[e][s][id] = links[e][s][id]
  PROVE  StiacInv'
<1>1. Counted BY NoUses
<1>2. \A c \in Edges : Bounded(c)' BY <1>1, LinkLess
<1>3. StiacType' BY DEF StiacInv, StiacType, Talks
<1> QED BY <1>2, <1>3, Together

LEMMA Silent ==
  ASSUME StiacInv, NEW e \in Edges, wire[e] # <<>>, NEW m, m = Head(wire[e]),
         wire' = [wire EXCEPT ![e] = Tail(@)]
  PROVE  Replied(wire', e, m, FALSE)
<1>1. Sent(e, <<>>) = wire BY SentNothing
<1>2. wire' = [Sent(e, IF FALSE THEN <<Msg("end", Flip(m.side), m.id, m.n)>> ELSE <<>>)
                 EXCEPT ![e] = Tail(@)]
  BY <1>1
<1> QED BY <1>2, Heard

(* The next message, by the side it names.                                   *)
LEMMA HearsR ==
  ASSUME StiacInv, NEW e \in Edges, Works(e), wire[e] # <<>>, NEW m, m = Head(wire[e]),
         m.side = "remote", NEW p \in Edges, p = Peer(e), NEW id, id = m.id
  PROVE  /\ m \in Messages /\ id \in Ids
         /\ Terms(Loc(p, id), LocZombie(p, id), Rem(p, id), RemZombie(p, id), Forth(p, id),
                  Back(p, id), Cancelled(p))
         /\ HearR(Rem(p, id), RemZombie(p, id), Forth(p, id))
         /\ Works(p) => /\ HearL(Loc(p, id), LocZombie(p, id), Back(p, id), Cancelled(p))
                        /\ Tie(Loc(p, id), LocZombie(p, id), Rem(p, id), RemZombie(p, id),
                               Forth(p, id), Back(p, id), Cancelled(p))
         /\ Taken(Forth(p, id), Said(Tail(wire[e]), "remote", id), m.op, m.n)
         /\ m.op \in New \union {"use", "begin", "cancel", "end"}
         /\ m.op \in New => m.n[1] = m.op
         /\ m.n \in Used(p)
<1>1. Peer(p) = e BY Peers
<1>2. wire[e] \in Seq(Messages) /\ Ordered(wire[e]) /\ StiacType BY DEF StiacInv, StiacType
<1>3. Popped(wire[e], Tail(wire[e]), m) BY <1>2, SaidLess
<1>4. m \in Messages /\ id \in Ids /\ m.n \in Gens BY <1>3 DEF Popped, Messages
<1>5. Forth(p, id) = Said(wire[e], "remote", id) BY <1>1 DEF Forth
<1>6. Taken(Forth(p, id), Said(Tail(wire[e]), "remote", id), m.op, m.n)
  BY <1>2, <1>3, <1>4, <1>5 DEF Popped, Taken
<1>7. Conversation(p, id) /\ UsedOnly(p, id) BY <1>4 DEF StiacInv
<1>8. HearR(Rem(p, id), RemZombie(p, id), Forth(p, id)) BY <1>1, <1>7 DEF Conversation
<1>9. /\ m.op \in New \union {"use", "begin", "cancel", "end"}
      /\ m.op \in New => m.n[1] = m.op
      /\ m.n \in Used(p)
  <2> DEFINE x == <<m.op, m.n>>
  <2>1. x \in Forth(p, id) /\ x[1] = m.op /\ x[2] = m.n BY <1>6 DEF Taken
  <2> HIDE DEF x
  <2>2. /\ \/ x[1] \in New /\ x[2][1] = x[1]
           \/ x[1] \in {"use", "begin"} /\ x[2][1] = "put"
           \/ x[1] = "cancel" /\ x[2][1] = "call"
           \/ x[1] = "end"
    BY <1>8, <2>1 DEF HearR
  <2>3. x[2] \in Used(p) BY <1>7, <2>1 DEF UsedOnly
  <2>4. m.op \in New \union {"use", "begin", "cancel", "end"} BY <2>1, <2>2
  <2>5. m.op \in New => m.n[1] = m.op BY <2>1, <2>2 DEF New
  <2> QED BY <2>1, <2>3, <2>4, <2>5
<1>10. Terms(Loc(p, id), LocZombie(p, id), Rem(p, id), RemZombie(p, id), Forth(p, id),
             Back(p, id), Cancelled(p))
  BY <1>2, <1>4, ConvType
<1>11. Works(p) => /\ HearL(Loc(p, id), LocZombie(p, id), Back(p, id), Cancelled(p))
                   /\ Tie(Loc(p, id), LocZombie(p, id), Rem(p, id), RemZombie(p, id),
                          Forth(p, id), Back(p, id), Cancelled(p))
  BY <1>1, <1>7 DEF Conversation
<1> QED BY <1>4, <1>6, <1>8, <1>9, <1>10, <1>11

LEMMA HearsL ==
  ASSUME StiacInv, NEW e \in Edges, Works(e), wire[e] # <<>>, NEW m, m = Head(wire[e]),
         m.side = "local", NEW id, id = m.id
  PROVE  /\ m \in Messages /\ id \in Ids
         /\ Terms(Loc(e, id), LocZombie(e, id), Rem(e, id), RemZombie(e, id), Forth(e, id),
                  Back(e, id), Cancelled(e))
         /\ HearL(Loc(e, id), LocZombie(e, id), Back(e, id), Cancelled(e))
         /\ Works(Peer(e)) => /\ HearR(Rem(e, id), RemZombie(e, id), Forth(e, id))
                              /\ Tie(Loc(e, id), LocZombie(e, id), Rem(e, id), RemZombie(e, id),
                                     Forth(e, id), Back(e, id), Cancelled(e))
         /\ Taken(Back(e, id), Said(Tail(wire[e]), "local", id), m.op, m.n)
         /\ m.op \in {"use", "begin", "answer", "end"}
<1>2. wire[e] \in Seq(Messages) /\ Ordered(wire[e]) /\ StiacType BY DEF StiacInv, StiacType
<1>3. Popped(wire[e], Tail(wire[e]), m) BY <1>2, SaidLess
<1>4. m \in Messages /\ id \in Ids /\ m.n \in Gens BY <1>3 DEF Popped, Messages
<1>6. Taken(Back(e, id), Said(Tail(wire[e]), "local", id), m.op, m.n)
  BY <1>2, <1>3, <1>4 DEF Popped, Taken, Back
<1>7. Conversation(e, id) /\ UsedOnly(e, id) BY <1>4 DEF StiacInv
<1>8. HearL(Loc(e, id), LocZombie(e, id), Back(e, id), Cancelled(e)) BY <1>7 DEF Conversation
<1>9. m.op \in {"use", "begin", "answer", "end"}
  <2> DEFINE x == <<m.op, m.n>>
  <2>1. x \in Back(e, id) /\ x[1] = m.op BY <1>6 DEF Taken
  <2> HIDE DEF x
  <2> QED BY <1>8, <2>1 DEF HearL
<1>10. Terms(Loc(e, id), LocZombie(e, id), Rem(e, id), RemZombie(e, id), Forth(e, id),
             Back(e, id), Cancelled(e))
  BY <1>2, <1>4, ConvType
<1>11. Works(Peer(e)) => /\ HearR(Rem(e, id), RemZombie(e, id), Forth(e, id))
                         /\ Tie(Loc(e, id), LocZombie(e, id), Rem(e, id), RemZombie(e, id),
                                Forth(e, id), Back(e, id), Cancelled(e))
  BY <1>7 DEF Conversation
<1> QED BY <1>4, <1>6, <1>8, <1>9, <1>10, <1>11

LEMMA NextMessage ==
  ASSUME StiacInv, NEW e \in Edges, wire[e] # <<>>
  PROVE  Head(wire[e]).id \in Ids /\ Head(wire[e]).side \in Sides
<1>1. wire[e] \in Seq(Messages) BY DEF StiacInv, StiacType
<1>2. Head(wire[e]) \in Messages BY <1>1
<1> QED BY <1>2 DEF Messages

LEMMA NewKeeps ==
  ASSUME StiacInv, NEW e \in Edges, Works(e), wire[e] # <<>>, NEW m, m = Head(wire[e]),
         m.op \in New, InputNew(e, m), done' = done
  PROVE  StiacInv'
<1>1. PICK p \in Edges : p = Peer(e) /\ Peer(p) = e BY Peers
<1>2. PICK id \in Ids : id = m.id BY NextMessage
<1>3. m.side = "remote"
  <2>1. m.side \in Sides BY NextMessage
  <2>2. m.side = "local" => m.op \in {"use", "begin", "answer", "end"} BY <1>2, HearsL
  <2> QED BY <2>1, <2>2 DEF Sides, New
<1> DEFINE F2 == Said(Tail(wire[e]), "remote", id)
<1>4. StiacType BY DEF StiacInv
<1>5. /\ Terms(Loc(p, id), LocZombie(p, id), Rem(p, id), RemZombie(p, id), Forth(p, id),
               Back(p, id), Cancelled(p))
      /\ HearR(Rem(p, id), RemZombie(p, id), Forth(p, id))
      /\ Taken(Forth(p, id), F2, m.op, m.n)
      /\ m.n \in Used(p)
  BY <1>1, <1>2, <1>3, HearsR
<1>6. Works(p) => /\ HearL(Loc(p, id), LocZombie(p, id), Back(p, id), Cancelled(p))
                  /\ Tie(Loc(p, id), LocZombie(p, id), Rem(p, id), RemZombie(p, id),
                         Forth(p, id), Back(p, id), Cancelled(p))
  BY <1>1, <1>2, <1>3, HearsR
<1>7. Rem(p, id) = links[e]["remote"][id] /\ RemZombie(p, id) = (id \in zombies[e]["remote"])
  BY <1>1 DEF Rem, RemZombie
<1>8. m.n[1] = m.op /\ m.n \in Gens BY <1>1, <1>2, <1>3, <1>5, HearsR DEF Taken
<1>9. PICK X \in Links :
        /\ X = Loaded(IF m.op = "put" THEN "interface" ELSE "future", m.n)
        /\ NewLink(X, m.n, "future")
  <2> DEFINE Y == Loaded(IF m.op = "put" THEN "interface" ELSE "future", m.n)
  <2>1. Y \in Links BY <1>8 DEF Loaded, Link, Links
  <2>2. NewLink(Y, m.n, "future") BY <1>8, <2>1 DEF NewLink, Formed, Loaded, Link, None
  <2> HIDE DEF Y
  <2> QED BY <2>1, <2>2 DEF Y
<1> HIDE DEF F2
<1>10. /\ Rem(p, id) = None
       /\ HearR(X, RemZombie(p, id), F2)
       /\ Tie(Loc(p, id), LocZombie(p, id), Rem(p, id), RemZombie(p, id), Forth(p, id), Back(p, id),
              Cancelled(p)) =>
          Tie(Loc(p, id), LocZombie(p, id), X, RemZombie(p, id), F2, Back(p, id), Cancelled(p))
  BY <1>5, <1>9, HearNew
<1>11. ~Has(e, "remote", m.id) BY <1>2, <1>7, <1>10 DEF Has
<1>12. /\ links' = [links EXCEPT ![e]["remote"][id] = X] /\ zombies' = zombies
  BY <1>2, <1>9, <1>11 DEF InputNew
<1>20. state' = state BY <1>11 DEF InputNew
<1>21. /\ links' \in [Edges -> [Sides -> [Ids -> Links]]]
       /\ zombies' \in [Edges -> [Sides -> SUBSET Ids]]
       /\ links'[e]["remote"][id] = X /\ zombies'[e]["remote"] = zombies[e]["remote"]
       /\ Elsewhere(e, "remote", id)
  <2>1. zombies' \in [Edges -> [Sides -> SUBSET Ids]] /\ zombies'[e]["remote"] = zombies[e]["remote"]
    BY <1>4, <1>12 DEF StiacType
  <2> QED BY <1>4, <1>12, <2>1, LinksMade DEF Sides
<1>23. Rem(p, id)' = X /\ RemZombie(p, id)' = RemZombie(p, id)
  BY <1>1, <1>7, <1>21 DEF Rem, RemZombie
<1>24. Replied(wire', e, m, FALSE) BY Silent DEF InputNew
<1>25. Rem(p, id)' # None => Rem(p, id)'.n \in Used(p) BY <1>5, <1>9, <1>23 DEF NewLink
<1>26. F2 = Said(Tail(wire[e]), "remote", id) BY DEF F2
<1>27. HearR(Rem(p, id)', RemZombie(p, id)', F2) BY <1>10, <1>23
<1>28. Works(p) => /\ HearL(Loc(p, id), LocZombie(p, id), Back(p, id), Cancelled(p))
                   /\ Tie(Loc(p, id), LocZombie(p, id), Rem(p, id)', RemZombie(p, id)', F2,
                          Back(p, id), Cancelled(p))
  BY <1>6, <1>10, <1>23
<1>30. Talks'
  BY <1>1, <1>2, <1>3, <1>20, <1>21, <1>24, <1>25, <1>26, <1>27, <1>28, OtherHears
<1> QED BY <1>20, <1>21, <1>30, InputKept DEF Sides

(* What a message of the peer does, one lemma for each.                      *)
LEMMA UseHeardR ==
  ASSUME StiacInv, NEW e \in Edges, Works(e), wire[e] # <<>>, NEW m, m = Head(wire[e]),
         m.op = "use", m.side = "remote", InputUse(e, m), done' = done
  PROVE  StiacInv'
<1>1. PICK p \in Edges : p = Peer(e) /\ Peer(p) = e BY Peers
<1>2. PICK id \in Ids : id = m.id BY NextMessage
<1>3. m.side = "remote" OBVIOUS
<1> DEFINE F2 == Said(Tail(wire[e]), "remote", id)
<1>4. StiacType BY DEF StiacInv
<1>5. /\ Terms(Loc(p, id), LocZombie(p, id), Rem(p, id), RemZombie(p, id), Forth(p, id),
               Back(p, id), Cancelled(p))
      /\ HearR(Rem(p, id), RemZombie(p, id), Forth(p, id))
      /\ Taken(Forth(p, id), F2, "use", m.n)
      /\ m.n \in Used(p)
  BY <1>1, <1>2, <1>3, HearsR
<1>6. Works(p) => /\ HearL(Loc(p, id), LocZombie(p, id), Back(p, id), Cancelled(p))
                  /\ Tie(Loc(p, id), LocZombie(p, id), Rem(p, id), RemZombie(p, id),
                         Forth(p, id), Back(p, id), Cancelled(p))
  BY <1>1, <1>2, <1>3, HearsR
<1>7. Rem(p, id) = links[e]["remote"][id] /\ RemZombie(p, id) = (id \in zombies[e]["remote"])
  BY <1>1 DEF Rem, RemZombie
<1> HIDE DEF F2
<1> DEFINE B2 == Back(p, id)
<1>10. /\ Rem(p, id) # None /\ Rem(p, id).n = m.n /\ Rem(p, id).kind = "interface"
       /\ HearR(Rem(p, id), RemZombie(p, id), F2)
       /\ Tie(Loc(p, id), LocZombie(p, id), Rem(p, id), RemZombie(p, id), Forth(p, id), Back(p, id),
              Cancelled(p)) =>
          Tie(Loc(p, id), LocZombie(p, id), Rem(p, id), RemZombie(p, id), F2, Back(p, id),
              Cancelled(p))
  BY <1>5, HearUseR
<1>12. links' = links /\ zombies' = zombies /\ state' = state
  BY <1>2, <1>3, <1>7, <1>10 DEF InputUse
<1>20. state' = state BY <1>12
<1>21. /\ links' \in [Edges -> [Sides -> [Ids -> Links]]]
       /\ zombies' \in [Edges -> [Sides -> SUBSET Ids]]
       /\ Elsewhere(e, "remote", id)
  BY <1>4, <1>12, SameLinks DEF StiacType
<1>23. Rem(p, id)' = Rem(p, id) /\ RemZombie(p, id)' = RemZombie(p, id)
  BY <1>12 DEF Rem, RemZombie
<1>24. Replied(wire', e, m, FALSE) BY Silent DEF InputUse
<1>29. B2 = IF FALSE THEN Back(p, id) \union {<<"end", m.n>>} ELSE Back(p, id) OBVIOUS
<1>25. Rem(p, id)' # None => Rem(p, id)'.n \in Used(p) BY <1>5, <1>10, <1>23
<1>26. F2 = Said(Tail(wire[e]), "remote", id) BY DEF F2
<1>27. HearR(Rem(p, id)', RemZombie(p, id)', F2) BY <1>10, <1>23
<1>28. Works(p) => /\ HearL(Loc(p, id), LocZombie(p, id), B2, Cancelled(p))
                   /\ Tie(Loc(p, id), LocZombie(p, id), Rem(p, id)', RemZombie(p, id)', F2,
                          B2, Cancelled(p))
  BY <1>6, <1>10, <1>23
<1>30. Talks'
  BY <1>1, <1>2, <1>3, <1>20, <1>21, <1>24, <1>25, <1>26, <1>27, <1>28, <1>29, OtherHears
<1> QED BY <1>20, <1>21, <1>30, InputKept DEF Sides

LEMMA CancelHeard ==
  ASSUME StiacInv, NEW e \in Edges, Works(e), wire[e] # <<>>, NEW m, m = Head(wire[e]),
         m.op = "cancel", InputLast(e, m), done' = done
  PROVE  StiacInv'
<1>1. PICK p \in Edges : p = Peer(e) /\ Peer(p) = e BY Peers
<1>2. PICK id \in Ids : id = m.id BY NextMessage
<1>3. m.side = "remote"
  <2>1. m.side \in Sides BY NextMessage
  <2>2. m.side = "local" => m.op \in {"use", "begin", "answer", "end"} BY <1>2, HearsL
  <2> QED BY <2>1, <2>2 DEF Sides
<1> DEFINE F2 == Said(Tail(wire[e]), "remote", id)
<1>4. StiacType BY DEF StiacInv
<1>5. /\ Terms(Loc(p, id), LocZombie(p, id), Rem(p, id), RemZombie(p, id), Forth(p, id),
               Back(p, id), Cancelled(p))
      /\ HearR(Rem(p, id), RemZombie(p, id), Forth(p, id))
      /\ Taken(Forth(p, id), F2, "cancel", m.n)
      /\ m.n \in Used(p)
  BY <1>1, <1>2, <1>3, HearsR
<1>6. Works(p) => /\ HearL(Loc(p, id), LocZombie(p, id), Back(p, id), Cancelled(p))
                  /\ Tie(Loc(p, id), LocZombie(p, id), Rem(p, id), RemZombie(p, id),
                         Forth(p, id), Back(p, id), Cancelled(p))
  BY <1>1, <1>2, <1>3, HearsR
<1>7. Rem(p, id) = links[e]["remote"][id] /\ RemZombie(p, id) = (id \in zombies[e]["remote"])
  BY <1>1 DEF Rem, RemZombie
<1> DEFINE B2 == Back(p, id) \union {<<"end", m.n>>}
<1>8. More(B2, Back(p, id), "end", m.n) BY DEF More
<1>29. B2 = IF TRUE THEN Back(p, id) \union {<<"end", m.n>>} ELSE Back(p, id) OBVIOUS
<1> HIDE DEF F2, B2
<1>10. /\ Rem(p, id) # None /\ Rem(p, id).n = m.n /\ Rem(p, id).kind = "future"
       /\ HearR(None, FALSE, F2)
       /\ HearL(Loc(p, id), LocZombie(p, id), Back(p, id), Cancelled(p))
            /\ Tie(Loc(p, id), LocZombie(p, id), Rem(p, id), RemZombie(p, id), Forth(p, id),
                   Back(p, id), Cancelled(p)) =>
            /\ \A x \in Back(p, id) : Before(x, <<"end", m.n>>)
            /\ HearL(Loc(p, id), LocZombie(p, id), B2, Cancelled(p))
            /\ Tie(Loc(p, id), LocZombie(p, id), None, FALSE, F2, B2, Cancelled(p))
  BY <1>5, <1>8, HearCancel
<1>12. Gone(e, "remote", id) BY <1>2, <1>3, <1>7, <1>10 DEF InputLast
<1>20. state' = state BY <1>2, <1>3, <1>7, <1>10 DEF InputLast
<1>21. /\ links' \in [Edges -> [Sides -> [Ids -> Links]]]
       /\ zombies' \in [Edges -> [Sides -> SUBSET Ids]]
       /\ links'[e]["remote"][id] = None /\ id \notin zombies'[e]["remote"]
       /\ Elsewhere(e, "remote", id)
  BY <1>4, <1>12, LinksGone DEF Sides
<1>23. Rem(p, id)' = None /\ RemZombie(p, id)' = FALSE BY <1>1, <1>21 DEF Rem, RemZombie
<1>24. Replied(wire', e, m, TRUE)
  <2>1. wire' = [Sent(e, IF TRUE THEN <<Msg("end", Flip(m.side), m.id, m.n)>> ELSE <<>>)
                   EXCEPT ![e] = Tail(@)]
    BY <1>2, <1>3, <1>7, <1>10 DEF InputLast
  <2>2. Said(wire[Peer(e)], Flip(m.side), m.id) = Back(p, id)
    BY <1>1, <1>2, <1>3 DEF Back, Flip
  <2>3. Works(Peer(e)) => \A x \in Said(wire[Peer(e)], Flip(m.side), m.id) : Before(x, <<"end", m.n>>)
    BY <1>1, <1>6, <1>10, <2>2
  <2> QED BY <2>1, <2>3, Heard
<1>25. Rem(p, id)' # None => Rem(p, id)'.n \in Used(p) BY <1>5, <1>10, <1>23
<1>26. F2 = Said(Tail(wire[e]), "remote", id) BY DEF F2
<1>27. HearR(Rem(p, id)', RemZombie(p, id)', F2) BY <1>10, <1>23
<1>28. Works(p) => /\ HearL(Loc(p, id), LocZombie(p, id), B2, Cancelled(p))
                   /\ Tie(Loc(p, id), LocZombie(p, id), Rem(p, id)', RemZombie(p, id)', F2,
                          B2, Cancelled(p))
  BY <1>6, <1>10, <1>23
<1>30. Talks'
  BY <1>1, <1>2, <1>3, <1>20, <1>21, <1>24, <1>25, <1>26, <1>27, <1>28, <1>29, OtherHears
<1> QED BY <1>20, <1>21, <1>30, InputKept DEF Sides

LEMMA BeginHeardR ==
  ASSUME StiacInv, NEW e \in Edges, Works(e), wire[e] # <<>>, NEW m, m = Head(wire[e]),
         m.op = "begin", m.side = "remote", InputBegin(e, m), done' = done
  PROVE  StiacInv'
<1>1. PICK p \in Edges : p = Peer(e) /\ Peer(p) = e BY Peers
<1>2. PICK id \in Ids : id = m.id BY NextMessage
<1>3. m.side = "remote" OBVIOUS
<1> DEFINE F2 == Said(Tail(wire[e]), "remote", id)
<1>4. StiacType BY DEF StiacInv
<1>5. /\ Terms(Loc(p, id), LocZombie(p, id), Rem(p, id), RemZombie(p, id), Forth(p, id),
               Back(p, id), Cancelled(p))
      /\ HearR(Rem(p, id), RemZombie(p, id), Forth(p, id))
      /\ Taken(Forth(p, id), F2, "begin", m.n)
      /\ m.n \in Used(p)
  BY <1>1, <1>2, <1>3, HearsR
<1>6. Works(p) => /\ HearL(Loc(p, id), LocZombie(p, id), Back(p, id), Cancelled(p))
                  /\ Tie(Loc(p, id), LocZombie(p, id), Rem(p, id), RemZombie(p, id),
                         Forth(p, id), Back(p, id), Cancelled(p))
  BY <1>1, <1>2, <1>3, HearsR
<1>7. Rem(p, id) = links[e]["remote"][id] /\ RemZombie(p, id) = (id \in zombies[e]["remote"])
  BY <1>1 DEF Rem, RemZombie
<1>9. PICK reply \in BOOLEAN : reply = ~RemZombie(p, id) BY <1>5 DEF Terms
<1> DEFINE B2 == IF reply THEN Back(p, id) \union {<<"end", m.n>>} ELSE Back(p, id)
<1>8. /\ RemZombie(p, id) => B2 = Back(p, id)
      /\ ~RemZombie(p, id) => More(B2, Back(p, id), "end", m.n)
  BY <1>9 DEF More
<1>29. B2 = IF reply THEN Back(p, id) \union {<<"end", m.n>>} ELSE Back(p, id) OBVIOUS
<1> HIDE DEF F2, B2
<1>10. /\ Rem(p, id) # None /\ Rem(p, id).n = m.n
       /\ HearR(None, FALSE, F2)
       /\ HearL(Loc(p, id), LocZombie(p, id), Back(p, id), Cancelled(p))
            /\ Tie(Loc(p, id), LocZombie(p, id), Rem(p, id), RemZombie(p, id), Forth(p, id),
                   Back(p, id), Cancelled(p)) =>
            /\ ~RemZombie(p, id) => \A x \in Back(p, id) : Before(x, <<"end", m.n>>)
            /\ HearL(Loc(p, id), LocZombie(p, id), B2, Cancelled(p))
            /\ Tie(Loc(p, id), LocZombie(p, id), None, FALSE, F2, B2, Cancelled(p))
  BY <1>5, <1>8, HearBeginR
<1>11. Has(e, m.side, m.id) /\ (CanRemove(e, m.side, m.id) <=> reply)
  BY <1>2, <1>3, <1>7, <1>9, <1>10 DEF Has, CanRemove
<1>12. Gone(e, "remote", id) BY <1>2, <1>3, <1>11 DEF InputBegin
<1>20. state' = state BY <1>11 DEF InputBegin
<1>21. /\ links' \in [Edges -> [Sides -> [Ids -> Links]]]
       /\ zombies' \in [Edges -> [Sides -> SUBSET Ids]]
       /\ links'[e]["remote"][id] = None /\ id \notin zombies'[e]["remote"]
       /\ Elsewhere(e, "remote", id)
  BY <1>4, <1>12, LinksGone DEF Sides
<1>23. Rem(p, id)' = None /\ RemZombie(p, id)' = FALSE BY <1>1, <1>21 DEF Rem, RemZombie
<1>24. Replied(wire', e, m, reply)
  <2>1. wire' = [Sent(e, IF reply THEN <<Msg("end", Flip(m.side), m.id, m.n)>> ELSE <<>>)
                   EXCEPT ![e] = Tail(@)]
    BY <1>11 DEF InputBegin
  <2>2. Said(wire[Peer(e)], Flip(m.side), m.id) = Back(p, id)
    BY <1>1, <1>2, <1>3 DEF Back, Flip
  <2>3. Works(Peer(e)) /\ reply =>
          \A x \in Said(wire[Peer(e)], Flip(m.side), m.id) : Before(x, <<"end", m.n>>)
    BY <1>1, <1>6, <1>9, <1>10, <2>2
  <2> QED BY <2>1, <2>3, Heard
<1>25. Rem(p, id)' # None => Rem(p, id)'.n \in Used(p) BY <1>5, <1>10, <1>23
<1>26. F2 = Said(Tail(wire[e]), "remote", id) BY DEF F2
<1>27. HearR(Rem(p, id)', RemZombie(p, id)', F2) BY <1>10, <1>23
<1>28. Works(p) => /\ HearL(Loc(p, id), LocZombie(p, id), B2, Cancelled(p))
                   /\ Tie(Loc(p, id), LocZombie(p, id), Rem(p, id)', RemZombie(p, id)', F2,
                          B2, Cancelled(p))
  BY <1>6, <1>10, <1>23
<1>30. Talks'
  <2>1. CASE reply
    <3>1. Replied(wire', e, m, TRUE) BY <1>24, <2>1
    <3>2. B2 = IF TRUE THEN Back(p, id) \union {<<"end", m.n>>} ELSE Back(p, id) BY <1>29, <2>1
    <3> QED BY <1>1, <1>2, <1>3, <1>20, <1>21, <1>25, <1>26, <1>27, <1>28, <3>1, <3>2, OtherHears
  <2>2. CASE ~reply
    <3>1. Replied(wire', e, m, FALSE) BY <1>24, <2>2
    <3>2. B2 = IF FALSE THEN Back(p, id) \union {<<"end", m.n>>} ELSE Back(p, id) BY <1>29, <2>2
    <3> QED BY <1>1, <1>2, <1>3, <1>20, <1>21, <1>25, <1>26, <1>27, <1>28, <3>1, <3>2, OtherHears
  <2> QED BY <2>1, <2>2
<1> QED BY <1>20, <1>21, <1>30, InputKept DEF Sides

LEMMA EndHeardR ==
  ASSUME StiacInv, NEW e \in Edges, Works(e), wire[e] # <<>>, NEW m, m = Head(wire[e]),
         m.op = "end", m.side = "remote", InputEnd(e, m), done' = done
  PROVE  StiacInv'
<1>1. PICK p \in Edges : p = Peer(e) /\ Peer(p) = e BY Peers
<1>2. PICK id \in Ids : id = m.id BY NextMessage
<1>3. m.side = "remote" OBVIOUS
<1> DEFINE F2 == Said(Tail(wire[e]), "remote", id)
<1>4. StiacType BY DEF StiacInv
<1>5. /\ Terms(Loc(p, id), LocZombie(p, id), Rem(p, id), RemZombie(p, id), Forth(p, id),
               Back(p, id), Cancelled(p))
      /\ HearR(Rem(p, id), RemZombie(p, id), Forth(p, id))
      /\ Taken(Forth(p, id), F2, "end", m.n)
      /\ m.n \in Used(p)
  BY <1>1, <1>2, <1>3, HearsR
<1>6. Works(p) => /\ HearL(Loc(p, id), LocZombie(p, id), Back(p, id), Cancelled(p))
                  /\ Tie(Loc(p, id), LocZombie(p, id), Rem(p, id), RemZombie(p, id),
                         Forth(p, id), Back(p, id), Cancelled(p))
  BY <1>1, <1>2, <1>3, HearsR
<1>7. Rem(p, id) = links[e]["remote"][id] /\ RemZombie(p, id) = (id \in zombies[e]["remote"])
  BY <1>1 DEF Rem, RemZombie
<1> HIDE DEF F2
<1> DEFINE B2 == Back(p, id)
<1>9. Rem(p, id) # None => RemZombie(p, id) BY <1>5, HearEndR
<1>10. /\ HearR(None, FALSE, F2)
       /\ Tie(Loc(p, id), LocZombie(p, id), Rem(p, id), RemZombie(p, id), Forth(p, id), Back(p, id),
              Cancelled(p)) =>
          Tie(Loc(p, id), LocZombie(p, id), None, FALSE, F2, Back(p, id), Cancelled(p))
  BY <1>5, HearEndR
<1>11. Rem(p, id) = None => ~RemZombie(p, id) BY <1>5 DEF HearR, Formed
<1>13. CanEnd(e, m.side, m.id) <=> Rem(p, id) # None
  BY <1>2, <1>3, <1>7, <1>9 DEF Has, CanEnd
<1>20. state' = state BY DEF InputEnd
<1>21. /\ links' \in [Edges -> [Sides -> [Ids -> Links]]]
       /\ zombies' \in [Edges -> [Sides -> SUBSET Ids]]
       /\ links'[e]["remote"][id] = None /\ id \notin zombies'[e]["remote"]
       /\ Elsewhere(e, "remote", id)
  <2>1. CASE Rem(p, id) # None
    <3>1. Gone(e, "remote", id) BY <1>2, <1>3, <1>13, <2>1 DEF InputEnd
    <3> QED BY <1>4, <3>1, LinksGone DEF Sides
  <2>2. CASE Rem(p, id) = None
    <3>1. links' = links /\ zombies' = zombies BY <1>13, <2>2 DEF InputEnd
    <3>2. Elsewhere(e, "remote", id) BY <3>1, SameLinks
    <3> QED BY <1>4, <1>7, <1>11, <2>2, <3>1, <3>2 DEF StiacType
  <2> QED BY <2>1, <2>2
<1>23. Rem(p, id)' = None /\ RemZombie(p, id)' = FALSE BY <1>1, <1>21 DEF Rem, RemZombie
<1>24. Replied(wire', e, m, FALSE) BY Silent DEF InputEnd
<1>29. B2 = IF FALSE THEN Back(p, id) \union {<<"end", m.n>>} ELSE Back(p, id) OBVIOUS
<1>25. Rem(p, id)' # None => Rem(p, id)'.n \in Used(p) BY <1>5, <1>10, <1>23
<1>26. F2 = Said(Tail(wire[e]), "remote", id) BY DEF F2
<1>27. HearR(Rem(p, id)', RemZombie(p, id)', F2) BY <1>10, <1>23
<1>28. Works(p) => /\ HearL(Loc(p, id), LocZombie(p, id), B2, Cancelled(p))
                   /\ Tie(Loc(p, id), LocZombie(p, id), Rem(p, id)', RemZombie(p, id)', F2,
                          B2, Cancelled(p))
  BY <1>6, <1>10, <1>23
<1>30. Talks'
  BY <1>1, <1>2, <1>3, <1>20, <1>21, <1>24, <1>25, <1>26, <1>27, <1>28, <1>29, OtherHears
<1> QED BY <1>20, <1>21, <1>30, InputKept DEF Sides

LEMMA UseHeardL ==
  ASSUME StiacInv, NEW e \in Edges, Works(e), wire[e] # <<>>, NEW m, m = Head(wire[e]),
         m.op = "use", m.side = "local", InputUse(e, m), done' = done
  PROVE  StiacInv'
<1>1. PICK p \in Edges : p = Peer(e) BY Peers
<1>2. PICK id \in Ids : id = m.id BY NextMessage
<1>3. m.side = "local" OBVIOUS
<1> DEFINE B2 == Said(Tail(wire[e]), "local", id)
<1>4. StiacType BY DEF StiacInv
<1>5. /\ Terms(Loc(e, id), LocZombie(e, id), Rem(e, id), RemZombie(e, id), Forth(e, id),
               Back(e, id), Cancelled(e))
      /\ HearL(Loc(e, id), LocZombie(e, id), Back(e, id), Cancelled(e))
      /\ Taken(Back(e, id), B2, "use", m.n)
  BY <1>2, <1>3, HearsL
<1>6. Works(p) => /\ HearR(Rem(e, id), RemZombie(e, id), Forth(e, id))
                  /\ Tie(Loc(e, id), LocZombie(e, id), Rem(e, id), RemZombie(e, id),
                         Forth(e, id), Back(e, id), Cancelled(e))
  BY <1>1, <1>2, <1>3, HearsL
<1>7. Loc(e, id) = links[e]["local"][id] /\ LocZombie(e, id) = (id \in zombies[e]["local"])
  BY DEF Loc, LocZombie
<1> HIDE DEF B2
<1> DEFINE F2 == Forth(e, id)
<1>10. /\ Loc(e, id) # None /\ Loc(e, id).n = m.n /\ Loc(e, id).kind = "interface"
       /\ HearL(Loc(e, id), LocZombie(e, id), B2, Cancelled(e))
       /\ Tie(Loc(e, id), LocZombie(e, id), Rem(e, id), RemZombie(e, id), Forth(e, id), Back(e, id),
              Cancelled(e)) =>
          Tie(Loc(e, id), LocZombie(e, id), Rem(e, id), RemZombie(e, id), Forth(e, id), B2,
              Cancelled(e))
  BY <1>5, HearUseL
<1>12. links' = links /\ zombies' = zombies /\ state' = state
  BY <1>2, <1>3, <1>7, <1>10 DEF InputUse
<1>20. state' = state BY <1>12
<1>21. /\ links' \in [Edges -> [Sides -> [Ids -> Links]]]
       /\ zombies' \in [Edges -> [Sides -> SUBSET Ids]]
       /\ Elsewhere(e, "local", id)
  BY <1>4, <1>12, SameLinks DEF StiacType
<1>23. Loc(e, id)' = Loc(e, id) /\ LocZombie(e, id)' = LocZombie(e, id)
  BY <1>12 DEF Loc, LocZombie
<1>24. Replied(wire', e, m, FALSE) BY Silent DEF InputUse
<1>29. F2 = IF FALSE THEN Forth(e, id) \union {<<"end", m.n>>} ELSE Forth(e, id) OBVIOUS
<1>25. Loc(e, id)' # None => Loc(e, id)' = Loc(e, id) BY <1>23
<1>26. B2 = Said(Tail(wire[e]), "local", id) BY DEF B2
<1>27. HearL(Loc(e, id)', LocZombie(e, id)', B2, Cancelled(e)) BY <1>10, <1>23
<1>28. Works(p) => /\ HearR(Rem(e, id), RemZombie(e, id), F2)
                   /\ Tie(Loc(e, id)', LocZombie(e, id)', Rem(e, id), RemZombie(e, id), F2,
                          B2, Cancelled(e))
  BY <1>6, <1>10, <1>23
<1>30. Talks'
  BY <1>1, <1>2, <1>3, <1>20, <1>21, <1>24, <1>25, <1>26, <1>27, <1>28, <1>29, MakerHears
<1>31. links'[e]["local"][id] = None \/ links'[e]["local"][id] = links[e]["local"][id]
  BY <1>7, <1>25 DEF Loc
<1> QED BY <1>20, <1>21, <1>30, <1>31, InputKept DEF Sides

LEMMA AnswerHeard ==
  ASSUME StiacInv, NEW e \in Edges, Works(e), wire[e] # <<>>, NEW m, m = Head(wire[e]),
         m.op = "answer", InputLast(e, m), done' = done
  PROVE  StiacInv'
<1>1. PICK p \in Edges : p = Peer(e) BY Peers
<1>2. PICK id \in Ids : id = m.id BY NextMessage
<1>3. m.side = "local"
  <2>1. m.side \in Sides BY NextMessage
  <2>2. m.side = "remote" => m.op \in New \union {"use", "begin", "cancel", "end"}
    BY <1>1, <1>2, HearsR
  <2> QED BY <2>1, <2>2 DEF Sides, New
<1> DEFINE B2 == Said(Tail(wire[e]), "local", id)
<1>4. StiacType BY DEF StiacInv
<1>5. /\ Terms(Loc(e, id), LocZombie(e, id), Rem(e, id), RemZombie(e, id), Forth(e, id),
               Back(e, id), Cancelled(e))
      /\ HearL(Loc(e, id), LocZombie(e, id), Back(e, id), Cancelled(e))
      /\ Taken(Back(e, id), B2, "answer", m.n)
  BY <1>2, <1>3, HearsL
<1>6. Works(p) => /\ HearR(Rem(e, id), RemZombie(e, id), Forth(e, id))
                  /\ Tie(Loc(e, id), LocZombie(e, id), Rem(e, id), RemZombie(e, id),
                         Forth(e, id), Back(e, id), Cancelled(e))
  BY <1>1, <1>2, <1>3, HearsL
<1>7. Loc(e, id) = links[e]["local"][id] /\ LocZombie(e, id) = (id \in zombies[e]["local"])
  BY DEF Loc, LocZombie
<1> DEFINE F2 == Forth(e, id) \union {<<"end", m.n>>}
<1>8. More(F2, Forth(e, id), "end", m.n) BY DEF More
<1>29. F2 = IF TRUE THEN Forth(e, id) \union {<<"end", m.n>>} ELSE Forth(e, id) OBVIOUS
<1> HIDE DEF F2, B2
<1>10. /\ Loc(e, id) # None /\ Loc(e, id).n = m.n /\ Loc(e, id).kind = "promise"
       /\ HearL(None, FALSE, B2, Cancelled(e))
       /\ HearR(Rem(e, id), RemZombie(e, id), Forth(e, id))
            /\ Tie(Loc(e, id), LocZombie(e, id), Rem(e, id), RemZombie(e, id), Forth(e, id),
                   Back(e, id), Cancelled(e)) =>
            /\ \A x \in Forth(e, id) : Before(x, <<"end", m.n>>)
            /\ HearR(Rem(e, id), RemZombie(e, id), F2)
            /\ Tie(None, FALSE, Rem(e, id), RemZombie(e, id), F2, B2, Cancelled(e))
  BY <1>5, <1>8, HearAnswer
<1>12. Gone(e, "local", id) BY <1>2, <1>3, <1>7, <1>10 DEF InputLast
<1>20. state' = state BY <1>2, <1>3, <1>7, <1>10 DEF InputLast
<1>21. /\ links' \in [Edges -> [Sides -> [Ids -> Links]]]
       /\ zombies' \in [Edges -> [Sides -> SUBSET Ids]]
       /\ links'[e]["local"][id] = None /\ id \notin zombies'[e]["local"]
       /\ Elsewhere(e, "local", id)
  BY <1>4, <1>12, LinksGone DEF Sides
<1>23. Loc(e, id)' = None /\ LocZombie(e, id)' = FALSE BY <1>21 DEF Loc, LocZombie
<1>24. Replied(wire', e, m, TRUE)
  <2>1. wire' = [Sent(e, IF TRUE THEN <<Msg("end", Flip(m.side), m.id, m.n)>> ELSE <<>>)
                   EXCEPT ![e] = Tail(@)]
    BY <1>2, <1>3, <1>7, <1>10 DEF InputLast
  <2>2. Said(wire[Peer(e)], Flip(m.side), m.id) = Forth(e, id)
    BY <1>2, <1>3 DEF Forth, Flip
  <2>3. Works(Peer(e)) => \A x \in Said(wire[Peer(e)], Flip(m.side), m.id) : Before(x, <<"end", m.n>>)
    BY <1>1, <1>6, <1>10, <2>2
  <2> QED BY <2>1, <2>3, Heard
<1>25. Loc(e, id)' # None => Loc(e, id)' = Loc(e, id) BY <1>23
<1>26. B2 = Said(Tail(wire[e]), "local", id) BY DEF B2
<1>27. HearL(Loc(e, id)', LocZombie(e, id)', B2, Cancelled(e)) BY <1>10, <1>23
<1>28. Works(p) => /\ HearR(Rem(e, id), RemZombie(e, id), F2)
                   /\ Tie(Loc(e, id)', LocZombie(e, id)', Rem(e, id), RemZombie(e, id), F2,
                          B2, Cancelled(e))
  BY <1>6, <1>10, <1>23
<1>30. Talks'
  BY <1>1, <1>2, <1>3, <1>20, <1>21, <1>24, <1>25, <1>26, <1>27, <1>28, <1>29, MakerHears
<1>31. links'[e]["local"][id] = None \/ links'[e]["local"][id] = links[e]["local"][id]
  BY <1>7, <1>25 DEF Loc
<1> QED BY <1>20, <1>21, <1>30, <1>31, InputKept DEF Sides

LEMMA BeginHeardL ==
  ASSUME StiacInv, NEW e \in Edges, Works(e), wire[e] # <<>>, NEW m, m = Head(wire[e]),
         m.op = "begin", m.side = "local", InputBegin(e, m), done' = done
  PROVE  StiacInv'
<1>1. PICK p \in Edges : p = Peer(e) BY Peers
<1>2. PICK id \in Ids : id = m.id BY NextMessage
<1>3. m.side = "local" OBVIOUS
<1> DEFINE B2 == Said(Tail(wire[e]), "local", id)
<1>4. StiacType BY DEF StiacInv
<1>5. /\ Terms(Loc(e, id), LocZombie(e, id), Rem(e, id), RemZombie(e, id), Forth(e, id),
               Back(e, id), Cancelled(e))
      /\ HearL(Loc(e, id), LocZombie(e, id), Back(e, id), Cancelled(e))
      /\ Taken(Back(e, id), B2, "begin", m.n)
  BY <1>2, <1>3, HearsL
<1>6. Works(p) => /\ HearR(Rem(e, id), RemZombie(e, id), Forth(e, id))
                  /\ Tie(Loc(e, id), LocZombie(e, id), Rem(e, id), RemZombie(e, id),
                         Forth(e, id), Back(e, id), Cancelled(e))
  BY <1>1, <1>2, <1>3, HearsL
<1>7. Loc(e, id) = links[e]["local"][id] /\ LocZombie(e, id) = (id \in zombies[e]["local"])
  BY DEF Loc, LocZombie
<1>9. PICK reply \in BOOLEAN : reply = ~LocZombie(e, id) BY <1>5 DEF Terms
<1> DEFINE F2 == IF reply THEN Forth(e, id) \union {<<"end", m.n>>} ELSE Forth(e, id)
<1>8. /\ LocZombie(e, id) => F2 = Forth(e, id)
      /\ ~LocZombie(e, id) => More(F2, Forth(e, id), "end", m.n)
  BY <1>9 DEF More
<1>29. F2 = IF reply THEN Forth(e, id) \union {<<"end", m.n>>} ELSE Forth(e, id) OBVIOUS
<1> HIDE DEF F2, B2
<1>10. /\ Loc(e, id) # None /\ Loc(e, id).n = m.n
       /\ HearL(None, FALSE, B2, Cancelled(e))
       /\ HearR(Rem(e, id), RemZombie(e, id), Forth(e, id))
            /\ Tie(Loc(e, id), LocZombie(e, id), Rem(e, id), RemZombie(e, id), Forth(e, id),
                   Back(e, id), Cancelled(e)) =>
            /\ ~LocZombie(e, id) => \A x \in Forth(e, id) : Before(x, <<"end", m.n>>)
            /\ HearR(Rem(e, id), RemZombie(e, id), F2)
            /\ Tie(None, FALSE, Rem(e, id), RemZombie(e, id), F2, B2, Cancelled(e))
  BY <1>5, <1>8, HearBeginL
<1>11. Has(e, m.side, m.id) /\ (CanRemove(e, m.side, m.id) <=> reply)
  BY <1>2, <1>3, <1>7, <1>9, <1>10 DEF Has, CanRemove
<1>12. Gone(e, "local", id) BY <1>2, <1>3, <1>11 DEF InputBegin
<1>20. state' = state BY <1>11 DEF InputBegin
<1>21. /\ links' \in [Edges -> [Sides -> [Ids -> Links]]]
       /\ zombies' \in [Edges -> [Sides -> SUBSET Ids]]
       /\ links'[e]["local"][id] = None /\ id \notin zombies'[e]["local"]
       /\ Elsewhere(e, "local", id)
  BY <1>4, <1>12, LinksGone DEF Sides
<1>23. Loc(e, id)' = None /\ LocZombie(e, id)' = FALSE BY <1>21 DEF Loc, LocZombie
<1>24. Replied(wire', e, m, reply)
  <2>1. wire' = [Sent(e, IF reply THEN <<Msg("end", Flip(m.side), m.id, m.n)>> ELSE <<>>)
                   EXCEPT ![e] = Tail(@)]
    BY <1>11 DEF InputBegin
  <2>2. Said(wire[Peer(e)], Flip(m.side), m.id) = Forth(e, id)
    BY <1>2, <1>3 DEF Forth, Flip
  <2>3. Works(Peer(e)) /\ reply =>
          \A x \in Said(wire[Peer(e)], Flip(m.side), m.id) : Before(x, <<"end", m.n>>)
    BY <1>1, <1>6, <1>9, <1>10, <2>2
  <2> QED BY <2>1, <2>3, Heard
<1>25. Loc(e, id)' # None => Loc(e, id)' = Loc(e, id) BY <1>23
<1>26. B2 = Said(Tail(wire[e]), "local", id) BY DEF B2
<1>27. HearL(Loc(e, id)', LocZombie(e, id)', B2, Cancelled(e)) BY <1>10, <1>23
<1>28. Works(p) => /\ HearR(Rem(e, id), RemZombie(e, id), F2)
                   /\ Tie(Loc(e, id)', LocZombie(e, id)', Rem(e, id), RemZombie(e, id), F2,
                          B2, Cancelled(e))
  BY <1>6, <1>10, <1>23
<1>30. Talks'
  BY <1>1, <1>2, <1>3, <1>20, <1>21, <1>24, <1>25, <1>26, <1>27, <1>28, <1>29, MakerHears
<1>31. links'[e]["local"][id] = None \/ links'[e]["local"][id] = links[e]["local"][id]
  BY <1>7, <1>25 DEF Loc
<1> QED BY <1>20, <1>21, <1>30, <1>31, InputKept DEF Sides

LEMMA EndHeardL ==
  ASSUME StiacInv, NEW e \in Edges, Works(e), wire[e] # <<>>, NEW m, m = Head(wire[e]),
         m.op = "end", m.side = "local", InputEnd(e, m), done' = done
  PROVE  StiacInv'
<1>1. PICK p \in Edges : p = Peer(e) BY Peers
<1>2. PICK id \in Ids : id = m.id BY NextMessage
<1>3. m.side = "local" OBVIOUS
<1> DEFINE B2 == Said(Tail(wire[e]), "local", id)
<1>4. StiacType BY DEF StiacInv
<1>5. /\ Terms(Loc(e, id), LocZombie(e, id), Rem(e, id), RemZombie(e, id), Forth(e, id),
               Back(e, id), Cancelled(e))
      /\ HearL(Loc(e, id), LocZombie(e, id), Back(e, id), Cancelled(e))
      /\ Taken(Back(e, id), B2, "end", m.n)
  BY <1>2, <1>3, HearsL
<1>6. Works(p) => /\ HearR(Rem(e, id), RemZombie(e, id), Forth(e, id))
                  /\ Tie(Loc(e, id), LocZombie(e, id), Rem(e, id), RemZombie(e, id),
                         Forth(e, id), Back(e, id), Cancelled(e))
  BY <1>1, <1>2, <1>3, HearsL
<1>7. Loc(e, id) = links[e]["local"][id] /\ LocZombie(e, id) = (id \in zombies[e]["local"])
  BY DEF Loc, LocZombie
<1> HIDE DEF B2
<1> DEFINE F2 == Forth(e, id)
           L2 == IF LocZombie(e, id) THEN None ELSE Loc(e, id)
<1>10. /\ HearL(L2, FALSE, B2, Cancelled(e))
       /\ Tie(Loc(e, id), LocZombie(e, id), Rem(e, id), RemZombie(e, id), Forth(e, id), Back(e, id),
              Cancelled(e)) =>
          Tie(L2, FALSE, Rem(e, id), RemZombie(e, id), Forth(e, id), B2, Cancelled(e))
  BY <1>5, HearEndL
<1>11. LocZombie(e, id) => Loc(e, id) # None BY <1>5 DEF HearL, Formed
<1>13. CanEnd(e, m.side, m.id) <=> LocZombie(e, id)
  BY <1>2, <1>3, <1>7, <1>11 DEF Has, CanEnd
<1>20. state' = state BY DEF InputEnd
<1>14. L2 = None \/ L2 = Loc(e, id) OBVIOUS
<1>21. /\ links' \in [Edges -> [Sides -> [Ids -> Links]]]
       /\ zombies' \in [Edges -> [Sides -> SUBSET Ids]]
       /\ links'[e]["local"][id] = L2 /\ id \notin zombies'[e]["local"]
       /\ Elsewhere(e, "local", id)
  <2>1. CASE LocZombie(e, id)
    <3>1. Gone(e, "local", id) BY <1>2, <1>3, <1>13, <2>1 DEF InputEnd
    <3> QED BY <1>4, <2>1, <3>1, LinksGone DEF Sides
  <2>2. CASE ~LocZombie(e, id)
    <3>1. links' = links /\ zombies' = zombies BY <1>13, <2>2 DEF InputEnd
    <3>2. Elsewhere(e, "local", id) BY <3>1, SameLinks
    <3> QED BY <1>4, <1>7, <2>2, <3>1, <3>2 DEF StiacType
  <2> QED BY <2>1, <2>2
<1> HIDE DEF L2
<1>23. Loc(e, id)' = L2 /\ LocZombie(e, id)' = FALSE /\ (L2 = None \/ L2 = Loc(e, id))
  BY <1>14, <1>21 DEF Loc, LocZombie
<1>24. Replied(wire', e, m, FALSE) BY Silent DEF InputEnd
<1>29. F2 = IF FALSE THEN Forth(e, id) \union {<<"end", m.n>>} ELSE Forth(e, id) OBVIOUS
<1>25. Loc(e, id)' # None => Loc(e, id)' = Loc(e, id) BY <1>23
<1>26. B2 = Said(Tail(wire[e]), "local", id) BY DEF B2
<1>27. HearL(Loc(e, id)', LocZombie(e, id)', B2, Cancelled(e)) BY <1>10, <1>23
<1>28. Works(p) => /\ HearR(Rem(e, id), RemZombie(e, id), F2)
                   /\ Tie(Loc(e, id)', LocZombie(e, id)', Rem(e, id), RemZombie(e, id), F2,
                          B2, Cancelled(e))
  BY <1>6, <1>10, <1>23
<1>30. Talks'
  BY <1>1, <1>2, <1>3, <1>20, <1>21, <1>24, <1>25, <1>26, <1>27, <1>28, <1>29, MakerHears
<1>31. links'[e]["local"][id] = None \/ links'[e]["local"][id] = links[e]["local"][id]
  BY <1>7, <1>25 DEF Loc
<1> QED BY <1>20, <1>21, <1>30, <1>31, InputKept DEF Sides

LEMMA InputKeeps ==
  ASSUME StiacInv, NEW e \in Edges, Input(e)
  PROVE  StiacInv'
<1>1. PICK m : m = Head(wire[e]) OBVIOUS
<1>2. Works(e) /\ wire[e] # <<>> /\ done' = done BY DEF Input, Works
<1>3. m.side = "remote" \/ m.side = "local" BY <1>1, <1>2, NextMessage DEF Sides
<1>4. m.op \in Ops
  <2>1. wire[e] \in Seq(Messages) BY DEF StiacInv, StiacType
  <2>2. m \in Messages BY <1>1, <1>2, <2>1
  <2> QED BY <2>2 DEF Messages
<1>5. CASE m.op \in New
  <2>1. InputNew(e, m) BY <1>1, <1>5 DEF Input, New
  <2> QED BY <1>1, <1>2, <1>5, <2>1, NewKeeps
<1>6. CASE m.op = "use"
  <2>1. InputUse(e, m) BY <1>1, <1>6 DEF Input
  <2> QED BY <1>1, <1>2, <1>3, <1>6, <2>1, UseHeardR, UseHeardL
<1>7. CASE m.op = "answer"
  <2>1. InputLast(e, m) BY <1>1, <1>7 DEF Input
  <2> QED BY <1>1, <1>2, <1>7, <2>1, AnswerHeard
<1>8. CASE m.op = "cancel"
  <2>1. InputLast(e, m) BY <1>1, <1>8 DEF Input
  <2> QED BY <1>1, <1>2, <1>8, <2>1, CancelHeard
<1>9. CASE m.op = "begin"
  <2>1. InputBegin(e, m) BY <1>1, <1>9 DEF Input
  <2> QED BY <1>1, <1>2, <1>3, <1>9, <2>1, BeginHeardR, BeginHeardL
<1>10. CASE m.op = "end"
  <2>1. InputEnd(e, m) BY <1>1, <1>10 DEF Input
  <2> QED BY <1>1, <1>2, <1>3, <1>10, <2>1, EndHeardR, EndHeardL
<1> QED BY <1>4, <1>5, <1>6, <1>7, <1>8, <1>9, <1>10 DEF Ops

(* The edge that goes takes along what it had heard of, and tells nobody.    *)
LEMMA Nothing ==
  Ordered(<<>>) /\ \A s, id : Said(<<>>, s, id) = {}
BY DEF Ordered, Said

LEMMA DestroyKeeps ==
  ASSUME StiacInv, NEW e \in Edges, Destroy(e)
  PROVE  StiacInv'
<1>1. PICK p \in Edges : p = Peer(e) /\ p # e /\ Peer(p) = e /\ \A c \in Edges : c = e \/ c = p
  BY Peers
<1>2. StiacType BY DEF StiacInv
<1>3. /\ state' = [state EXCEPT ![e] = "null"]
      /\ links' = [links EXCEPT ![e] = [s \in Sides |-> [id \in Ids |-> None]]]
      /\ zombies' = [zombies EXCEPT ![e] = [s \in Sides |-> {}]]
      /\ wire' = [wire EXCEPT ![e] = <<>>]
      /\ done' = done
  BY DEF Destroy
<1>4. state' \in [Edges -> {"work", "null"}] /\ state'[e] = "null" /\ state'[p] = state[p]
  BY <1>1, <1>2, <1>3 DEF StiacType
<1>5. links' \in [Edges -> [Sides -> [Ids -> Links]]] /\ links'[p] = links[p]
      /\ \A s \in Sides, j \in Ids : links'[e][s][j] = None
  <2>1. [s \in Sides |-> [id \in Ids |-> None]] \in [Sides -> [Ids -> Links]] BY DEF Links
  <2> QED BY <1>1, <1>2, <1>3, <2>1 DEF StiacType
<1>6. zombies' \in [Edges -> [Sides -> SUBSET Ids]] /\ zombies'[p] = zombies[p]
  BY <1>1, <1>2, <1>3 DEF StiacType
<1>7. wire' \in [Edges -> Seq(Messages)] /\ wire'[p] = wire[p] /\ wire'[e] = <<>>
  BY <1>1, <1>2, <1>3 DEF StiacType
<1>8. done' = done BY <1>3
<1>9. StiacType' BY <1>2, <1>4, <1>5, <1>6, <1>7, <1>8 DEF StiacType
<1>10. \A c \in Edges : Ordered(wire'[c]) BY <1>1, <1>7, Nothing DEF StiacInv
<1>11. \A c \in Edges : Bounded(c)'
  <2>1. Counted BY <1>8, NoUses
  <2>2. ASSUME NEW c \in Edges, NEW j \in Ids, Loc(c, j)' # None
        PROVE  Loc(c, j) # None /\ Loc(c, j)'.kind = Loc(c, j).kind
    <3>1. c = p BY <1>1, <1>5, <2>2 DEF Loc, Sides
    <3>2. Loc(p, j)' = Loc(p, j) BY <1>5 DEF Loc
    <3> QED BY <2>2, <3>1, <3>2
  <2> QED BY <2>1, <2>2, BoundedKept
<1>12. ~Works(e)' /\ (Works(p)' <=> Works(p)) BY <1>4 DEF Works
<1>13. \A c \in Edges : Used(c)' = Used(c) /\ Cancelled(c)' = Cancelled(c)
  BY <1>8 DEF Used, Cancelled
<1>14. ASSUME NEW j \in Ids
       PROVE  Conversation(e, j)' /\ UsedOnly(e, j)' /\ Conversation(p, j)' /\ UsedOnly(p, j)'
  <2>1. /\ Conversation(e, j) /\ UsedOnly(e, j) /\ Conversation(p, j) /\ UsedOnly(p, j)
    BY DEF StiacInv
  <2>2. /\ Rem(e, j)' = Rem(e, j) /\ RemZombie(e, j)' = RemZombie(e, j)
        /\ Forth(e, j)' = Forth(e, j)
    BY <1>1, <1>5, <1>6, <1>7 DEF Rem, RemZombie, Forth
  <2>3. /\ Loc(p, j)' = Loc(p, j) /\ LocZombie(p, j)' = LocZombie(p, j)
        /\ Back(p, j)' = Back(p, j)
    BY <1>5, <1>6, <1>7 DEF Loc, LocZombie, Back
  <2>4. /\ Loc(e, j)' = None /\ Back(e, j)' = {} /\ Rem(p, j)' = None /\ Forth(p, j)' = {}
    BY <1>1, <1>5, <1>7, Nothing DEF Loc, Back, Rem, Forth, Sides
  <2>5. Works(p) => HearR(Rem(e, j)', RemZombie(e, j)', Forth(e, j)')
    BY <1>1, <2>1, <2>2 DEF Conversation
  <2>6. Works(p) => HearL(Loc(p, j)', LocZombie(p, j)', Back(p, j)', Cancelled(p)')
    BY <1>13, <2>1, <2>3 DEF Conversation
  <2>7. Conversation(e, j)' BY <1>1, <1>12, <2>5 DEF Conversation
  <2>8. Conversation(p, j)' BY <1>1, <1>12, <2>6 DEF Conversation
  <2>9. UsedOnly(e, j)' BY <1>13, <2>1, <2>2, <2>4 DEF UsedOnly
  <2>10. UsedOnly(p, j)' BY <1>13, <2>1, <2>3, <2>4 DEF UsedOnly
  <2> QED BY <2>7, <2>8, <2>9, <2>10
<1>15. Talks' BY <1>1, <1>7, <1>10, <1>14 DEF Talks
<1> QED BY <1>9, <1>11, <1>15, Together

LEMMA StiacInvInit == Init => StiacInv
<1> SUFFICES ASSUME Init PROVE StiacInv OBVIOUS
<1>1. /\ state = [e \in Edges |-> "work"]
      /\ links = [e \in Edges |-> [s \in Sides |-> [id \in Ids |-> None]]]
      /\ zombies = [e \in Edges |-> [s \in Sides |-> {}]]
      /\ wire = [e \in Edges |-> <<>>]
      /\ done = [e \in Edges |-> [op \in {"put", "call", "cancel", "use"} |-> 0]]
  BY DEF Init
<1>2. StiacType
  <2>1. None \in Links BY DEF Links
  <2>2. links \in [Edges -> [Sides -> [Ids -> Links]]] BY <1>1, <2>1
  <2>3. zombies \in [Edges -> [Sides -> SUBSET Ids]] BY <1>1
  <2>4. wire \in [Edges -> Seq(Messages)] BY <1>1
  <2>5. state \in [Edges -> {"work", "null"}] BY <1>1
  <2>6. done \in [Edges -> [{"put", "call", "cancel", "use"} -> Nat]] BY <1>1
  <2> QED BY <2>2, <2>3, <2>4, <2>5, <2>6 DEF StiacType
<1>3. \A e \in Edges : Ordered(wire[e]) BY <1>1, Nothing
<1>4. ASSUME NEW e \in Edges
      PROVE  Bounded(e) /\ ~Cancelled(e)
  <2>1. \A id \in Ids : Loc(e, id) = None BY <1>1 DEF Loc, Sides
  <2>2. Listed(e) = {} BY <2>1 DEF Listed
  <2>3. Cardinality(Listed(e)) = 0 BY <2>2, FS_EmptySet
  <2>4. \A op \in {"put", "call", "cancel", "use"} : done[e][op] = 0 BY <1>1
  <2>5. \A op \in {"put", "call", "cancel", "use"} : done[e][op] <= Quota[e][op]
    BY <2>4, QuotaNat
  <2>6. Cardinality(Listed(e)) <= done[e]["put"] + done[e]["call"] BY <2>3, <2>4
  <2>7. \A id \in Ids : Loc(e, id).kind # "interface" BY <2>1 DEF None
  <2>8. ~Cancelled(e) BY <2>4 DEF Cancelled
  <2> QED BY <2>5, <2>6, <2>7, <2>8 DEF Bounded
<1>5. ASSUME NEW e \in Edges, NEW id \in Ids
      PROVE  Conversation(e, id) /\ UsedOnly(e, id)
  <2>1. Peer(e) \in Edges BY Peers
  <2>2. /\ Loc(e, id) = None /\ Rem(e, id) = None /\ Forth(e, id) = {} /\ Back(e, id) = {}
        /\ ~LocZombie(e, id) /\ ~RemZombie(e, id)
    BY <1>1, <2>1, Nothing DEF Loc, Rem, Forth, Back, LocZombie, RemZombie, Sides
  <2>3. HearL(Loc(e, id), LocZombie(e, id), Back(e, id), Cancelled(e))
    BY <2>2 DEF HearL, Formed, None
  <2>4. HearR(Rem(e, id), RemZombie(e, id), Forth(e, id)) BY <2>2 DEF HearR, Formed
  <2>5. Tie(Loc(e, id), LocZombie(e, id), Rem(e, id), RemZombie(e, id), Forth(e, id),
            Back(e, id), Cancelled(e))
    BY <2>2 DEF Tie
  <2>6. UsedOnly(e, id) BY <2>2 DEF UsedOnly
  <2> QED BY <2>3, <2>4, <2>5, <2>6 DEF Conversation
<1> QED BY <1>2, <1>3, <1>4, <1>5 DEF StiacInv

LEMMA StiacInvKept ==
  ASSUME Restrained, StiacInv, [Next]_vars
  PROVE  StiacInv'
<1>1. CASE UNCHANGED vars
  <2>1. state' = state /\ links' = links /\ zombies' = zombies /\ wire' = wire /\ done' = done
    BY <1>1 DEF vars
  <2>2. StiacType' BY <2>1 DEF StiacInv, StiacType
  <2>3. \A e \in Edges : Ordered(wire'[e]) BY <2>1 DEF StiacInv
  <2>4. \A e \in Edges : Bounded(e)'
    BY <2>1 DEF StiacInv, Bounded, Listed, Loc
  <2>5. ASSUME NEW e \in Edges, NEW id \in Ids PROVE Conversation(e, id)' /\ UsedOnly(e, id)'
    <3>1. Conversation(e, id) /\ UsedOnly(e, id) BY DEF StiacInv
    <3>2. /\ Loc(e, id)' = Loc(e, id) /\ Rem(e, id)' = Rem(e, id)
          /\ LocZombie(e, id)' = LocZombie(e, id) /\ RemZombie(e, id)' = RemZombie(e, id)
          /\ Forth(e, id)' = Forth(e, id) /\ Back(e, id)' = Back(e, id)
          /\ Cancelled(e)' = Cancelled(e) /\ Used(e)' = Used(e)
          /\ Works(e)' = Works(e) /\ Works(Peer(e))' = Works(Peer(e))
      BY <2>1 DEF Loc, Rem, LocZombie, RemZombie, Forth, Back, Cancelled, Used, Works
    <3>3. Conversation(e, id)' BY <3>1, <3>2 DEF Conversation
    <3>4. UsedOnly(e, id)' BY <3>1, <3>2 DEF UsedOnly
    <3> QED BY <3>3, <3>4
  <2>6. Talks' BY <2>2, <2>3, <2>5 DEF Talks, StiacType
  <2> QED BY <2>2, <2>4, <2>6, Together
<1>2. ASSUME NEW e \in Edges, Put(e) PROVE StiacInv'
  BY <1>2, MakesKeeps DEF Put, New
<1>3. ASSUME NEW e \in Edges, Call(e) PROVE StiacInv'
  BY <1>3, MakesKeeps DEF Call, New
<1>4. ASSUME NEW e \in Edges, Destroy(e) PROVE StiacInv'
  BY <1>4, DestroyKeeps
<1>5. ASSUME NEW e \in Edges, Input(e) PROVE StiacInv'
  BY <1>5, InputKeeps
<1>6. ASSUME NEW e \in Edges, NEW id \in Ids, Cancel(e, id) PROVE StiacInv'
  BY <1>6, CancelKeeps
<1>7. ASSUME NEW e \in Edges, NEW id \in Ids, Resolve(e, id) PROVE StiacInv'
  BY <1>7, ResolveKeeps
<1>8. ASSUME NEW e \in Edges, NEW s \in Sides, NEW id \in Ids, Use(e, s, id) PROVE StiacInv'
  BY <1>8, UseKeepsL, UseKeepsR DEF Sides
<1>9. ASSUME NEW e \in Edges, NEW s \in Sides, NEW id \in Ids, Uninvolve(e, s, id) PROVE StiacInv'
  BY <1>9, UninvolveKeepsL, UninvolveKeepsR DEF Sides
<1> QED BY <1>1, <1>2, <1>3, <1>4, <1>5, <1>6, <1>7, <1>8, <1>9 DEF Next

-----------------------------------------------------------------------------
(* What the invariant says of the links.                                     *)
LEMMA RightLinks ==
  ASSUME StiacInv, NEW e \in Edges
  PROVE  RightLink(e)
<1> SUFFICES ASSUME state[e] = "work", wire[e] # <<>>, NEW m, m = Head(wire[e])
             PROVE  \/ m.op \in {"put", "call"}
                    \/ m.op = "end" /\ ~ CanEnd(e, m.side, m.id)
                    \/ Has(e, m.side, m.id) /\ links[e][m.side][m.id].n = m.n
  BY DEF RightLink
<1>1. PICK id \in Ids : id = m.id BY NextMessage
<1>2. Works(e) BY DEF Works
<1>3. CASE m.side = "remote"
  <2>1. PICK p \in Edges : p = Peer(e) /\ Peer(p) = e BY Peers
  <2> DEFINE F2 == Said(Tail(wire[e]), "remote", id)
             B2 == Back(p, id) \union {<<"end", m.n>>}
  <2>2. /\ Terms(Loc(p, id), LocZombie(p, id), Rem(p, id), RemZombie(p, id), Forth(p, id),
                 Back(p, id), Cancelled(p))
        /\ HearR(Rem(p, id), RemZombie(p, id), Forth(p, id))
        /\ Taken(Forth(p, id), F2, m.op, m.n)
        /\ m.op \in New \union {"use", "begin", "cancel", "end"}
    BY <1>1, <1>2, <1>3, <2>1, HearsR
  <2>3. More(B2, Back(p, id), "end", m.n)
    BY DEF More
  <2> HIDE DEF F2, B2
  <2>4. Rem(p, id) = links[e]["remote"][id] /\ RemZombie(p, id) = (id \in zombies[e]["remote"])
    BY <2>1 DEF Rem, RemZombie
  <2>5. ASSUME m.op = "use" PROVE Rem(p, id) # None /\ Rem(p, id).n = m.n
    <3>1. Taken(Forth(p, id), F2, "use", m.n) BY <2>2, <2>5
    <3> QED BY <2>2, <3>1, HearUseR
  <2>6. ASSUME m.op = "cancel" PROVE Rem(p, id) # None /\ Rem(p, id).n = m.n
    <3>1. Taken(Forth(p, id), F2, "cancel", m.n) BY <2>2, <2>6
    <3> QED BY <2>2, <2>3, <3>1, HearCancel
  <2>7. ASSUME m.op = "begin" PROVE Rem(p, id) # None /\ Rem(p, id).n = m.n
    <3>1. Taken(Forth(p, id), F2, "begin", m.n) BY <2>2, <2>7
    <3> QED BY <2>2, <3>1, BeginFindsR
  <2>8. m.op = "end" /\ Rem(p, id) # None => Rem(p, id).n = m.n BY <2>2, HearEndR
  <2> QED BY <1>1, <1>3, <2>2, <2>4, <2>5, <2>6, <2>7, <2>8 DEF Has, CanEnd, New
<1>4. CASE m.side = "local"
  <2> DEFINE B2 == Said(Tail(wire[e]), "local", id)
             F2 == Forth(e, id) \union {<<"end", m.n>>}
  <2>1. /\ Terms(Loc(e, id), LocZombie(e, id), Rem(e, id), RemZombie(e, id), Forth(e, id),
                 Back(e, id), Cancelled(e))
        /\ HearL(Loc(e, id), LocZombie(e, id), Back(e, id), Cancelled(e))
        /\ Taken(Back(e, id), B2, m.op, m.n)
        /\ m.op \in {"use", "begin", "answer", "end"}
    BY <1>1, <1>2, <1>4, HearsL
  <2>2. More(F2, Forth(e, id), "end", m.n)
    BY DEF More
  <2> HIDE DEF B2, F2
  <2>3. Loc(e, id) = links[e]["local"][id] /\ LocZombie(e, id) = (id \in zombies[e]["local"])
    BY DEF Loc, LocZombie
  <2>4. ASSUME m.op = "use" PROVE Loc(e, id) # None /\ Loc(e, id).n = m.n
    <3>1. Taken(Back(e, id), B2, "use", m.n) BY <2>1, <2>4
    <3> QED BY <2>1, <3>1, HearUseL
  <2>5. ASSUME m.op = "answer" PROVE Loc(e, id) # None /\ Loc(e, id).n = m.n
    <3>1. Taken(Back(e, id), B2, "answer", m.n) BY <2>1, <2>5
    <3> QED BY <2>1, <2>2, <3>1, HearAnswer
  <2>6. ASSUME m.op = "begin" PROVE Loc(e, id) # None /\ Loc(e, id).n = m.n
    <3>1. Taken(Back(e, id), B2, "begin", m.n) BY <2>1, <2>6
    <3> QED BY <2>1, <3>1, BeginFindsL
  <2>7. m.op = "end" /\ Loc(e, id) # None /\ LocZombie(e, id) => Loc(e, id).n = m.n
    BY <2>1, HearEndL
  <2> QED BY <1>1, <1>4, <2>1, <2>3, <2>4, <2>5, <2>6, <2>7 DEF Has, CanEnd
<1> QED BY <1>3, <1>4, NextMessage DEF Sides

LEMMA NoLeaks ==
  ASSUME StiacInv
  PROVE  NothingLeaks
<1> SUFFICES ASSUME \A e \in Edges : state[e] = "work" /\ wire[e] = <<>>
             PROVE  \A e \in Edges, id \in Ids :
                      /\ zombies[e]["local"] = {} /\ zombies[e]["remote"] = {}
                      /\ Has(e, "local", id) <=> Has(Peer(e), "remote", id)
                      /\ Has(e, "local", id) =>
                           links[e]["local"][id].n = links[Peer(e)]["remote"][id].n
  BY DEF NothingLeaks
<1>1. ASSUME NEW e \in Edges, NEW id \in Ids
      PROVE  /\ ~LocZombie(e, id) /\ ~RemZombie(e, id)
             /\ Loc(e, id) # None <=> Rem(e, id) # None
             /\ Loc(e, id) # None => Loc(e, id).n = Rem(e, id).n
  <2>1. Peer(e) \in Edges BY Peers
  <2>2. Works(e) /\ Works(Peer(e)) BY <2>1 DEF Works
  <2>3. Forth(e, id) = {} /\ Back(e, id) = {} BY <2>1, Nothing DEF Forth, Back
  <2>4. /\ HearL(Loc(e, id), LocZombie(e, id), {}, Cancelled(e))
        /\ HearR(Rem(e, id), RemZombie(e, id), {})
        /\ Tie(Loc(e, id), LocZombie(e, id), Rem(e, id), RemZombie(e, id), {}, {}, Cancelled(e))
    BY <2>2, <2>3 DEF StiacInv, Conversation
  <2>5. Loc(e, id) # None => /\ Rem(e, id) # None /\ Loc(e, id).n = Rem(e, id).n
                             /\ ~LocZombie(e, id) /\ ~RemZombie(e, id)
    BY <2>4 DEF Tie, Made, Known, Left, Is, Closing
  <2>6. Rem(e, id) # None => Loc(e, id) # None
    BY <2>4 DEF Tie, Late, Is, Closing
  <2>7. (Loc(e, id) = None => ~LocZombie(e, id)) /\ (Rem(e, id) = None => ~RemZombie(e, id))
    BY <2>4 DEF HearL, HearR, Formed
  <2> QED BY <2>5, <2>6, <2>7
<1>2. ASSUME NEW e \in Edges
      PROVE  zombies[e]["local"] = {} /\ zombies[e]["remote"] = {}
  <2>1. Peer(e) \in Edges /\ Peer(Peer(e)) = e BY Peers
  <2>2. zombies[e]["local"] \subseteq Ids /\ zombies[e]["remote"] \subseteq Ids
    BY DEF StiacInv, StiacType, Sides
  <2>3. \A id \in Ids : id \notin zombies[e]["local"] BY <1>1 DEF LocZombie
  <2>4. \A id \in Ids : id \notin zombies[e]["remote"] BY <1>1, <2>1 DEF RemZombie
  <2> QED BY <2>2, <2>3, <2>4
<1>3. ASSUME NEW e \in Edges, NEW id \in Ids
      PROVE  /\ Has(e, "local", id) <=> Has(Peer(e), "remote", id)
             /\ Has(e, "local", id) =>
                  links[e]["local"][id].n = links[Peer(e)]["remote"][id].n
  BY <1>1 DEF Has, Loc, Rem
<1> QED BY <1>2, <1>3

-----------------------------------------------------------------------------
(* Whatever two edges put, call, use, answer and let go of, and however what *)
(* they say crosses on the way, neither meets a message in LocalEdge::input  *)
(* that it cannot make sense of, if an end that cancels calls does so once   *)
(* and passes no interface.                                                  *)
THEOREM NeverFails ==
  ASSUME Restrained
  PROVE  Spec => []NoFails
<1>1. Init => StiacInv BY StiacInvInit
<1>2. StiacInv /\ [Next]_vars => StiacInv' BY StiacInvKept
<1>3. StiacInv => NoFails BY DEF StiacInv, StiacType, NoFails
<1> QED BY <1>1, <1>2, <1>3, PTL DEF Spec

(* The two edges mean the same link by a number: a message meets the link    *)
(* that it was sent for, and when nothing is on its way both have the same   *)
(* links and no link waits for its end to be said (localLinks, remoteLinks). *)
THEOREM LinksAlwaysPair ==
  ASSUME Restrained
  PROVE  Spec => []LinksPair
<1>1. Init => StiacInv BY StiacInvInit
<1>2. StiacInv /\ [Next]_vars => StiacInv' BY StiacInvKept
<1>3. StiacInv => LinksPair
  <2>1. StiacInv => \A e \in Edges : RightLink(e) BY RightLinks
  <2>2. StiacInv => NothingLeaks BY NoLeaks
  <2> QED BY <2>1, <2>2 DEF LinksPair
<1> QED BY <1>1, <1>2, <1>3, PTL DEF Spec
==============================================================================
