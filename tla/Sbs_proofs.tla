------------------------------ MODULE Sbs_proofs ------------------------------
(***************************************************************************)
(* Proofs about boxes of subscriptions, for any numbers of subscriptions,    *)
(* owners and activations in progress: nothing refers to a deleted           *)
(* subscription, and the linked list with its enumerators implements Signal. *)
(***************************************************************************)
EXTENDS Sbs, ListLemmas, FiniteSetTheorems

-----------------------------------------------------------------------------
(* The inductive invariant.                                                  *)

Pointer == Subs \union {Null}
Frame == [at : {"none", "in", "loop"}, cur : Pointer, next : Pointer, last : Pointer,
          listed : BOOLEAN, final : BOOLEAN, del : BOOLEAN]

Typed ==
  /\ nextInBox \in [Subs -> Pointer] /\ prevInBox \in [Subs -> Pointer]
  /\ inBox \in [Subs -> BOOLEAN]
  /\ owned \in [Owners -> Seq(Subs)]
  /\ closing \subseteq Subs
  /\ life \in [Subs -> {"unborn", "live", "deleted"}]
  /\ act \in [Acts -> Frame]
  /\ loops \subseteq Loops /\ usable \in BOOLEAN

(* Enumerator e stands in list c and has t to call.                          *)
Rest(e, c, t) ==
  \/ e.next = Null /\ e.last = Null /\ t = <<>>
  \/ /\ e.listed
     /\ \E i, j \in DOMAIN c : i <= j /\ e.next = c[i] /\ e.last = c[j] /\ t = SubSeq(c, i, j)

(* The pointers make list c, every other pointer is null, and activation a    *)
(* has t[a] to call.                                                         *)
Listed(c, t) ==
  /\ c \in Seq(Subs) /\ Linked(c)
  /\ \A s \in Subs : ~inBox[s] => nextInBox[s] = Null /\ prevInBox[s] = Null
  /\ t \in [Acts -> Seq(Subs)] /\ \A a \in Acts : Rest(act[a], c, t[a])
Chained == \E c, t : Listed(c, t)

Owning == \A o \in Owners : IsInjective(owned[o]) /\ \A s \in Range(owned[o]) : inBox[s]

Framed ==
  \A a \in Acts :
    /\ act[a].at = "in" <=> act[a].cur \in Subs
    /\ act[a].at = "none" => act[a] = NoAct
    /\ act[a].final => act[a].at = "in" /\ ~act[a].listed

Living ==
  \A s \in Subs :
    /\ life[s] = "unborn" => s \notin closing
    /\ inBox[s] => life[s] = "live" /\ s \notin closing
    /\ Running(s) # {} => life[s] = "live"
    /\ life[s] = "live" => inBox[s] \/ (s \in closing /\ Running(s) # {})

SbsInv == Typed /\ Chained /\ Owning /\ Framed /\ Living

-----------------------------------------------------------------------------
(* Sequences.                                                                *)

LEMMA PartFacts ==
  ASSUME NEW S, NEW c \in Seq(S), NEW i \in DOMAIN c, NEW j \in DOMAIN c, i <= j
  PROVE  /\ SubSeq(c, i, j) \in Seq(S) /\ Len(SubSeq(c, i, j)) = j - i + 1
         /\ \A m \in 1 .. j - i + 1 : SubSeq(c, i, j)[m] = c[i + m - 1]
<1>1. i \in Int /\ j \in Int /\ \A m \in i .. j : c[m] \in S OBVIOUS
<1> QED BY <1>1, SubSeqProperties

(* A part of a list without one element of the list.                         *)
LEMMA PartWithout ==
  ASSUME NEW S, NEW c \in Seq(S), IsInjective(c), NEW k \in DOMAIN c,
         NEW i \in DOMAIN c, NEW j \in DOMAIN c, i <= j,
         NEW d, d = RemoveAt(c, k), NEW t, t = RemoveFirst(SubSeq(c, i, j), c[k])
  PROVE  /\ k < i => t = SubSeq(d, i - 1, j - 1)
         /\ j < k => t = SubSeq(d, i, j)
         /\ k = i /\ k = j => t = <<>>
         /\ i <= k /\ k <= j /\ i # j => t = SubSeq(d, i, j - 1)
<1> DEFINE p == SubSeq(c, i, j)
<1>1. /\ p \in Seq(S) /\ Len(p) = j - i + 1
      /\ \A m \in 1 .. j - i + 1 : p[m] = c[i + m - 1]
  BY PartFacts
<1>2. /\ d \in Seq(S) /\ Len(d) = Len(c) - 1
      /\ \A m \in 1 .. Len(c) - 1 : d[m] = IF m < k THEN c[m] ELSE c[m + 1]
  BY RemoveAtPositions
<1>3. t = RemoveFirst(p, c[k]) OBVIOUS
<1> HIDE DEF p
<1>4. /\ Len(c) \in Nat /\ i \in 1 .. Len(c) /\ j \in 1 .. Len(c) /\ k \in 1 .. Len(c)
      /\ DOMAIN p = 1 .. j - i + 1
  BY <1>1
<1>5. /\ \A m \in 1 .. j - i + 1 : i + m - 1 \in DOMAIN c
      /\ \A m, n \in DOMAIN c : c[m] = c[n] => m = n
  BY <1>4, SMTT(30) DEF IsInjective
<1>6. IsInjective(p)
  <2> SUFFICES ASSUME NEW m \in 1 .. j - i + 1, NEW n \in 1 .. j - i + 1, p[m] = p[n] PROVE m = n
    BY <1>4 DEF IsInjective
  <2>1. c[i + m - 1] = c[i + n - 1] BY <1>1
  <2>2. i + m - 1 = i + n - 1 BY <1>5, <2>1
  <2> QED BY <1>4, <2>2
<1>7. ASSUME k < i \/ j < k PROVE t = p
  <2>1. \A m \in 1 .. j - i + 1 : p[m] # c[k]
    <3> TAKE m \in 1 .. j - i + 1
    <3>1. i + m - 1 # k BY <1>4, <1>7
    <3>2. c[i + m - 1] # c[k] BY <1>5, <3>1
    <3> QED BY <1>1, <3>2
  <2>2. c[k] \notin Range(p) BY <1>4, <2>1 DEF Range
  <2> QED BY <1>1, <1>3, <1>6, <2>2, RemoveFirstFacts
<1>8. ASSUME k < i PROVE t = SubSeq(d, i - 1, j - 1)
  <2> DEFINE q == SubSeq(d, i - 1, j - 1)
  <2>1. i - 1 \in DOMAIN d /\ j - 1 \in DOMAIN d /\ i - 1 <= j - 1 BY <1>2, <1>4, <1>8
  <2>2. /\ q \in Seq(S) /\ Len(q) = (j - 1) - (i - 1) + 1
        /\ \A m \in 1 .. (j - 1) - (i - 1) + 1 : q[m] = d[(i - 1) + m - 1]
    BY <1>2, <2>1, PartFacts, ZenonT(30)
  <2> HIDE DEF q
  <2>3. ASSUME NEW m \in 1 .. j - i + 1 PROVE p[m] = q[m]
    <3>1. (i - 1) + m - 1 \in 1 .. Len(c) - 1 /\ ~((i - 1) + m - 1 < k)
          /\ (i - 1) + m - 1 + 1 = i + m - 1 /\ (j - 1) - (i - 1) + 1 = j - i + 1
      BY <1>4, <1>8, SMTT(30)
    <3>2. q[m] = d[(i - 1) + m - 1] BY <2>2, <3>1
    <3>3. d[(i - 1) + m - 1] = c[i + m - 1] BY <1>2, <3>1
    <3> QED BY <1>1, <3>2, <3>3
  <2>4. Len(q) = Len(p) BY <1>1, <1>4, <2>2
  <2>5. p = q BY <1>1, <2>2, <2>3, <2>4, SeqEqual
  <2> QED BY <1>7, <1>8, <2>5 DEF q
<1>9. ASSUME j < k PROVE t = SubSeq(d, i, j)
  <2> DEFINE q == SubSeq(d, i, j)
  <2>1. i \in DOMAIN d /\ j \in DOMAIN d BY <1>2, <1>4, <1>9
  <2>2. /\ q \in Seq(S) /\ Len(q) = j - i + 1
        /\ \A m \in 1 .. j - i + 1 : q[m] = d[i + m - 1]
    BY <1>2, <2>1, PartFacts
  <2> HIDE DEF q
  <2>3. ASSUME NEW m \in 1 .. j - i + 1 PROVE p[m] = q[m]
    <3>1. i + m - 1 \in 1 .. Len(c) - 1 /\ i + m - 1 < k BY <1>4, <1>9
    <3> QED BY <1>1, <1>2, <2>2, <3>1
  <2>5. p = q BY <1>1, <2>2, <2>3, SeqEqual
  <2> QED BY <1>7, <1>9, <2>5 DEF q
<1>10. ASSUME i <= k, k <= j
       PROVE  /\ t \in Seq(S) /\ Len(t) = j - i
              /\ \A m \in 1 .. j - i : t[m] = IF m < k - i + 1 THEN p[m] ELSE p[m + 1]
  <2> DEFINE n == k - i + 1
  <2>1. n \in DOMAIN p /\ p[n] = c[k]
    <3>1. n \in 1 .. j - i + 1 /\ i + n - 1 = k BY <1>4, <1>10
    <3> QED BY <1>1, <1>4, <3>1
  <2>2. t = RemoveAt(p, n) BY <1>1, <1>3, <1>6, <2>1, RemoveFirstFacts
  <2>3. Len(p) - 1 = j - i BY <1>1, <1>4
  <2> HIDE DEF n
  <2>4. /\ t \in Seq(S) /\ Len(t) = j - i
        /\ \A m \in 1 .. j - i : t[m] = IF m < n THEN p[m] ELSE p[m + 1]
    BY <1>1, <2>1, <2>2, <2>3, RemoveAtPositions, ZenonT(30)
  <2> QED BY <2>4 DEF n
<1>11. ASSUME k = i, k = j PROVE t = <<>>
  <2>1. t \in Seq(S) /\ Len(t) = 0 BY <1>4, <1>10, <1>11
  <2> QED BY <2>1
<1>12. ASSUME i <= k, k <= j, i # j PROVE t = SubSeq(d, i, j - 1)
  <2> DEFINE q == SubSeq(d, i, j - 1)
  <2>1. i \in DOMAIN d /\ j - 1 \in DOMAIN d /\ i <= j - 1 BY <1>2, <1>4, <1>12
  <2>2. /\ q \in Seq(S) /\ Len(q) = (j - 1) - i + 1
        /\ \A m \in 1 .. (j - 1) - i + 1 : q[m] = d[i + m - 1]
    BY <1>2, <2>1, PartFacts
  <2> HIDE DEF q
  <2>3. (j - 1) - i + 1 = j - i BY <1>4
  <2>4. /\ t \in Seq(S) /\ Len(t) = j - i
        /\ \A m \in 1 .. j - i : t[m] = IF m < k - i + 1 THEN p[m] ELSE p[m + 1]
    BY <1>10, <1>12
  <2>5. ASSUME NEW m \in 1 .. j - i PROVE t[m] = q[m]
    <3>1. i + m - 1 \in 1 .. Len(c) - 1 /\ m \in 1 .. j - i + 1 /\ m + 1 \in 1 .. j - i + 1
          /\ i + (m + 1) - 1 = (i + m - 1) + 1
          /\ (m < k - i + 1 <=> i + m - 1 < k)
      BY <1>4, <1>12, SMTT(30)
    <3>2. q[m] = IF i + m - 1 < k THEN c[i + m - 1] ELSE c[(i + m - 1) + 1]
      <4>1. q[m] = d[i + m - 1] BY <2>2, <2>3
      <4> QED BY <1>2, <3>1, <4>1
    <3>3. p[m] = c[i + m - 1] /\ p[m + 1] = c[(i + m - 1) + 1]
      <4>1. p[m + 1] = c[i + (m + 1) - 1] BY <1>1, <3>1
      <4> QED BY <1>1, <3>1, <4>1
    <3> QED BY <2>4, <3>1, <3>2, <3>3
  <2>6. t = q BY <2>2, <2>3, <2>4, <2>5, SeqEqual
  <2> QED BY <2>6 DEF q
<1> QED BY <1>8, <1>9, <1>11, <1>12

LEMMA PartNext ==
  ASSUME NEW S, NEW c \in Seq(S), NEW k \in Int, NEW n \in Int, n = k + 1, NEW j \in DOMAIN c,
         k \in DOMAIN c, n <= j
  PROVE  Tail(SubSeq(c, k, j)) = SubSeq(c, n, j)
OBVIOUS

(* The first of a part of a list taken away.                                 *)
LEMMA PartTail ==
  ASSUME NEW S, NEW c \in Seq(S), IsInjective(c), NEW k \in DOMAIN c, NEW j \in DOMAIN c, k < j
  PROVE  /\ RemoveFirst(SubSeq(c, k, j), c[k]) = Tail(SubSeq(c, k, j))
         /\ Tail(SubSeq(c, k, j)) # <<>>
<1> DEFINE p == SubSeq(c, k, j)
           w == Tail(p)
           d == RemoveAt(c, k)
           q == SubSeq(d, k, j - 1)
<1>1. Len(c) \in Nat /\ k \in 1 .. Len(c) /\ j \in 1 .. Len(c) OBVIOUS
<1>2. /\ p \in Seq(S) /\ Len(p) = j - k + 1 /\ \A m \in 1 .. j - k + 1 : p[m] = c[k + m - 1]
  BY <1>1, PartFacts
<1> HIDE DEF p
<1>3. p # <<>> BY <1>1, <1>2
<1>4. /\ w \in Seq(S) /\ Len(w) = j - k /\ \A m \in 1 .. j - k : w[m] = c[k + m]
  <2>1. w \in Seq(S) /\ Len(w) = j - k /\ \A m \in 1 .. j - k : w[m] = p[m + 1]
    BY <1>1, <1>2, <1>3
  <2>2. \A m \in 1 .. j - k : m + 1 \in 1 .. j - k + 1 /\ k + (m + 1) - 1 = k + m BY <1>1
  <2> QED BY <1>2, <2>1, <2>2
<1> HIDE DEF w
<1>5. w # <<>>
  <2>1. Len(w) # 0 BY <1>1, <1>4
  <2> QED BY <1>4, <2>1
<1>7. RemoveFirst(p, c[k]) = q
  <2>1. k <= j /\ k <= k /\ k # j BY <1>1
  <2>2. k <= k /\ k <= j /\ k # j => RemoveFirst(SubSeq(c, k, j), c[k]) = q BY <2>1, PartWithout
  <2> QED BY <2>1, <2>2 DEF p
<1>8. w = q
  <2>1. /\ d \in Seq(S) /\ Len(d) = Len(c) - 1
        /\ \A m \in 1 .. Len(c) - 1 : d[m] = IF m < k THEN c[m] ELSE c[m + 1]
    BY RemoveAtPositions
  <2> HIDE DEF d
  <2>2. k \in DOMAIN d /\ j - 1 \in DOMAIN d /\ k <= j - 1 BY <1>1, <2>1
  <2>3. /\ q \in Seq(S) /\ Len(q) = (j - 1) - k + 1
        /\ \A m \in 1 .. (j - 1) - k + 1 : q[m] = d[k + m - 1]
    BY <2>1, <2>2, PartFacts
  <2> HIDE DEF q
  <2>4. ASSUME NEW m \in 1 .. j - k PROVE q[m] = c[k + m]
    <3>1. /\ k + m - 1 \in 1 .. Len(c) - 1 /\ ~(k + m - 1 < k) /\ (k + m - 1) + 1 = k + m
          /\ (j - 1) - k + 1 = j - k
      BY <1>1
    <3>2. q[m] = d[k + m - 1] BY <2>3, <3>1
    <3>3. d[k + m - 1] = c[(k + m - 1) + 1] BY <2>1, <3>1
    <3> QED BY <3>1, <3>2, <3>3
  <2>5. Len(q) = j - k BY <1>1, <2>3
  <2> QED BY <1>4, <2>3, <2>4, <2>5, SeqEqual
<1> QED BY <1>5, <1>7, <1>8 DEF p, w

-----------------------------------------------------------------------------
(* The list of the box.                                                      *)

LEMMA ListSize ==
  ASSUME NEW c \in Seq(Subs), Linked(c)
  PROVE  Cardinality({s \in Subs : inBox[s]}) = Len(c)
<1> DEFINE T == {s \in Subs : inBox[s]}
<1>1. Range(c) = T /\ IsInjective(c) BY DEF Linked
<1>2. c \in [1 .. Len(c) -> T] /\ \A x \in T : \E i \in 1 .. Len(c) : c[i] = x BY <1>1 DEF Range
<1>3. c \in Surjection(1 .. Len(c), T) /\ c \in Injection(1 .. Len(c), T)
  BY <1>1, <1>2 DEF Surjection, Injection
<1>4. 1 \in Int /\ Len(c) \in Int /\ Len(c) >= 0 OBVIOUS
<1>5. IsFiniteSet(1 .. Len(c)) /\ Cardinality(1 .. Len(c)) = Len(c) BY <1>4, FS_Interval
<1> HIDE DEF T
<1>6. Cardinality(T) = Cardinality(1 .. Len(c)) BY <1>3, <1>5, FS_Surjection
<1> QED BY <1>5, <1>6 DEF T

LEMMA OneList ==
  ASSUME NEW c \in Seq(Subs), NEW d \in Seq(Subs), Linked(c), Linked(d), Len(c) = Len(d)
  PROVE  c = d
<1> DEFINE S == {i \in 1 .. Len(c) : c[i] # d[i]}
<1>1. SUFFICES ASSUME S # {} PROVE FALSE
  <2>1. SUFFICES ASSUME S = {} PROVE c = d BY <1>1
  <2>2. \A i \in 1 .. Len(c) : c[i] = d[i] BY <2>1
  <2> QED BY <2>2, SeqEqual
<1>2. S \in SUBSET Nat OBVIOUS
<1> DEFINE i == Min(S)
<1>3. i \in S /\ \A y \in S : i <= y BY <1>1, <1>2, MinFacts
<1> HIDE DEF i
<1>4. i \in 1 .. Len(c) /\ c[i] # d[i] BY <1>3
<1>5. CASE i = 1
  <2>1. c # <<>> /\ d # <<>> BY <1>4
  <2> QED BY <1>4, <1>5, <2>1 DEF Linked
<1>6. CASE i # 1
  <2> DEFINE j == i - 1
  <2>1. j \in 1 .. Len(c) /\ j # Len(c) /\ j + 1 = i /\ ~(i <= j) BY <1>4, <1>6
  <2>2. c[j] = d[j] BY <1>3, <2>1
  <2>3. nextInBox[c[j]] = c[j + 1] /\ nextInBox[d[j]] = d[j + 1] BY <2>1 DEF Linked
  <2> QED BY <1>4, <2>1, <2>2, <2>3
<1> QED BY <1>5, <1>6

LEMMA ListIs ==
  ASSUME NEW c \in Seq(Subs), Linked(c)
  PROVE  List = c
<1> DEFINE n == Cardinality({s \in Subs : inBox[s]})
<1>1. n = Len(c) BY ListSize
<1>2. c \in [1 .. Len(c) -> Subs] OBVIOUS
<1> HIDE DEF n
<1>3. List \in [1 .. n -> Subs] /\ Linked(List) BY <1>1, <1>2 DEF List, n
<1>4. List \in Seq(Subs) /\ Len(List) = Len(c) BY <1>1, <1>3
<1> HIDE DEF List
<1> QED BY <1>3, <1>4, OneList

(* What an enumerator has left is what Left says.                            *)
LEMMA LeftIs ==
  ASSUME NEW c \in Seq(Subs), Linked(c), NEW e, NEW t, Rest(e, c, t)
  PROVE  Left(e) = t
<1>1. List = c BY ListIs
<1>2. CASE e.next = Null /\ e.last = Null /\ t = <<>> BY <1>2 DEF Left
<1>3. CASE ~(e.next = Null /\ e.last = Null /\ t = <<>>)
  <2>1. PICK i \in DOMAIN c, j \in DOMAIN c :
          i <= j /\ e.next = c[i] /\ e.last = c[j] /\ t = SubSeq(c, i, j)
    BY <1>3 DEF Rest
  <2>2. e.next # Null BY <2>1, SbsAssumption
  <2>3. \A m, n \in DOMAIN c : c[m] = c[n] => m = n BY DEF Linked, IsInjective
  <2>4. (CHOOSE m \in DOMAIN c : c[m] = c[i]) = i /\ (CHOOSE m \in DOMAIN c : c[m] = c[j]) = j
    BY <2>1, <2>3
  <2> QED BY <1>1, <2>1, <2>2, <2>4 DEF Left
<1> QED BY <1>2, <1>3

(* Box::remove mends the list.                                               *)
LEMMA UnlinkFacts ==
  ASSUME Typed, NEW c \in Seq(Subs), Linked(c), NEW k \in DOMAIN c, RemoveSelf(c[k]),
         NEW d, d = RemoveAt(c, k)
  PROVE  d \in Seq(Subs) /\ Linked(d)'
<1> DEFINE s == c[k]
<1>1. /\ d \in Seq(Subs) /\ Len(d) = Len(c) - 1
      /\ \A i \in 1 .. Len(c) - 1 : d[i] = IF i < k THEN c[i] ELSE c[i + 1]
  BY RemoveAtPositions
<1>2. /\ IsInjective(c) /\ Range(c) = {x \in Subs : inBox[x]}
      /\ c # <<>> /\ first = c[1] /\ last = c[Len(c)]
      /\ \A i \in DOMAIN c : /\ nextInBox[c[i]] = (IF i = Len(c) THEN Null ELSE c[i + 1])
                             /\ prevInBox[c[i]] = (IF i = 1 THEN Null ELSE c[i - 1])
  BY DEF Linked
<1>3. Range(d) = Range(c) \ {s} /\ IsInjective(d) BY <1>2, RemoveAtFacts
<1>4. /\ Len(c) \in Nat /\ k \in 1 .. Len(c) /\ s \in Subs /\ DOMAIN c = 1 .. Len(c)
      /\ s # Null /\ \A i \in DOMAIN c : c[i] \in Subs /\ c[i] # Null
  BY SbsAssumption
<1>5. \A m, n \in DOMAIN c : c[m] = c[n] => m = n BY <1>2 DEF IsInjective
<1>6. /\ nextInBox[s] = (IF k = Len(c) THEN Null ELSE c[k + 1])
      /\ prevInBox[s] = (IF k = 1 THEN Null ELSE c[k - 1])
  BY <1>2
<1>7. /\ first' = IF s = first THEN nextInBox[s] ELSE first
      /\ last' = IF s = last THEN prevInBox[s] ELSE last
      /\ inBox' = [inBox EXCEPT ![s] = FALSE]
      /\ \A x \in Subs : x # s => nextInBox'[x] = IF x = prevInBox[s] THEN nextInBox[s] ELSE nextInBox[x]
      /\ \A x \in Subs : x # s => prevInBox'[x] = IF x = nextInBox[s] THEN prevInBox[s] ELSE prevInBox[x]
  BY DEF RemoveSelf
<1> HIDE DEF s
<1>s. s = c[k] BY DEF s
<1>8. Range(d) = {x \in Subs : inBox'[x]}
  <2>1. \A x \in Subs : inBox'[x] <=> inBox[x] /\ x # s BY <1>4, <1>7 DEF Typed
  <2> QED BY <1>2, <1>3, <2>1
<1>9. first' = (IF d = <<>> THEN Null ELSE d[1])
  <2>1. CASE Len(c) = 1
    <3>1. d = <<>> BY <1>1, <2>1
    <3> QED BY <1>2, <1>4, <1>6, <1>7, <1>s, <2>1, <3>1
  <2>2. CASE Len(c) # 1 /\ k = 1
    <3>1. d # <<>> /\ d[1] = c[1 + 1] BY <1>1, <1>4, <2>2
    <3> QED BY <1>2, <1>4, <1>6, <1>7, <1>s, <2>2, <3>1
  <2>3. CASE Len(c) # 1 /\ k # 1
    <3>1. d # <<>> /\ d[1] = c[1] BY <1>1, <1>4, <2>3
    <3>2. c[1] # s BY <1>4, <1>5, <1>s, <2>3
    <3> QED BY <1>2, <1>7, <3>1, <3>2
  <2> QED BY <2>1, <2>2, <2>3
<1>10. last' = (IF d = <<>> THEN Null ELSE d[Len(d)])
  <2>1. CASE Len(c) = 1
    <3>1. d = <<>> BY <1>1, <2>1
    <3> QED BY <1>2, <1>4, <1>6, <1>7, <1>s, <2>1, <3>1
  <2>2. CASE Len(c) # 1 /\ k = Len(c)
    <3>1. d # <<>> /\ d[Len(d)] = c[k - 1] BY <1>1, <1>4, <2>2
    <3> QED BY <1>2, <1>4, <1>6, <1>7, <1>s, <2>2, <3>1
  <2>3. CASE Len(c) # 1 /\ k # Len(c)
    <3>1. d # <<>> /\ d[Len(d)] = c[(Len(c) - 1) + 1] BY <1>1, <1>4, <2>3
    <3>2. (Len(c) - 1) + 1 = Len(c) /\ Len(c) \in DOMAIN c BY <1>4
    <3>3. c[Len(c)] # s BY <1>5, <1>s, <2>3, <3>2
    <3> QED BY <1>2, <1>7, <3>1, <3>2, <3>3
  <2> QED BY <2>1, <2>2, <2>3
<1>11. ASSUME NEW i \in DOMAIN d
       PROVE  nextInBox'[d[i]] = (IF i = Len(d) THEN Null ELSE d[i + 1])
  <2>1. i \in 1 .. Len(c) - 1 BY <1>1
  <2> DEFINE n == IF i < k THEN i ELSE i + 1
  <2>2. n \in DOMAIN c /\ n # k /\ d[i] = c[n] BY <1>1, <1>4, <2>1
  <2>3. c[n] # s /\ c[n] \in Subs BY <1>4, <1>5, <1>s, <2>2
  <2>4. nextInBox[c[n]] = (IF n = Len(c) THEN Null ELSE c[n + 1]) BY <1>2, <2>2
  <2>5. c[n] = prevInBox[s] <=> k # 1 /\ n = k - 1
    <3>1. CASE k = 1 BY <1>4, <1>6, <2>2, <3>1
    <3>2. CASE k # 1
      <4>1. k - 1 \in DOMAIN c BY <1>4, <3>2
      <4> QED BY <1>5, <1>6, <2>2, <3>2, <4>1
    <3> QED BY <3>1, <3>2
  <2>6. nextInBox'[d[i]] = IF k # 1 /\ n = k - 1 THEN nextInBox[s] ELSE nextInBox[c[n]]
    BY <1>7, <2>2, <2>3, <2>5
  <2>7. CASE k # 1 /\ n = k - 1
    <3>1. i = k - 1 BY <1>4, <2>1, <2>7
    <3>2. i = Len(d) <=> k = Len(c) BY <1>1, <1>4, <3>1
    <3>3. k # Len(c) => d[i + 1] = c[k + 1] BY <1>1, <1>4, <3>1
    <3> QED BY <1>6, <2>6, <2>7, <3>2, <3>3
  <2>8. CASE ~(k # 1 /\ n = k - 1)
    <3>1. i = Len(d) <=> n = Len(c) BY <1>1, <1>4, <2>1, <2>8
    <3>2. i # Len(d) => d[i + 1] = c[n + 1] BY <1>1, <1>4, <2>1, <2>8
    <3> QED BY <2>4, <2>6, <2>8, <3>1, <3>2
  <2> QED BY <2>7, <2>8
<1>12. ASSUME NEW i \in DOMAIN d
       PROVE  prevInBox'[d[i]] = (IF i = 1 THEN Null ELSE d[i - 1])
  <2>1. i \in 1 .. Len(c) - 1 BY <1>1
  <2> DEFINE n == IF i < k THEN i ELSE i + 1
  <2>2. n \in DOMAIN c /\ n # k /\ d[i] = c[n] BY <1>1, <1>4, <2>1
  <2>3. c[n] # s /\ c[n] \in Subs BY <1>4, <1>5, <1>s, <2>2
  <2>4. prevInBox[c[n]] = (IF n = 1 THEN Null ELSE c[n - 1]) BY <1>2, <2>2
  <2>5. c[n] = nextInBox[s] <=> k # Len(c) /\ n = k + 1
    <3>1. CASE k = Len(c) BY <1>4, <1>6, <2>2, <3>1
    <3>2. CASE k # Len(c)
      <4>1. k + 1 \in DOMAIN c BY <1>4, <3>2
      <4> QED BY <1>5, <1>6, <2>2, <3>2, <4>1
    <3> QED BY <3>1, <3>2
  <2>6. prevInBox'[d[i]] = IF k # Len(c) /\ n = k + 1 THEN prevInBox[s] ELSE prevInBox[c[n]]
    BY <1>7, <2>2, <2>3, <2>5
  <2>7. CASE k # Len(c) /\ n = k + 1
    <3>1. i = k BY <1>4, <2>1, <2>7
    <3>3. k # 1 => d[i - 1] = c[k - 1] BY <1>1, <1>4, <3>1
    <3> QED BY <1>6, <2>6, <2>7, <3>1, <3>3
  <2>8. CASE ~(k # Len(c) /\ n = k + 1)
    <3>1. i = 1 <=> n = 1 BY <1>1, <1>4, <2>1, <2>8
    <3>2. i # 1 => d[i - 1] = c[n - 1] BY <1>1, <1>4, <2>1, <2>8
    <3> QED BY <2>4, <2>6, <2>8, <3>1, <3>2
  <2> QED BY <2>7, <2>8
<1> QED BY <1>1, <1>3, <1>8, <1>9, <1>10, <1>11, <1>12 DEF Linked

LEMMA RemoveFirstSafe ==
  ASSUME NEW S, NEW l \in Seq(S), IsInjective(l), NEW x
  PROVE  /\ RemoveFirst(l, x) \in Seq(S) /\ IsInjective(RemoveFirst(l, x))
         /\ Range(RemoveFirst(l, x)) = Range(l) \ {x}
<1>1. CASE x \notin Range(l) BY <1>1, RemoveFirstFacts
<1>2. CASE x \in Range(l)
  <2>1. PICK k \in DOMAIN l : x = l[k] BY <1>2 DEF Range
  <2> QED BY <2>1, RemoveFirstFacts, RemoveAtFacts
<1> QED BY <1>1, <1>2

(* ... and leaves no pointer to what it removed.                             *)
LEMMA RemovalFacts ==
  ASSUME Typed, Owning, NEW c, NEW t, Listed(c, t), NEW k \in DOMAIN c, RemoveSelf(c[k])
  PROVE  /\ nextInBox' \in [Subs -> Pointer] /\ prevInBox' \in [Subs -> Pointer]
         /\ inBox' \in [Subs -> BOOLEAN] /\ inBox' = [inBox EXCEPT ![c[k]] = FALSE]
         /\ \A s \in Subs : ~inBox'[s] => nextInBox'[s] = Null /\ prevInBox'[s] = Null
         /\ owned' \in [Owners -> Seq(Subs)] /\ Owning'
         /\ inBox[c[k]]
<1> DEFINE s == c[k]
<1>1. /\ c \in Seq(Subs) /\ Range(c) = {x \in Subs : inBox[x]}
      /\ \A x \in Subs : ~inBox[x] => nextInBox[x] = Null /\ prevInBox[x] = Null
      /\ \A i \in DOMAIN c : /\ nextInBox[c[i]] = (IF i = Len(c) THEN Null ELSE c[i + 1])
                             /\ prevInBox[c[i]] = (IF i = 1 THEN Null ELSE c[i - 1])
  BY DEF Listed, Linked
<1>2. s \in Subs /\ inBox[s] BY <1>1 DEF Range
<1>3. nextInBox[s] = Null \/ (nextInBox[s] \in Subs /\ inBox[nextInBox[s]])
  <2>1. CASE k = Len(c) BY <1>1, <2>1
  <2>2. CASE k # Len(c)
    <3>1. k + 1 \in DOMAIN c BY <1>1, <2>2
    <3> QED BY <1>1, <2>2, <3>1 DEF Range
  <2> QED BY <2>1, <2>2
<1>4. prevInBox[s] = Null \/ (prevInBox[s] \in Subs /\ inBox[prevInBox[s]])
  <2>1. CASE k = 1 BY <1>1, <2>1
  <2>2. CASE k # 1
    <3>1. k - 1 \in DOMAIN c BY <1>1, <2>2
    <3> QED BY <1>1, <2>2, <3>1 DEF Range
  <2> QED BY <2>1, <2>2
<1> HIDE DEF s
<1>5. /\ owned' = [o \in Owners |-> RemoveFirst(owned[o], s)]
      /\ nextInBox' = [x \in Subs |-> IF x = s THEN Null
                                       ELSE IF x = prevInBox[s] THEN nextInBox[s] ELSE nextInBox[x]]
      /\ prevInBox' = [x \in Subs |-> IF x = s THEN Null
                                       ELSE IF x = nextInBox[s] THEN prevInBox[s] ELSE prevInBox[x]]
      /\ inBox' = [inBox EXCEPT ![s] = FALSE]
  BY DEF RemoveSelf, s
<1>6. nextInBox' \in [Subs -> Pointer] /\ prevInBox' \in [Subs -> Pointer]
  BY <1>2, <1>5 DEF Typed, Pointer
<1>7. inBox' \in [Subs -> BOOLEAN] /\ \A x \in Subs : inBox'[x] <=> inBox[x] /\ x # s
  BY <1>2, <1>5 DEF Typed
<1>8. ASSUME NEW x \in Subs, ~inBox'[x] PROVE nextInBox'[x] = Null /\ prevInBox'[x] = Null
  <2>1. CASE x = s BY <1>5, <2>1
  <2>2. CASE x # s
    <3>1. ~inBox[x] BY <1>7, <1>8, <2>2
    <3>2. x # prevInBox[s] /\ x # nextInBox[s] BY <1>3, <1>4, <3>1, SbsAssumption
    <3>3. nextInBox'[x] = nextInBox[x] /\ prevInBox'[x] = prevInBox[x] BY <1>5, <2>2, <3>2
    <3> QED BY <1>1, <3>1, <3>3
  <2> QED BY <2>1, <2>2
<1>9. ASSUME NEW o \in Owners
      PROVE  /\ owned'[o] \in Seq(Subs) /\ IsInjective(owned'[o])
             /\ \A x \in Range(owned'[o]) : inBox'[x]
  <2>1. owned[o] \in Seq(Subs) /\ IsInjective(owned[o]) /\ \A x \in Range(owned[o]) : inBox[x]
    BY DEF Typed, Owning
  <2>2. /\ owned'[o] \in Seq(Subs) /\ IsInjective(owned'[o])
        /\ Range(owned'[o]) = Range(owned[o]) \ {s}
    BY <1>5, <2>1, RemoveFirstSafe
  <2>3. Range(owned[o]) \subseteq Subs BY <2>1 DEF Range
  <2> QED BY <1>7, <2>1, <2>2, <2>3
<1>10. owned' \in [Owners -> Seq(Subs)] BY <1>5, <1>9
<1>11. Owning' BY <1>9 DEF Owning
<1> QED BY <1>2, <1>5, <1>6, <1>7, <1>8, <1>10, <1>11 DEF s

(* Box::remove keeps every enumerator in the list, over the subscription.    *)
LEMMA MovedFacts ==
  ASSUME Typed, NEW c \in Seq(Subs), Linked(c), NEW k \in DOMAIN c,
         NEW e \in Frame, NEW t, Rest(e, c, t)
  PROVE  /\ Moved(e, c[k]) \in Frame
         /\ Moved(e, c[k]).at = e.at /\ Moved(e, c[k]).cur = e.cur
         /\ Moved(e, c[k]).listed = e.listed /\ Moved(e, c[k]).final = e.final
         /\ Moved(e, c[k]).del = e.del
         /\ Rest(Moved(e, c[k]), RemoveAt(c, k), RemoveFirst(t, c[k]))
<1> DEFINE s == c[k]
           d == RemoveAt(c, k)
           m == Moved(e, s)
<1>1. /\ IsInjective(c)
      /\ \A i \in DOMAIN c : /\ nextInBox[c[i]] = (IF i = Len(c) THEN Null ELSE c[i + 1])
                             /\ prevInBox[c[i]] = (IF i = 1 THEN Null ELSE c[i - 1])
  BY DEF Linked
<1>2. /\ Len(c) \in Nat /\ k \in 1 .. Len(c) /\ s \in Subs /\ DOMAIN c = 1 .. Len(c)
      /\ s # Null /\ \A i \in DOMAIN c : c[i] \in Subs /\ c[i] # Null
  BY SbsAssumption
<1>3. \A x, y \in DOMAIN c : c[x] = c[y] => x = y BY <1>1 DEF IsInjective
<1>4. /\ d \in Seq(Subs) /\ Len(d) = Len(c) - 1
      /\ \A i \in 1 .. Len(c) - 1 : d[i] = IF i < k THEN c[i] ELSE c[i + 1]
  BY RemoveAtPositions
<1>5. nextInBox[s] \in Pointer /\ prevInBox[s] \in Pointer BY <1>2 DEF Typed
<1>6. /\ m \in Frame /\ m.at = e.at /\ m.cur = e.cur /\ m.listed = e.listed
      /\ m.final = e.final /\ m.del = e.del
  BY <1>5 DEF Moved, Frame, Pointer
<1>s. s = c[k] OBVIOUS
<1>7. CASE e.next = Null /\ e.last = Null /\ t = <<>>
  <2>1. m = e BY <1>2, <1>7 DEF Moved
  <2>2. t \in Seq(Subs) /\ IsInjective(t) /\ Range(t) = {} BY <1>7 DEF IsInjective, Range
  <2>3. RemoveFirst(t, s) = t BY <2>2, RemoveFirstFacts
  <2> QED BY <1>6, <1>7, <2>1, <2>3 DEF Rest
<1>8. CASE ~(e.next = Null /\ e.last = Null /\ t = <<>>)
  <2>1. PICK i \in DOMAIN c, j \in DOMAIN c :
          i <= j /\ e.next = c[i] /\ e.last = c[j] /\ t = SubSeq(c, i, j)
    BY <1>8 DEF Rest
  <2>2. e.listed BY <1>8 DEF Rest
  <2> DEFINE r == RemoveFirst(t, s)
  <2>3. /\ k < i => r = SubSeq(d, i - 1, j - 1)
        /\ j < k => r = SubSeq(d, i, j)
        /\ k = i /\ k = j => r = <<>>
        /\ i <= k /\ k <= j /\ i # j => r = SubSeq(d, i, j - 1)
    BY <1>1, <2>1, PartWithout
  <2>4. i \in 1 .. Len(c) /\ j \in 1 .. Len(c) BY <1>2
  <2>5. (s = e.next <=> k = i) /\ (s = e.last <=> k = j) BY <1>3, <2>1
  <2> HIDE DEF s, d, r
  <2>6. CASE k < i
    <3>1. m = e BY <1>2, <2>1, <2>4, <2>5, <2>6 DEF Moved
    <3>2. i - 1 \in DOMAIN d /\ j - 1 \in DOMAIN d /\ i - 1 <= j - 1 /\ d[i - 1] = c[i] /\ d[j - 1] = c[j]
      BY <1>2, <1>4, <2>1, <2>4, <2>6
    <3> HIDE DEF m
    <3>3. Rest(m, d, r) BY <2>1, <2>2, <2>3, <2>6, <3>1, <3>2 DEF Rest
    <3> QED BY <1>6, <3>3 DEF s, d, r, m
  <2>7. CASE k = i /\ k = j
    <3>1. m.next = Null /\ m.last = Null BY <2>1, <2>2, <2>5, <2>7 DEF Moved, Frame
    <3> HIDE DEF m
    <3>3. Rest(m, d, r) BY <2>3, <2>7, <3>1 DEF Rest
    <3> QED BY <1>6, <3>3 DEF s, d, r, m
  <2>8. CASE k = i /\ k # j
    <3>0. e.next # e.last /\ nextInBox[s] = c[k + 1] BY <1>1, <1>2, <1>3, <1>s, <2>1, <2>4, <2>8
    <3>1. m.next = c[k + 1] /\ m.last = c[j] BY <2>1, <2>2, <2>5, <2>8, <3>0 DEF Moved, Frame
    <3>2. i \in DOMAIN d /\ j - 1 \in DOMAIN d /\ i <= j - 1 /\ d[i] = c[k + 1] /\ d[j - 1] = c[j]
      BY <1>2, <1>4, <2>1, <2>4, <2>8
    <3>4. r = SubSeq(d, i, j - 1) BY <1>2, <2>1, <2>3, <2>4, <2>8
    <3> HIDE DEF m
    <3>3. Rest(m, d, r) BY <1>6, <2>2, <3>1, <3>2, <3>4 DEF Rest
    <3> QED BY <1>6, <3>3 DEF s, d, r, m
  <2>9. CASE i < k /\ k < j
    <3>1. m = e BY <1>2, <2>1, <2>4, <2>5, <2>9 DEF Moved
    <3>2. i \in DOMAIN d /\ j - 1 \in DOMAIN d /\ i <= j - 1 /\ d[i] = c[i] /\ d[j - 1] = c[j]
      <4>1. /\ i \in 1 .. Len(c) - 1 /\ j - 1 \in 1 .. Len(c) - 1 /\ i <= j - 1
            /\ ~(j - 1 < k) /\ (j - 1) + 1 = j
        BY <1>2, <2>4, <2>9
      <4>2. d[j - 1] = c[(j - 1) + 1] BY <1>4, <4>1
      <4>3. d[i] = c[i] BY <1>4, <2>9, <4>1
      <4>4. DOMAIN d = 1 .. Len(c) - 1 BY <1>4
      <4> QED BY <4>1, <4>2, <4>3, <4>4
    <3>4. r = SubSeq(d, i, j - 1) BY <1>2, <2>1, <2>3, <2>4, <2>9
    <3> HIDE DEF m
    <3>3. Rest(m, d, r) BY <2>1, <2>2, <3>1, <3>2, <3>4 DEF Rest
    <3> QED BY <1>6, <3>3 DEF s, d, r, m
  <2>10. CASE i < k /\ k = j
    <3>0. prevInBox[s] = c[k - 1] BY <1>1, <1>2, <1>s, <2>1, <2>4, <2>10
    <3>1. m.next = c[i] /\ m.last = c[k - 1] BY <1>2, <2>1, <2>2, <2>4, <2>5, <2>10, <3>0 DEF Moved, Frame
    <3>2. i \in DOMAIN d /\ j - 1 \in DOMAIN d /\ i <= j - 1 /\ d[i] = c[i] /\ d[j - 1] = c[k - 1]
      BY <1>2, <1>4, <2>1, <2>4, <2>10, SMTT(30)
    <3>4. r = SubSeq(d, i, j - 1) BY <1>2, <2>1, <2>3, <2>4, <2>10
    <3> HIDE DEF m
    <3>3. Rest(m, d, r) BY <1>6, <2>2, <3>1, <3>2, <3>4 DEF Rest
    <3> QED BY <1>6, <3>3 DEF s, d, r, m
  <2>11. CASE j < k
    <3>1. m = e BY <1>2, <2>1, <2>4, <2>5, <2>11 DEF Moved
    <3>2. i \in DOMAIN d /\ j \in DOMAIN d /\ d[i] = c[i] /\ d[j] = c[j]
      <4>1. i \in 1 .. Len(c) - 1 /\ j \in 1 .. Len(c) - 1 /\ i < k BY <1>2, <2>1, <2>4, <2>11
      <4> QED BY <1>4, <2>11, <4>1
    <3> HIDE DEF m
    <3>3. Rest(m, d, r) BY <2>1, <2>2, <2>3, <2>11, <3>1, <3>2 DEF Rest
    <3> QED BY <1>6, <3>3 DEF s, d, r, m
  <2> QED BY <1>2, <2>1, <2>4, <2>6, <2>7, <2>8, <2>9, <2>10, <2>11
<1> QED BY <1>7, <1>8

LEMMA RestSeq ==
  ASSUME NEW c \in Seq(Subs), NEW e, NEW t, Rest(e, c, t)
  PROVE  t \in Seq(Subs)
<1>1. CASE t = <<>> BY <1>1
<1>2. CASE t # <<>> BY <1>2, PartFacts DEF Rest
<1> QED BY <1>1, <1>2

LEMMA RunningFacts ==
  \A s : Running(s) # {} <=> \E a \in Acts : act[a].at = "in" /\ act[a].cur = s
BY DEF Running

-----------------------------------------------------------------------------
(* The steps.                                                                *)

(* Box::removeAndDelete, from a handler, an owner or a loop.                 *)
LEMMA RemoveAndDeleteKeeps ==
  ASSUME SbsInv, NEW c, NEW t, Listed(c, t), NEW k \in DOMAIN c, RemoveAndDelete(c[k]),
         UNCHANGED <<loops, usable>>,
         NEW u, u = [a \in Acts |-> RemoveFirst(t[a], c[k])]
  PROVE  /\ SbsInv' /\ Listed(RemoveAt(c, k), u)'
         /\ \A a \in Acts : /\ act'[a].at = act[a].at /\ act'[a].cur = act[a].cur
                            /\ act'[a].final = act[a].final
<1> DEFINE s == c[k]
           d == RemoveAt(c, k)
<1>1. /\ Typed /\ Owning /\ Framed /\ Living /\ RemoveSelf(s) /\ c \in Seq(Subs) /\ Linked(c)
      /\ t \in [Acts -> Seq(Subs)] /\ \A a \in Acts : Rest(act[a], c, t[a])
      /\ s \in Subs
  BY DEF SbsInv, RemoveAndDelete, Listed
<1>2. d \in Seq(Subs) /\ Linked(d)' BY <1>1, UnlinkFacts
<1>3. /\ nextInBox' \in [Subs -> Pointer] /\ prevInBox' \in [Subs -> Pointer]
      /\ inBox' \in [Subs -> BOOLEAN] /\ inBox' = [inBox EXCEPT ![s] = FALSE]
      /\ \A x \in Subs : ~inBox'[x] => nextInBox'[x] = Null /\ prevInBox'[x] = Null
      /\ owned' \in [Owners -> Seq(Subs)] /\ Owning'
      /\ inBox[s]
  BY <1>1, RemovalFacts
<1>4. ASSUME NEW a \in Acts
      PROVE  /\ act'[a] = Moved(act[a], s) /\ act'[a] \in Frame
             /\ act'[a].at = act[a].at /\ act'[a].cur = act[a].cur
             /\ act'[a].listed = act[a].listed /\ act'[a].final = act[a].final
             /\ u[a] \in Seq(Subs) /\ Rest(act'[a], d, u[a])
  <2>1. act[a] \in Frame /\ Rest(act[a], c, t[a]) /\ act'[a] = Moved(act[a], s)
        /\ u[a] = RemoveFirst(t[a], s)
    BY <1>1 DEF Typed, RemoveAndDelete
  <2> DEFINE e == act[a]
  <2> HIDE DEF e
  <2>2. e \in Frame /\ Rest(e, c, t[a]) BY <2>1 DEF e
  <2>3. /\ Moved(e, s) \in Frame /\ Moved(e, s).at = e.at /\ Moved(e, s).cur = e.cur
        /\ Moved(e, s).listed = e.listed /\ Moved(e, s).final = e.final
        /\ Rest(Moved(e, s), d, RemoveFirst(t[a], s))
    BY <1>1, <2>2, MovedFacts
  <2>4. RemoveFirst(t[a], s) \in Seq(Subs) BY <1>2, <2>3, RestSeq
  <2> QED BY <2>1, <2>3, <2>4 DEF e
<1>5. /\ act' = [a \in Acts |-> Moved(act[a], s)] /\ closing' = closing \union {s}
      /\ life' = IF Running(s) = {} THEN [life EXCEPT ![s] = "deleted"] ELSE life
  BY DEF RemoveAndDelete
<1> HIDE DEF s, d
<1>6. act' \in [Acts -> Frame] BY <1>4, <1>5
<1>7. Typed' BY <1>1, <1>3, <1>5, <1>6 DEF Typed
<1>8. u \in [Acts -> Seq(Subs)] BY <1>4
<1>9. Listed(d, u)' BY <1>2, <1>3, <1>4, <1>8 DEF Listed
<1>10. Framed'
  <2> SUFFICES ASSUME NEW a \in Acts
               PROVE  /\ act'[a].at = "in" <=> act'[a].cur \in Subs
                      /\ act'[a].at = "none" => act'[a] = NoAct
                      /\ act'[a].final => act'[a].at = "in" /\ ~act'[a].listed
    BY DEF Framed
  <2>1. /\ act[a].at = "in" <=> act[a].cur \in Subs
        /\ act[a].at = "none" => act[a] = NoAct
        /\ act[a].final => act[a].at = "in" /\ ~act[a].listed
    BY <1>1 DEF Framed
  <2>2. Moved(NoAct, s) = NoAct BY DEF Moved, NoAct
  <2> QED BY <1>4, <2>1, <2>2
<1>11. \A x : (Running(x) # {})' <=> Running(x) # {} BY <1>4, RunningFacts DEF Running
<1>12. ASSUME NEW x \in Subs
       PROVE  /\ life'[x] = "unborn" => x \notin closing'
              /\ inBox'[x] => life'[x] = "live" /\ x \notin closing'
              /\ (Running(x) # {})' => life'[x] = "live"
              /\ life'[x] = "live" => inBox'[x] \/ (x \in closing' /\ (Running(x) # {})')
  <2>1. /\ life[x] = "unborn" => x \notin closing
        /\ inBox[x] => life[x] = "live" /\ x \notin closing
        /\ Running(x) # {} => life[x] = "live"
        /\ life[x] = "live" => inBox[x] \/ (x \in closing /\ Running(x) # {})
    BY <1>1 DEF Living
  <2>2. life[s] = "live" BY <1>1, <1>3 DEF Living
  <2>3. CASE x = s
    <3>1. ~inBox'[x] /\ x \in closing' /\ life'[x] = IF Running(x) = {} THEN "deleted" ELSE "live"
      BY <1>1, <1>3, <1>5, <2>2, <2>3 DEF Typed
    <3> QED BY <1>11, <3>1
  <2>4. CASE x # s
    <3>1. inBox'[x] = inBox[x] /\ life'[x] = life[x] /\ (x \in closing' <=> x \in closing)
      BY <1>1, <1>3, <1>5, <2>4 DEF Typed
    <3> QED BY <1>11, <2>1, <3>1
  <2> QED BY <2>3, <2>4
<1>13. Living' BY <1>12 DEF Living
<1>14. Chained' BY <1>9 DEF Chained
<1> QED BY <1>3, <1>4, <1>7, <1>9, <1>10, <1>13, <1>14 DEF SbsInv, s, d

(* Box::activate is about to call c[k], the first of t, with frame e: the    *)
(* enumerator stands there, or c[k] is the last and there is no enumerator.  *)
Ready(e, c, k, t) ==
  \/ /\ e.listed /\ ~e.final
     /\ \E j \in DOMAIN c : k < j /\ e.next = c[k] /\ e.last = c[j] /\ t = SubSeq(c, k, j)
  \/ ~e.listed /\ e.final /\ e.next = Null /\ e.last = Null /\ t = <<c[k]>>

(* The frame with which the handler is called, its subscription kept or not. *)
Kept(e, s) == [e EXCEPT !.at = "in", !.cur = s, !.next = IF e.listed THEN nextInBox[s] ELSE Null]
Gone(e, s) == [Moved(e, s) EXCEPT !.at = "in", !.cur = s]

LEMMA CalledFrame ==
  ASSUME Typed, NEW c \in Seq(Subs), Linked(c), NEW k \in DOMAIN c, NEW e \in Frame,
         NEW t, Ready(e, c, k, t), NEW n, n = Kept(e, c[k]), NEW m, m = Gone(e, c[k])
  PROVE  /\ t \in Seq(Subs) /\ t # <<>> /\ Head(t) = c[k] /\ Tail(t) \in Seq(Subs)
         /\ e.final <=> Tail(t) = <<>>
         /\ n \in Frame /\ n.at = "in" /\ n.cur = c[k] /\ n.final = e.final /\ n.listed = e.listed
         /\ Rest(n, c, Tail(t))
         /\ m \in Frame /\ m.at = "in" /\ m.cur = c[k] /\ m.final = e.final /\ m.listed = e.listed
         /\ Rest(m, RemoveAt(c, k), Tail(t))
<1> DEFINE s == c[k]
           d == RemoveAt(c, k)
<1>1. /\ IsInjective(c)
      /\ \A i \in DOMAIN c : nextInBox[c[i]] = (IF i = Len(c) THEN Null ELSE c[i + 1])
  BY DEF Linked
<1>2. s \in Subs /\ s # Null /\ Null \in Pointer /\ s \in Pointer BY SbsAssumption DEF Pointer
<1>3. nextInBox[s] \in Pointer /\ prevInBox[s] \in Pointer BY <1>2 DEF Typed
<1>s. s = c[k] OBVIOUS
<1>n. /\ n = [e EXCEPT !.at = "in", !.cur = s, !.next = IF e.listed THEN nextInBox[s] ELSE Null]
      /\ m = [Moved(e, s) EXCEPT !.at = "in", !.cur = s]
  BY DEF Kept, Gone
<1>4. CASE ~e.listed /\ e.final /\ e.next = Null /\ e.last = Null /\ t = <<c[k]>>
  <2>1. t \in Seq(Subs) /\ t # <<>> /\ Head(t) = s /\ Tail(t) = <<>> BY <1>2, <1>4
  <2>2. Moved(e, s) = e BY <1>4 DEF Moved
  <2> HIDE DEF s
  <2>3. /\ n \in Frame /\ n.at = "in" /\ n.cur = s /\ n.final = e.final /\ n.listed = e.listed
        /\ n.next = Null /\ n.last = Null
    BY <1>2, <1>4, <1>n DEF Frame
  <2>4. /\ m \in Frame /\ m.at = "in" /\ m.cur = s /\ m.final = e.final /\ m.listed = e.listed
        /\ m.next = Null /\ m.last = Null
    <3>1. m = [e EXCEPT !.at = "in", !.cur = s] BY <1>n, <2>2
    <3> QED BY <1>2, <1>4, <3>1 DEF Frame
  <2>5. Rest(n, c, <<>>) /\ Rest(m, d, <<>>) BY <2>3, <2>4 DEF Rest
  <2>6. e.final <=> Tail(t) = <<>> BY <1>4, <2>1
  <2>7. Tail(t) \in Seq(Subs) BY <2>1
  <2> QED BY <2>1, <2>3, <2>4, <2>5, <2>6, <2>7 DEF s, d
<1>5. CASE /\ e.listed /\ ~e.final
           /\ \E j \in DOMAIN c : k < j /\ e.next = c[k] /\ e.last = c[j] /\ t = SubSeq(c, k, j)
  <2>1. PICK j \in DOMAIN c : k < j /\ e.next = c[k] /\ e.last = c[j] /\ t = SubSeq(c, k, j)
    BY <1>5
  <2> DEFINE w == Tail(t)
  <2>w. w = Tail(t) OBVIOUS
  <2> HIDE DEF w
  <2>2. /\ t \in Seq(Subs) /\ t # <<>> /\ Head(t) = s /\ w \in Seq(Subs) /\ w # <<>>
        /\ RemoveFirst(t, s) = w
    <3>1. k <= j BY <2>1
    <3>2. /\ t \in Seq(Subs) /\ Len(t) = j - k + 1
          /\ \A i \in 1 .. j - k + 1 : t[i] = c[k + i - 1]
      BY <2>1, <3>1, PartFacts
    <3>3. t # <<>> /\ t[1] = c[k]
      <4>1. 1 \in 1 .. j - k + 1 /\ k + 1 - 1 = k /\ j - k + 1 # 0 BY <3>1
      <4> QED BY <3>2, <4>1
    <3>4. Head(t) = c[k] /\ Tail(t) \in Seq(Subs) BY <3>2, <3>3
    <3>5. RemoveFirst(t, c[k]) = w /\ w # <<>> BY <1>1, <2>1, <2>w, PartTail
    <3> QED BY <2>w, <3>2, <3>3, <3>4, <3>5 DEF s
  <2>x. PICK x \in DOMAIN c : x = k + 1 BY <2>1
  <2>y. w = SubSeq(c, x, j)
    <3>1. x \in Int /\ k \in Int /\ x = k + 1 /\ x <= j BY <2>1, <2>x
    <3>2. Tail(SubSeq(c, k, j)) = SubSeq(c, x, j) BY <3>1, PartNext
    <3> QED BY <2>1, <2>w, <3>2
  <2>3. k <= j /\ x <= j /\ nextInBox[s] = c[x] BY <1>1, <2>1, <2>x
  <2>4. Rest(e, c, t) BY <1>5, <2>1, <2>3 DEF Rest
  <2> DEFINE v == Moved(e, s)
  <2>5. v \in Frame /\ v.final = e.final /\ v.listed = e.listed /\ Rest(v, d, w)
    <3>1. v \in Frame /\ v.final = e.final /\ v.listed = e.listed /\ Rest(v, d, RemoveFirst(t, s))
      BY <2>4, MovedFacts
    <3> QED BY <2>2, <3>1
  <2> HIDE DEF s, d, v
  <2>6. /\ m \in Frame /\ m.at = "in" /\ m.cur = s /\ m.final = v.final /\ m.listed = v.listed
        /\ m.next = v.next /\ m.last = v.last
    BY <1>2, <1>n, <2>5 DEF Frame, v
  <2>7. Rest(m, d, w) BY <2>5, <2>6 DEF Rest
  <2>8. /\ n \in Frame /\ n.at = "in" /\ n.cur = s /\ n.final = e.final /\ n.listed = e.listed
        /\ n.next = c[x] /\ n.last = c[j]
    BY <1>2, <1>3, <1>5, <1>n, <2>1, <2>3 DEF Frame
  <2>9. Rest(n, c, w) BY <1>5, <2>3, <2>8, <2>x, <2>y DEF Rest
  <2> QED BY <1>5, <2>2, <2>5, <2>6, <2>7, <2>8, <2>9, <2>w DEF s, d
<1> QED BY <1>4, <1>5 DEF Ready

(* A handler is called, and its subscription removed first if the activation *)
(* is one that disconnects.                                                  *)
LEMMA CallKeeps ==
  ASSUME SbsInv, NEW c, NEW t, Listed(c, t), NEW a \in Acts, act[a].at # "in",
         NEW k \in DOMAIN c, NEW e \in Frame, NEW p, Ready(e, c, k, p), Call(a, c[k], e),
         NEW d, d = IF e.del THEN RemoveAt(c, k) ELSE c,
         NEW u, u = [b \in Acts |-> IF b = a THEN Tail(p)
                                    ELSE IF e.del THEN RemoveFirst(t[b], c[k]) ELSE t[b]]
  PROVE  /\ SbsInv' /\ Listed(d, u)'
         /\ p \in Seq(Subs) /\ p # <<>> /\ Head(p) = c[k] /\ (e.final <=> Tail(p) = <<>>)
         /\ act'[a].at = "in" /\ act'[a].cur = c[k] /\ act'[a].final = e.final
         /\ \A b \in Acts \ {a} : /\ act'[b].at = act[b].at /\ act'[b].cur = act[b].cur
                                  /\ act'[b].final = act[b].final
<1> DEFINE s == c[k]
<1>1. /\ Typed /\ Owning /\ Framed /\ Living /\ c \in Seq(Subs) /\ Linked(c)
      /\ t \in [Acts -> Seq(Subs)] /\ \A b \in Acts : Rest(act[b], c, t[b])
      /\ \A x \in Subs : ~inBox[x] => nextInBox[x] = Null /\ prevInBox[x] = Null
      /\ s \in Subs
  BY DEF SbsInv, Listed
<1>2. inBox[s] BY <1>1 DEF Linked, Range
<1>3. /\ d \in Seq(Subs) /\ Linked(d)'
      /\ nextInBox' \in [Subs -> Pointer] /\ prevInBox' \in [Subs -> Pointer]
      /\ inBox' \in [Subs -> BOOLEAN]
      /\ \A x \in Subs : ~inBox'[x] => nextInBox'[x] = Null /\ prevInBox'[x] = Null
      /\ owned' \in [Owners -> Seq(Subs)] /\ Owning'
      /\ inBox' = IF e.del THEN [inBox EXCEPT ![s] = FALSE] ELSE inBox
      /\ closing' = IF e.del THEN closing \union {s} ELSE closing
      /\ life' = life /\ loops' = loops /\ usable' = usable
  <2>1. CASE e.del
    <3>1. /\ RemoveSelf(s) /\ d = RemoveAt(c, k) /\ closing' = closing \union {s}
          /\ life' = life /\ loops' = loops /\ usable' = usable
      BY <2>1 DEF Call
    <3>2. d \in Seq(Subs) /\ Linked(d)' BY <1>1, <3>1, UnlinkFacts
    <3>3. /\ nextInBox' \in [Subs -> Pointer] /\ prevInBox' \in [Subs -> Pointer]
          /\ inBox' \in [Subs -> BOOLEAN] /\ inBox' = [inBox EXCEPT ![s] = FALSE]
          /\ \A x \in Subs : ~inBox'[x] => nextInBox'[x] = Null /\ prevInBox'[x] = Null
          /\ owned' \in [Owners -> Seq(Subs)] /\ Owning'
      BY <1>1, <3>1, RemovalFacts
    <3> QED BY <2>1, <3>1, <3>2, <3>3
  <2>2. CASE ~e.del
    <3>1. UNCHANGED <<box, closing, life, loops, usable>> /\ d = c BY <2>2 DEF Call
    <3>2. Linked(d)' BY <1>1, <3>1 DEF Linked, box
    <3>3. Owning' BY <1>1, <3>1 DEF Owning, box
    <3> QED BY <1>1, <2>2, <3>1, <3>2, <3>3 DEF Typed, box
  <2> QED BY <2>1, <2>2
<1> DEFINE n == Kept(e, c[k])
           m == Gone(e, c[k])
<1> HIDE DEF n, m
<1>4. /\ p \in Seq(Subs) /\ p # <<>> /\ Head(p) = c[k] /\ Tail(p) \in Seq(Subs)
      /\ e.final <=> Tail(p) = <<>>
      /\ n \in Frame /\ n.at = "in" /\ n.cur = c[k] /\ n.final = e.final /\ n.listed = e.listed
      /\ Rest(n, c, Tail(p))
      /\ m \in Frame /\ m.at = "in" /\ m.cur = c[k] /\ m.final = e.final /\ m.listed = e.listed
      /\ Rest(m, RemoveAt(c, k), Tail(p))
  <2>1. n = Kept(e, c[k]) /\ m = Gone(e, c[k]) BY DEF n, m
  <2> QED BY <1>1, <2>1, CalledFrame
<1>5. act'[a] = IF e.del THEN m ELSE n
  <2>1. CASE e.del BY <2>1 DEF Call, m, Gone
  <2>2. CASE ~e.del BY <1>1, <2>2 DEF Call, n, Kept, Typed
  <2> QED BY <2>1, <2>2
<1>6. /\ act'[a] \in Frame /\ act'[a].at = "in" /\ act'[a].cur = s
      /\ act'[a].final = e.final /\ act'[a].listed = e.listed
      /\ u[a] = Tail(p) /\ u[a] \in Seq(Subs) /\ Rest(act'[a], d, u[a])
  <2>1. u[a] = Tail(p) OBVIOUS
  <2>2. CASE e.del BY <1>4, <1>5, <2>1, <2>2
  <2>3. CASE ~e.del BY <1>4, <1>5, <2>1, <2>3
  <2> QED BY <2>2, <2>3
<1>7. ASSUME NEW b \in Acts, b # a
      PROVE  /\ act'[b] \in Frame /\ act'[b].at = act[b].at /\ act'[b].cur = act[b].cur
             /\ act'[b].listed = act[b].listed /\ act'[b].final = act[b].final
             /\ act[b].at = "none" => act'[b] = NoAct
             /\ u[b] \in Seq(Subs) /\ Rest(act'[b], d, u[b])
  <2> DEFINE f == act[b]
  <2>1. f \in Frame /\ Rest(f, c, t[b]) /\ (f.at = "none" => f = NoAct) BY <1>1 DEF Typed, Framed
  <2>2. CASE e.del
    <3>1. act'[b] = Moved(f, s) /\ u[b] = RemoveFirst(t[b], s) BY <1>7, <2>2 DEF Call
    <3> HIDE DEF f
    <3>2. /\ Moved(f, s) \in Frame /\ Moved(f, s).at = f.at /\ Moved(f, s).cur = f.cur
          /\ Moved(f, s).listed = f.listed /\ Moved(f, s).final = f.final
          /\ Rest(Moved(f, s), d, RemoveFirst(t[b], s))
      BY <1>1, <2>1, <2>2, MovedFacts
    <3>3. RemoveFirst(t[b], s) \in Seq(Subs) BY <1>3, <3>2, RestSeq
    <3>4. Moved(NoAct, s) = NoAct BY DEF Moved, NoAct
    <3> QED BY <2>1, <3>1, <3>2, <3>3, <3>4 DEF f
  <2>3. CASE ~e.del
    <3>1. act'[b] = f /\ u[b] = t[b] /\ d = c BY <1>1, <1>7, <2>3 DEF Call, Typed
    <3> HIDE DEF f
    <3> QED BY <1>1, <2>1, <3>1 DEF f
  <2> QED BY <2>2, <2>3
<1> HIDE DEF s
<1>8. act' \in [Acts -> Frame]
  <2>1. act' = [b \in Acts |-> act'[b]]
    <3>1. CASE e.del BY <3>1 DEF Call
    <3>2. CASE ~e.del BY <1>1, <3>2 DEF Call, Typed
    <3> QED BY <3>1, <3>2
  <2>2. \A b \in Acts : act'[b] \in Frame BY <1>6, <1>7
  <2> QED BY <2>1, <2>2
<1>9. Typed'
  <2>1. closing' \subseteq Subs BY <1>1, <1>3 DEF Typed
  <2> QED BY <1>1, <1>3, <1>8, <2>1 DEF Typed
<1>10. u \in [Acts -> Seq(Subs)]
  <2>1. \A b \in Acts : u[b] \in Seq(Subs) BY <1>6, <1>7
  <2> QED BY <2>1
<1>11. \A b \in Acts : Rest(act'[b], d, u[b]) BY <1>6, <1>7
<1>12. Listed(d, u)' BY <1>3, <1>10, <1>11 DEF Listed
<1>13. Framed'
  <2> SUFFICES ASSUME NEW b \in Acts
               PROVE  /\ act'[b].at = "in" <=> act'[b].cur \in Subs
                      /\ act'[b].at = "none" => act'[b] = NoAct
                      /\ act'[b].final => act'[b].at = "in" /\ ~act'[b].listed
    BY DEF Framed
  <2>1. CASE b = a
    <3>1. e.final => ~e.listed BY DEF Ready
    <3> QED BY <1>1, <1>6, <2>1, <3>1
  <2>2. CASE b # a BY <1>1, <1>7, <2>2 DEF Framed
  <2> QED BY <2>1, <2>2
<1>14. \A x : (Running(x) # {})' <=> (Running(x) # {} \/ x = s)
  <2>1. \A x : (Running(x) # {})' <=> \E b \in Acts : act'[b].at = "in" /\ act'[b].cur = x
    BY DEF Running
  <2>2. ASSUME NEW x, NEW b \in Acts
        PROVE  act'[b].at = "in" /\ act'[b].cur = x
               <=> (act[b].at = "in" /\ act[b].cur = x) \/ (b = a /\ x = s)
    <3>1. CASE b = a BY <1>6, <3>1
    <3>2. CASE b # a BY <1>7, <3>2
    <3> QED BY <3>1, <3>2
  <2>3. ASSUME NEW x
        PROVE  (\E b \in Acts : act'[b].at = "in" /\ act'[b].cur = x)
               <=> (\E b \in Acts : act[b].at = "in" /\ act[b].cur = x) \/ x = s
    BY <2>2, Zenon
  <2> QED BY <2>1, <2>3, RunningFacts
<1>15. ASSUME NEW x \in Subs
       PROVE  /\ life'[x] = "unborn" => x \notin closing'
              /\ inBox'[x] => life'[x] = "live" /\ x \notin closing'
              /\ (Running(x) # {})' => life'[x] = "live"
              /\ life'[x] = "live" => inBox'[x] \/ (x \in closing' /\ (Running(x) # {})')
  <2>1. /\ life[x] = "unborn" => x \notin closing
        /\ inBox[x] => life[x] = "live" /\ x \notin closing
        /\ Running(x) # {} => life[x] = "live"
        /\ life[x] = "live" => inBox[x] \/ (x \in closing /\ Running(x) # {})
    BY <1>1 DEF Living
  <2>2. life[s] = "live" BY <1>1, <1>2 DEF Living
  <2>3. CASE x = s /\ e.del
    <3>1. ~inBox'[x] /\ x \in closing' BY <1>1, <1>3, <2>3 DEF Typed
    <3> QED BY <1>3, <1>14, <2>2, <2>3, <3>1
  <2>4. CASE x # s \/ ~e.del
    <3>1. inBox'[x] = inBox[x] /\ (x \in closing' <=> x \in closing)
      BY <1>1, <1>3, <2>4 DEF Typed
    <3> QED BY <1>2, <1>3, <1>14, <2>1, <2>2, <3>1
  <2> QED BY <2>3, <2>4
<1>16. Living' BY <1>15 DEF Living
<1>17. Chained' BY <1>12 DEF Chained
<1>18. SbsInv' BY <1>3, <1>9, <1>13, <1>16, <1>17 DEF SbsInv
<1> QED BY <1>4, <1>6, <1>7, <1>12, <1>18 DEF s

(* Box::push.                                                                *)
LEMMA RestAppend ==
  ASSUME NEW c \in Seq(Subs), NEW s \in Subs, NEW e, NEW t, Rest(e, c, t)
  PROVE  Rest(e, Append(c, s), t)
<1> DEFINE d == Append(c, s)
<1>1. CASE e.next = Null /\ e.last = Null /\ t = <<>> BY <1>1 DEF Rest
<1>2. CASE ~(e.next = Null /\ e.last = Null /\ t = <<>>)
  <2>1. PICK i \in DOMAIN c, j \in DOMAIN c :
          i <= j /\ e.next = c[i] /\ e.last = c[j] /\ t = SubSeq(c, i, j)
    BY <1>2 DEF Rest
  <2>2. e.listed BY <1>2 DEF Rest
  <2>3. d \in Seq(Subs) /\ DOMAIN c \subseteq DOMAIN d /\ \A m \in DOMAIN c : d[m] = c[m] OBVIOUS
  <2> HIDE DEF d
  <2> DEFINE p == SubSeq(c, i, j)
             q == SubSeq(d, i, j)
  <2>4. i \in DOMAIN d /\ j \in DOMAIN d BY <2>3
  <2>5. /\ p \in Seq(Subs) /\ Len(p) = j - i + 1
        /\ \A m \in 1 .. j - i + 1 : p[m] = c[i + m - 1]
    BY <2>1, PartFacts
  <2>6. /\ q \in Seq(Subs) /\ Len(q) = j - i + 1
        /\ \A m \in 1 .. j - i + 1 : q[m] = d[i + m - 1]
    BY <2>1, <2>3, <2>4, PartFacts
  <2> HIDE DEF p, q
  <2>7. \A m \in 1 .. j - i + 1 : i + m - 1 \in DOMAIN c BY <2>1
  <2>8. p = q BY <2>3, <2>5, <2>6, <2>7, SeqEqual
  <2>9. t = SubSeq(d, i, j) BY <2>1, <2>8 DEF p, q
  <2>10. Rest(e, d, t) BY <2>1, <2>2, <2>3, <2>4, <2>9 DEF Rest
  <2> QED BY <2>10 DEF d
<1> QED BY <1>1, <1>2

LEMMA ConnectKeeps ==
  ASSUME SbsInv, NEW c, NEW t, Listed(c, t), NEW s \in Subs, NEW o, Connect(s, o)
  PROVE  SbsInv' /\ Listed(Append(c, s), t)'
<1> DEFINE d == Append(c, s)
<1>1. /\ Typed /\ Owning /\ Framed /\ Living /\ c \in Seq(Subs) /\ Linked(c)
      /\ t \in [Acts -> Seq(Subs)] /\ \A b \in Acts : Rest(act[b], c, t[b])
      /\ \A x \in Subs : ~inBox[x] => nextInBox[x] = Null /\ prevInBox[x] = Null
  BY DEF SbsInv, Listed
<1>2. /\ life[s] = "unborn" /\ life' = [life EXCEPT ![s] = "live"]
      /\ owned' = IF o \in Owners THEN [owned EXCEPT ![o] = Append(@, s)] ELSE owned
      /\ inBox' = [inBox EXCEPT ![s] = TRUE]
      /\ first' = IF first = Null THEN s ELSE first
      /\ last' = s
      /\ nextInBox' = [x \in Subs |-> IF x = last THEN s ELSE nextInBox[x]]
      /\ prevInBox' = [prevInBox EXCEPT ![s] = last]
      /\ closing' = closing /\ act' = act /\ loops' = loops /\ usable' = usable
  BY DEF Connect
<1>3. /\ ~inBox[s] /\ s \notin closing /\ Running(s) = {} BY <1>1, <1>2 DEF Living
<1>4. /\ IsInjective(c) /\ Range(c) = {x \in Subs : inBox[x]}
      /\ first = (IF c = <<>> THEN Null ELSE c[1]) /\ last = (IF c = <<>> THEN Null ELSE c[Len(c)])
      /\ \A i \in DOMAIN c : /\ nextInBox[c[i]] = (IF i = Len(c) THEN Null ELSE c[i + 1])
                             /\ prevInBox[c[i]] = (IF i = 1 THEN Null ELSE c[i - 1])
  BY <1>1 DEF Linked
<1>5. /\ d \in Seq(Subs) /\ Range(d) = Range(c) \union {s} /\ IsInjective(d)
  BY <1>1, <1>3, <1>4, AppendFacts
<1>6. /\ Len(d) = Len(c) + 1 /\ d[Len(c) + 1] = s /\ \A i \in 1 .. Len(c) : d[i] = c[i]
      /\ d # <<>> /\ Len(c) \in Nat /\ DOMAIN d = 1 .. Len(c) + 1 /\ DOMAIN c = 1 .. Len(c)
  BY <1>1
<1> HIDE DEF d
<1>7. /\ inBox' \in [Subs -> BOOLEAN] /\ \A x \in Subs : inBox'[x] <=> inBox[x] \/ x = s
  BY <1>1, <1>2 DEF Typed
<1>8. last \in Pointer /\ (last \in Subs => inBox[last]) /\ (last = Null <=> c = <<>>)
  <2>1. CASE c = <<>> BY <1>4, <2>1, SbsAssumption DEF Pointer
  <2>2. CASE c # <<>>
    <3>1. Len(c) \in DOMAIN c /\ last = c[Len(c)] BY <1>1, <1>4, <1>6, <2>2
    <3> QED BY <1>1, <1>4, <2>2, <3>1, SbsAssumption DEF Pointer, Range
  <2> QED BY <2>1, <2>2
<1>9. nextInBox' \in [Subs -> Pointer] /\ prevInBox' \in [Subs -> Pointer]
  BY <1>1, <1>2, <1>8 DEF Typed, Pointer
<1>10. ASSUME NEW x \in Subs, ~inBox'[x] PROVE nextInBox'[x] = Null /\ prevInBox'[x] = Null
  <2>1. ~inBox[x] /\ x # s /\ x # last BY <1>7, <1>8, <1>10
  <2> QED BY <1>1, <1>2, <2>1 DEF Typed
<1>11. Linked(d)'
  <2>1. Range(d) = {x \in Subs : inBox'[x]} BY <1>4, <1>5, <1>7
  <2>2. first' = d[1]
    <3>1. CASE c = <<>> BY <1>2, <1>4, <1>6, <3>1
    <3>2. CASE c # <<>>
      <4>1. 1 \in DOMAIN c /\ c[1] \in Subs BY <1>1, <3>2
      <4>2. first # Null BY <1>4, <3>2, <4>1, SbsAssumption
      <4> QED BY <1>2, <1>4, <1>6, <3>2, <4>1, <4>2
    <3> QED BY <3>1, <3>2
  <2>3. last' = d[Len(d)] BY <1>2, <1>6
  <2>4. ASSUME NEW i \in DOMAIN d
        PROVE  /\ nextInBox'[d[i]] = (IF i = Len(d) THEN Null ELSE d[i + 1])
               /\ prevInBox'[d[i]] = (IF i = 1 THEN Null ELSE d[i - 1])
    <3>1. CASE i = Len(c) + 1
      <4>1. d[i] = s /\ i = Len(d) BY <1>6, <3>1
      <4>2. s # last BY <1>3, <1>8
      <4>3. nextInBox'[s] = Null BY <1>1, <1>2, <1>3, <4>2
      <4>4. prevInBox'[s] = last BY <1>1, <1>2 DEF Typed
      <4>5. CASE c = <<>>
        <5>1. i = 1 BY <1>6, <3>1, <4>5
        <5> QED BY <1>4, <4>1, <4>3, <4>4, <4>5, <5>1
      <4>6. CASE c # <<>>
        <5>1. Len(c) \in 1 .. Len(c) /\ i # 1 /\ i - 1 = Len(c) BY <1>1, <1>6, <3>1, <4>6
        <5> QED BY <1>4, <1>6, <4>1, <4>3, <4>4, <4>6, <5>1
      <4> QED BY <4>5, <4>6
    <3>2. CASE i # Len(c) + 1
      <4>1. i \in DOMAIN c /\ d[i] = c[i] /\ i # Len(d) BY <1>6, <3>2
      <4>2. c[i] \in Subs /\ inBox[c[i]] /\ c[i] # s BY <1>1, <1>3, <1>4, <4>1 DEF Range
      <4>3. prevInBox'[d[i]] = (IF i = 1 THEN Null ELSE d[i - 1])
        <5>1. prevInBox'[c[i]] = prevInBox[c[i]] BY <1>1, <1>2, <4>2 DEF Typed
        <5>2. i # 1 => d[i - 1] = c[i - 1] BY <1>6, <4>1
        <5> QED BY <1>4, <4>1, <5>1, <5>2
      <4>4. c[i] = last <=> i = Len(c)
        <5>1. c # <<>> /\ Len(c) \in DOMAIN c BY <1>1, <1>6, <4>1
        <5>2. \A x, y \in DOMAIN c : c[x] = c[y] => x = y BY <1>4 DEF IsInjective
        <5> QED BY <1>4, <4>1, <5>1, <5>2
      <4>5. nextInBox'[c[i]] = IF i = Len(c) THEN s ELSE nextInBox[c[i]] BY <1>2, <4>2, <4>4
      <4>6. CASE i = Len(c) BY <1>6, <4>1, <4>3, <4>5, <4>6
      <4>7. CASE i # Len(c)
        <5>1. d[i + 1] = c[i + 1] BY <1>6, <4>1, <4>7
        <5> QED BY <1>4, <4>1, <4>3, <4>5, <4>7, <5>1
      <4> QED BY <4>6, <4>7
    <3> QED BY <3>1, <3>2
  <2> QED BY <1>5, <1>6, <2>1, <2>2, <2>3, <2>4 DEF Linked
<1>12. \A b \in Acts : Rest(act[b], d, t[b]) BY <1>1, RestAppend DEF d
<1>13. Listed(d, t)' BY <1>1, <1>2, <1>5, <1>10, <1>11, <1>12 DEF Listed
<1>14. ASSUME NEW q \in Owners
       PROVE  /\ owned'[q] \in Seq(Subs) /\ IsInjective(owned'[q])
              /\ \A x \in Range(owned'[q]) : inBox'[x]
  <2>1. owned[q] \in Seq(Subs) /\ IsInjective(owned[q]) /\ \A x \in Range(owned[q]) : inBox[x]
    BY <1>1 DEF Typed, Owning
  <2>2. Range(owned[q]) \subseteq Subs BY <2>1 DEF Range
  <2>3. CASE q = o
    <3>1. owned'[q] = Append(owned[q], s) BY <1>1, <1>2, <2>3 DEF Typed
    <3>2. s \notin Range(owned[q]) BY <1>3, <2>1
    <3>3. /\ owned'[q] \in Seq(Subs) /\ IsInjective(owned'[q])
          /\ Range(owned'[q]) = Range(owned[q]) \union {s}
      BY <2>1, <3>1, <3>2, AppendFacts
    <3> QED BY <1>7, <2>1, <2>2, <3>3
  <2>4. CASE q # o
    <3>1. owned'[q] = owned[q] BY <1>1, <1>2, <2>4 DEF Typed
    <3> QED BY <1>7, <2>1, <2>2, <3>1
  <2> QED BY <2>3, <2>4
<1>15. owned' \in [Owners -> Seq(Subs)]
  <2>1. owned' = [q \in Owners |-> owned'[q]] BY <1>1, <1>2 DEF Typed
  <2> QED BY <1>14, <2>1
<1>16. Owning' BY <1>14 DEF Owning
<1>17. Typed' BY <1>1, <1>2, <1>7, <1>9, <1>15 DEF Typed
<1>18. Framed' BY <1>1, <1>2 DEF Framed
<1>19. \A x : (Running(x))' = Running(x) BY <1>2 DEF Running
<1>20. Living'
  <2> SUFFICES ASSUME NEW x \in Subs
               PROVE  /\ life'[x] = "unborn" => x \notin closing'
                      /\ inBox'[x] => life'[x] = "live" /\ x \notin closing'
                      /\ Running(x)' # {} => life'[x] = "live"
                      /\ life'[x] = "live" => inBox'[x] \/ (x \in closing' /\ Running(x)' # {})
    BY DEF Living
  <2>1. CASE x = s
    <3>1. life'[x] = "live" /\ inBox'[x] BY <1>1, <1>2, <1>7, <2>1 DEF Typed
    <3> QED BY <1>2, <1>3, <2>1, <3>1
  <2>2. CASE x # s
    <3>1. life'[x] = life[x] /\ inBox'[x] = inBox[x] BY <1>1, <1>2, <2>2 DEF Typed
    <3> QED BY <1>1, <1>2, <1>19, <3>1 DEF Living
  <2> QED BY <2>1, <2>2
<1>21. Chained' BY <1>13 DEF Chained
<1> QED BY <1>13, <1>16, <1>17, <1>18, <1>20, <1>21 DEF SbsInv, d

(* The handler returns or throws: the end of Subscription::activate.         *)
LEMMA ReturnKeeps ==
  ASSUME SbsInv, NEW c, NEW t, Listed(c, t), NEW a \in Acts, NEW throws \in BOOLEAN,
         Return(a, throws),
         NEW u, u = [t EXCEPT ![a] = IF throws \/ act[a].final THEN <<>> ELSE @]
  PROVE  SbsInv' /\ Listed(c, u)' /\ act[a].cur \in Subs
<1> DEFINE s == act[a].cur
           e == act[a]
           over == throws \/ e.final
<1>1. /\ Typed /\ Owning /\ Framed /\ Living /\ c \in Seq(Subs) /\ Linked(c)
      /\ t \in [Acts -> Seq(Subs)] /\ \A b \in Acts : Rest(act[b], c, t[b])
      /\ \A x \in Subs : ~inBox[x] => nextInBox[x] = Null /\ prevInBox[x] = Null
  BY DEF SbsInv, Listed
<1>2. /\ e.at = "in" /\ e \in Frame /\ s \in Subs
      /\ act' = [act EXCEPT ![a] = IF throws \/ @.final THEN NoAct
                                   ELSE [@ EXCEPT !.at = "loop", !.cur = Null]]
      /\ life' = Released(s, Running(s) \ {a})
      /\ UNCHANGED <<box, closing, loops, usable>>
  BY <1>1 DEF Return, Typed, Framed
<1>3. act'[a] = IF over THEN NoAct ELSE [e EXCEPT !.at = "loop", !.cur = Null]
  BY <1>1, <1>2 DEF Typed
<1>4. \A b \in Acts \ {a} : act'[b] = act[b] /\ u[b] = t[b] BY <1>1, <1>2 DEF Typed
<1>5. u[a] = IF over THEN <<>> ELSE t[a] BY <1>1
<1>6. Null \in Pointer /\ Null \notin Subs BY SbsAssumption DEF Pointer
<1>7. Rest(e, c, t[a]) BY <1>1
<1> HIDE DEF e, over
<1>8. /\ act'[a] \in Frame /\ act'[a].cur = Null /\ act'[a].at # "in"
      /\ (act'[a].at = "none" => act'[a] = NoAct) /\ ~act'[a].final
      /\ u[a] \in Seq(Subs) /\ Rest(act'[a], c, u[a])
  <2>1. CASE over
    <3>1. act'[a] = NoAct /\ u[a] = <<>> BY <1>3, <1>5, <2>1
    <3>2. NoAct \in Frame BY <1>6 DEF NoAct, Frame
    <3>3. Rest(NoAct, c, <<>>) BY DEF Rest, NoAct
    <3>4. NoAct.cur = Null /\ NoAct.at # "in" /\ ~NoAct.final BY DEF NoAct
    <3>5. <<>> \in Seq(Subs) OBVIOUS
    <3> QED BY <3>1, <3>2, <3>3, <3>4, <3>5
  <2>2. CASE ~over
    <3>1. /\ act'[a] = [e EXCEPT !.at = "loop", !.cur = Null] /\ u[a] = t[a] /\ ~e.final
      BY <1>3, <1>5, <2>2 DEF over
    <3> DEFINE n == act'[a]
    <3> HIDE DEF n
    <3>2. /\ n \in Frame /\ n.cur = Null /\ n.at = "loop" /\ ~n.final
          /\ n.next = e.next /\ n.last = e.last /\ n.listed = e.listed
      <4>1. n = [e EXCEPT !.at = "loop", !.cur = Null] BY <3>1 DEF n
      <4> QED BY <1>2, <1>6, <3>1, <4>1 DEF Frame
    <3>3. Rest(n, c, t[a]) BY <1>7, <3>2 DEF Rest
    <3>4. t[a] \in Seq(Subs) BY <1>1
    <3> QED BY <3>1, <3>2, <3>3, <3>4 DEF n
  <2> QED BY <2>1, <2>2
<1> HIDE DEF s
<1>9. Linked(c)' BY <1>1, <1>2 DEF Linked, box
<1>10. act' \in [Acts -> Frame]
  <2>1. act' = [b \in Acts |-> act'[b]] BY <1>1, <1>2 DEF Typed
  <2>2. \A b \in Acts : act'[b] \in Frame BY <1>1, <1>4, <1>8 DEF Typed
  <2> QED BY <2>1, <2>2
<1>11. Typed'
  <2>1. life' \in [Subs -> {"unborn", "live", "deleted"}] BY <1>1, <1>2 DEF Typed, Released
  <2> QED BY <1>1, <1>2, <1>10, <2>1 DEF Typed, box
<1>12. Listed(c, u)'
  <2>1. u = [b \in Acts |-> u[b]] BY <1>1
  <2>2. \A b \in Acts : u[b] \in Seq(Subs) /\ Rest(act'[b], c, u[b]) BY <1>1, <1>4, <1>8
  <2>3. u \in [Acts -> Seq(Subs)] BY <2>1, <2>2
  <2> QED BY <1>1, <1>2, <1>9, <2>2, <2>3 DEF Listed, box
<1>13. Framed'
  <2> SUFFICES ASSUME NEW b \in Acts
               PROVE  /\ act'[b].at = "in" <=> act'[b].cur \in Subs
                      /\ act'[b].at = "none" => act'[b] = NoAct
                      /\ act'[b].final => act'[b].at = "in" /\ ~act'[b].listed
    BY DEF Framed
  <2>1. CASE b = a BY <1>6, <1>8, <2>1
  <2>2. CASE b # a BY <1>1, <1>4, <2>2 DEF Framed
  <2> QED BY <2>1, <2>2
<1>14. ASSUME NEW x PROVE Running(x)' = Running(x) \ {a} /\ (x # s => a \notin Running(x))
  <2>1. \A b \in Acts : act'[b].at = "in" /\ act'[b].cur = x
                        <=> act[b].at = "in" /\ act[b].cur = x /\ b # a
    BY <1>4, <1>8
  <2>2. Running(x)' = {b \in Acts : act'[b].at = "in" /\ act'[b].cur = x} BY DEF Running
  <2>3. Running(x) = {b \in Acts : act[b].at = "in" /\ act[b].cur = x} BY DEF Running
  <2> QED BY <2>1, <2>2, <2>3 DEF s
<1>15. a \in Running(s) BY <1>2 DEF Running, s, e
<1>16. Living'
  <2> SUFFICES ASSUME NEW x \in Subs
               PROVE  /\ life'[x] = "unborn" => x \notin closing'
                      /\ inBox'[x] => life'[x] = "live" /\ x \notin closing'
                      /\ Running(x)' # {} => life'[x] = "live"
                      /\ life'[x] = "live" => inBox'[x] \/ (x \in closing' /\ Running(x)' # {})
    BY DEF Living
  <2>1. /\ life[x] = "unborn" => x \notin closing
        /\ inBox[x] => life[x] = "live" /\ x \notin closing
        /\ Running(x) # {} => life[x] = "live"
        /\ life[x] = "live" => inBox[x] \/ (x \in closing /\ Running(x) # {})
    BY <1>1 DEF Living
  <2>2. inBox'[x] = inBox[x] /\ closing' = closing BY <1>2 DEF box
  <2>3. CASE x # s
    <3>1. life'[x] = life[x] BY <1>2, <2>3 DEF Released
    <3>2. Running(x)' = Running(x) BY <1>14, <2>3
    <3> QED BY <2>1, <2>2, <3>1, <3>2
  <2>4. CASE x = s
    <3>1. life[x] = "live" BY <1>15, <2>1, <2>4
    <3>2. Running(x)' = Running(s) \ {a} BY <1>14, <2>4
    <3>3. CASE s \in closing /\ Running(s) \ {a} = {}
      <4>1. life'[x] = "deleted" BY <1>1, <1>2, <2>4, <3>3 DEF Released, Typed
      <4> QED BY <2>1, <2>2, <2>4, <3>2, <3>3, <4>1
    <3>4. CASE ~(s \in closing /\ Running(s) \ {a} = {})
      <4>1. life'[x] = life[x] BY <1>2, <3>4 DEF Released
      <4> QED BY <2>1, <2>2, <2>4, <3>1, <3>2, <3>4, <4>1
    <3> QED BY <3>3, <3>4
  <2> QED BY <2>3, <2>4
<1>17. Owning' BY <1>1, <1>2 DEF Owning, box
<1>18. Chained' BY <1>12 DEF Chained
<1> QED BY <1>2, <1>11, <1>12, <1>13, <1>16, <1>17, <1>18 DEF SbsInv, s

(* Nothing but frames and loops changes: the end of an activation, a loop    *)
(* that begins or ends.                                                      *)
LEMMA FramesKeep ==
  ASSUME SbsInv, NEW c, NEW t, Listed(c, t), UNCHANGED <<box, closing, life>>,
         act' \in [Acts -> Frame], loops' \subseteq Loops, usable' \in BOOLEAN,
         NEW u \in [Acts -> Seq(Subs)],
         \A a \in Acts : /\ Rest(act'[a], c, u[a])
                         /\ \/ /\ act'[a].at = act[a].at /\ act'[a].cur = act[a].cur
                               /\ act'[a].final = act[a].final
                               /\ act'[a].listed => act[a].listed
                               /\ act[a] = NoAct => act'[a] = NoAct
                            \/ act'[a] = NoAct /\ act[a].at # "in"
  PROVE  SbsInv' /\ Listed(c, u)'
<1>1. /\ Typed /\ Owning /\ Framed /\ Living /\ c \in Seq(Subs) /\ Linked(c)
      /\ \A x \in Subs : ~inBox[x] => nextInBox[x] = Null /\ prevInBox[x] = Null
  BY DEF SbsInv, Listed
<1>2. NoAct.at = "none" /\ NoAct.cur = Null /\ ~NoAct.final /\ Null \notin Subs
  BY SbsAssumption DEF NoAct
<1>3. Linked(c)' BY <1>1 DEF Linked, box
<1>4. Listed(c, u)' BY <1>1, <1>3 DEF Listed, box
<1>5. Typed' BY <1>1 DEF Typed, box
<1>6. Framed'
  <2> SUFFICES ASSUME NEW b \in Acts
               PROVE  /\ act'[b].at = "in" <=> act'[b].cur \in Subs
                      /\ act'[b].at = "none" => act'[b] = NoAct
                      /\ act'[b].final => act'[b].at = "in" /\ ~act'[b].listed
    BY DEF Framed
  <2>1. CASE act'[b] = NoAct BY <1>2, <2>1
  <2>2. CASE act'[b] # NoAct BY <1>1, <2>2 DEF Framed
  <2> QED BY <2>1, <2>2
<1>7. \A b \in Acts : act'[b].at = "in" => act'[b].cur \in Subs BY <1>6 DEF Framed
<1>8. \A x : Running(x)' = Running(x)
  <2> TAKE x
  <2>1. \A b \in Acts : act'[b].at = "in" /\ act'[b].cur = x <=> act[b].at = "in" /\ act[b].cur = x
    BY <1>2
  <2>2. Running(x)' = {b \in Acts : act'[b].at = "in" /\ act'[b].cur = x} BY DEF Running
  <2>3. Running(x) = {b \in Acts : act[b].at = "in" /\ act[b].cur = x} BY DEF Running
  <2> QED BY <2>1, <2>2, <2>3
<1>9. Living' BY <1>1, <1>8 DEF Living, box
<1>10. Owning' BY <1>1 DEF Owning, box
<1>11. Chained' BY <1>4 DEF Chained
<1> QED BY <1>4, <1>5, <1>6, <1>9, <1>10, <1>11 DEF SbsInv

LEMMA ActivateEndsKeeps ==
  ASSUME SbsInv, NEW c, NEW t, Listed(c, t), NEW a \in Acts, ActivateEnds(a)
  PROVE  SbsInv' /\ Listed(c, t)' /\ t[a] = <<>>
<1>1. /\ Typed /\ t \in [Acts -> Seq(Subs)] /\ c \in Seq(Subs)
      /\ \A b \in Acts : Rest(act[b], c, t[b])
  BY DEF SbsInv, Listed
<1>2. /\ act[a].at = "loop" /\ act[a].next = Null
      /\ act' = [act EXCEPT ![a] = NoAct] /\ UNCHANGED <<box, closing, life, loops, usable>>
  BY DEF ActivateEnds
<1>3. t[a] = <<>>
  <2>1. \A i \in DOMAIN c : c[i] # Null BY <1>1, SbsAssumption
  <2>2. Rest(act[a], c, t[a]) BY <1>1
  <2> QED BY <1>2, <2>1, <2>2 DEF Rest
<1>4. act'[a] = NoAct /\ \A b \in Acts \ {a} : act'[b] = act[b] BY <1>1, <1>2 DEF Typed
<1>5. NoAct \in Frame BY SbsAssumption DEF NoAct, Frame, Pointer
<1>6. act' \in [Acts -> Frame] BY <1>1, <1>2, <1>5 DEF Typed
<1>7. Rest(NoAct, c, <<>>) BY DEF Rest, NoAct
<1>8. ASSUME NEW b \in Acts
      PROVE  /\ Rest(act'[b], c, t[b])
             /\ \/ /\ act'[b].at = act[b].at /\ act'[b].cur = act[b].cur
                   /\ act'[b].final = act[b].final
                   /\ act'[b].listed => act[b].listed
                   /\ act[b] = NoAct => act'[b] = NoAct
                \/ act'[b] = NoAct /\ act[b].at # "in"
  <2>1. CASE b = a BY <1>2, <1>3, <1>4, <1>7, <2>1
  <2>2. CASE b # a
    <3>1. act'[b] = act[b] BY <1>4, <2>2
    <3> QED BY <1>1, <3>1
  <2> QED BY <2>1, <2>2
<1>10. loops' \subseteq Loops /\ usable' \in BOOLEAN /\ UNCHANGED <<box, closing, life>>
  BY <1>1, <1>2 DEF Typed
<1>11. SbsInv' /\ Listed(c, t)' BY <1>1, <1>6, <1>8, <1>10, FramesKeep
<1> QED BY <1>3, <1>11

LEMMA LoopBeginsKeeps ==
  ASSUME SbsInv, NEW c, NEW t, Listed(c, t), NEW l \in Loops, LoopBegins(l)
  PROVE  SbsInv' /\ Listed(c, t)'
<1>1. /\ Typed /\ t \in [Acts -> Seq(Subs)] /\ \A b \in Acts : Rest(act[b], c, t[b])
  BY DEF SbsInv, Listed
<1>2. /\ act' = act /\ loops' \subseteq Loops /\ usable' \in BOOLEAN
      /\ UNCHANGED <<box, closing, life>>
  BY <1>1 DEF LoopBegins, Typed
<1>3. act' \in [Acts -> Frame] BY <1>1, <1>2 DEF Typed
<1> QED BY <1>1, <1>2, <1>3, FramesKeep

(* When ~Box is done with the list no enumerator has anything left.          *)
LEMMA LoopEndsKeeps ==
  ASSUME SbsInv, NEW c, NEW t, Listed(c, t), NEW l \in Loops, LoopEnds(l)
  PROVE  /\ SbsInv' /\ Listed(c, t)'
         /\ \A b \in Acts : /\ act'[b].at = act[b].at /\ act'[b].cur = act[b].cur
                             /\ act'[b].final = act[b].final
<1>1. /\ Typed /\ Framed /\ t \in [Acts -> Seq(Subs)] /\ \A b \in Acts : Rest(act[b], c, t[b])
      /\ c \in Seq(Subs) /\ Linked(c)
  BY DEF SbsInv, Listed
<1>2. /\ loops' \subseteq Loops /\ usable' \in BOOLEAN /\ UNCHANGED <<box, closing, life>>
      /\ act' = IF l = "destroy" THEN [a \in Acts |-> CutOff(act[a])] ELSE act
      /\ LoopFirst(l) = Null
  BY <1>1 DEF LoopEnds, Typed
<1>3. ASSUME NEW b \in Acts
      PROVE  /\ act'[b] \in Frame /\ act'[b].at = act[b].at /\ act'[b].cur = act[b].cur
             /\ act'[b].final = act[b].final /\ (act'[b].listed => act[b].listed)
             /\ (act[b] = NoAct => act'[b] = NoAct) /\ Rest(act'[b], c, t[b])
  <2> DEFINE e == act[b]
  <2>1. e \in Frame /\ Rest(e, c, t[b]) BY <1>1 DEF Typed
  <2>2. CASE l # "destroy"
    <3>1. act'[b] = e BY <1>2, <2>2
    <3> QED BY <2>1, <3>1
  <2>3. CASE l = "destroy"
    <3>1. first = Null BY <1>2, <2>3, SbsAssumption DEF LoopFirst
    <3>2. c = <<>>
      <4>1. SUFFICES ASSUME c # <<>> PROVE FALSE OBVIOUS
      <4>2. c[1] \in Subs /\ first = c[1] BY <1>1, <4>1 DEF Linked
      <4> QED BY <3>1, <4>2, SbsAssumption
    <3>3. act'[b] = CutOff(e) BY <1>2, <2>3
    <3> HIDE DEF e
    <3>4. e.next = Null /\ e.last = Null /\ t[b] = <<>> BY <2>1, <3>2 DEF Rest
    <3> DEFINE n == CutOff(e)
    <3>5. /\ n \in Frame /\ n.at = e.at /\ n.cur = e.cur /\ n.final = e.final
          /\ n.next = Null /\ n.last = Null /\ (n.listed => e.listed)
      BY <2>1, <3>4 DEF CutOff, Frame, Pointer
    <3>6. e = NoAct => n = NoAct BY DEF CutOff, NoAct
    <3> HIDE DEF n
    <3>7. Rest(n, c, t[b]) BY <3>4, <3>5 DEF Rest
    <3> QED BY <3>3, <3>5, <3>6, <3>7 DEF e, n
  <2> QED BY <2>2, <2>3
<1>4. act' \in [Acts -> Frame]
  <2>1. act' = [b \in Acts |-> act'[b]] BY <1>1, <1>2 DEF Typed
  <2>2. \A b \in Acts : act'[b] \in Frame BY <1>3
  <2> QED BY <2>1, <2>2
<1>5. SbsInv' /\ Listed(c, t)' BY <1>1, <1>2, <1>3, <1>4, FramesKeep
<1> QED BY <1>3, <1>5

(* Box::activate finds the handler to call where its enumerator stands.      *)
LEMMA ActivateCalls ==
  ASSUME SbsInv, NEW c, NEW t, Listed(c, t), NEW a \in Acts, NEW del \in BOOLEAN, Activate(a, del)
  PROVE  /\ act[a] = NoAct /\ t[a] = <<>> /\ c # <<>>
         /\ \E e \in Frame : e.del = del /\ Ready(e, c, 1, c) /\ Call(a, c[1], e)
<1>1. /\ Typed /\ c \in Seq(Subs) /\ Linked(c) /\ Rest(act[a], c, t[a])
      /\ act[a] = NoAct /\ first # Null
  BY DEF SbsInv, Listed, Activate
<1>2. c # <<>> /\ first = c[1] /\ last = c[Len(c)] BY <1>1 DEF Linked
<1>3. t[a] = <<>>
  <2>1. \A i \in DOMAIN c : c[i] # Null BY <1>1, SbsAssumption
  <2>2. NoAct.next = Null BY DEF NoAct
  <2> QED BY <1>1, <2>1, <2>2 DEF Rest
<1> DEFINE e == IF first = last THEN [NoAct EXCEPT !.final = TRUE, !.del = del]
                ELSE [NoAct EXCEPT !.next = first, !.last = last, !.listed = TRUE, !.del = del]
<1>4. Call(a, c[1], e) BY <1>2 DEF Activate
<1>5. Len(c) \in Nat /\ 1 \in DOMAIN c /\ Len(c) \in DOMAIN c /\ c[1] \in Subs /\ c[Len(c)] \in Subs
  BY <1>1, <1>2
<1>6. first = last <=> Len(c) = 1
  BY <1>1, <1>2, <1>5 DEF Linked, IsInjective
<1>7. e \in Frame /\ e.del = del
  BY <1>2, <1>5 DEF NoAct, Frame, Pointer
<1>8. Ready(e, c, 1, c)
  <2>1. CASE Len(c) = 1
    <3>1. ~e.listed /\ e.final /\ e.next = Null /\ e.last = Null BY <1>6, <2>1 DEF NoAct
    <3>2. c = <<c[1]>> BY <1>1, <2>1
    <3> QED BY <3>1, <3>2 DEF Ready
  <2>2. CASE Len(c) # 1
    <3>1. e.listed /\ ~e.final /\ e.next = c[1] /\ e.last = c[Len(c)]
      BY <1>2, <1>6, <2>2 DEF NoAct
    <3>2. c = SubSeq(c, 1, Len(c)) BY <1>1
    <3> HIDE DEF e
    <3>3. 1 < Len(c)
      <4>1. Len(c) \in Nat /\ Len(c) # 0 /\ Len(c) # 1 BY <1>1, <1>2, <2>2
      <4>2. \A n \in Nat : n # 0 /\ n # 1 => 1 < n OBVIOUS
      <4> QED BY <4>1, <4>2
    <3> QED BY <1>5, <3>1, <3>2, <3>3 DEF Ready
  <2> QED BY <2>1, <2>2
<1> HIDE DEF e
<1> QED BY <1>1, <1>2, <1>3, <1>4, <1>7, <1>8

LEMMA NextCalls ==
  ASSUME SbsInv, NEW c, NEW t, Listed(c, t), NEW a \in Acts, ActivateNext(a)
  PROVE  /\ act[a].at = "loop"
         /\ \E k \in DOMAIN c : Ready(act[a], c, k, t[a]) /\ Call(a, c[k], act[a])
<1>1. /\ Typed /\ Framed /\ c \in Seq(Subs) /\ Rest(act[a], c, t[a])
      /\ act[a].at = "loop" /\ act[a].next # act[a].last /\ Call(a, act[a].next, act[a])
  BY DEF SbsInv, Listed, ActivateNext
<1>2. PICK i \in DOMAIN c, j \in DOMAIN c :
        i <= j /\ act[a].next = c[i] /\ act[a].last = c[j] /\ t[a] = SubSeq(c, i, j)
  BY <1>1 DEF Rest
<1>3. act[a].listed BY <1>1 DEF Rest
<1>4. ~act[a].final BY <1>1 DEF Framed
<1>5. i < j BY <1>1, <1>2
<1> QED BY <1>1, <1>2, <1>3, <1>4, <1>5 DEF Ready

LEMMA LastCalls ==
  ASSUME SbsInv, NEW c, NEW t, Listed(c, t), NEW a \in Acts, ActivateLast(a)
  PROVE  /\ act[a].at = "loop"
         /\ \E k \in DOMAIN c, e \in Frame :
              e.del = act[a].del /\ Ready(e, c, k, t[a]) /\ Call(a, c[k], e)
<1> DEFINE f == act[a]
           e == [f EXCEPT !.next = Null, !.last = Null, !.listed = FALSE, !.final = TRUE]
<1>1. /\ f \in Frame /\ c \in Seq(Subs) /\ Linked(c) /\ Rest(f, c, t[a])
      /\ f.at = "loop" /\ f.next = f.last /\ f.next # Null /\ Call(a, f.next, e)
  BY DEF SbsInv, Listed, ActivateLast, Typed
<1>2. PICK i \in DOMAIN c, j \in DOMAIN c :
        i <= j /\ f.next = c[i] /\ f.last = c[j] /\ t[a] = SubSeq(c, i, j)
  BY <1>1 DEF Rest
<1>3. i = j BY <1>1, <1>2 DEF Linked, IsInjective
<1>4. t[a] = <<c[i]>>
  <2> DEFINE p == SubSeq(c, i, j)
  <2>1. /\ p \in Seq(Subs) /\ Len(p) = j - i + 1
        /\ \A m \in 1 .. j - i + 1 : p[m] = c[i + m - 1]
    BY <1>1, <1>2, PartFacts
  <2> HIDE DEF p
  <2>2. j - i + 1 = 1 /\ i + 1 - 1 = i BY <1>1, <1>3
  <2>3. Len(p) = 1 /\ p[1] = c[i] BY <2>1, <2>2
  <2>5. p \in Seq(Subs) /\ Len(p) = 1 BY <2>1, <2>3
  <2>6. p = <<p[1]>> BY <2>5
  <2>4. p = <<c[i]>> BY <2>3, <2>6
  <2> QED BY <1>2, <2>4 DEF p
<1> HIDE DEF f
<1>5. /\ e \in Frame /\ e.del = f.del /\ ~e.listed /\ e.final /\ e.next = Null /\ e.last = Null
  BY <1>1 DEF Frame, Pointer
<1> HIDE DEF e
<1>6. Ready(e, c, i, t[a]) BY <1>4, <1>5 DEF Ready
<1>7. Call(a, c[i], e) BY <1>1, <1>2
<1> QED BY <1>1, <1>5, <1>6, <1>7 DEF f

(* What the loops and Disconnect remove is in the list.                      *)
LEMMA InList ==
  ASSUME NEW c, NEW t, Listed(c, t), NEW s \in Subs, inBox[s]
  PROVE  \E k \in DOMAIN c : s = c[k]
BY DEF Listed, Linked, Range

LEMMA LoopFirstInBox ==
  ASSUME SbsInv, NEW l, LoopFirst(l) # Null
  PROVE  LoopFirst(l) \in Subs /\ inBox[LoopFirst(l)]
<1>1. Typed /\ Owning /\ \E c, t : Listed(c, t) BY DEF SbsInv, Chained
<1>2. CASE l \in Owners
  <2>1. owned[l] \in Seq(Subs) /\ owned[l] # <<>> /\ LoopFirst(l) = Head(owned[l])
    BY <1>1, <1>2 DEF LoopFirst, Typed
  <2>2. Head(owned[l]) \in Subs /\ Head(owned[l]) \in Range(owned[l]) BY <2>1, TailFacts
  <2> QED BY <1>1, <1>2, <2>1, <2>2 DEF Owning
<1>3. CASE l \notin Owners
  <2>1. LoopFirst(l) = first /\ first # Null BY <1>3 DEF LoopFirst
  <2>2. PICK c, t : Listed(c, t) BY <1>1
  <2>3. c \in Seq(Subs) /\ c # <<>> /\ first = c[1] /\ Range(c) = {x \in Subs : inBox[x]}
    BY <2>1, <2>2 DEF Listed, Linked
  <2>4. 1 \in DOMAIN c BY <2>3
  <2>5. first \in Range(c) BY <2>3, <2>4 DEF Range
  <2> QED BY <2>1, <2>3, <2>5
<1> QED BY <1>2, <1>3

LEMMA InitInv == Init => SbsInv
<1> SUFFICES ASSUME Init PROVE SbsInv OBVIOUS
<1> USE SbsAssumption DEF Init
<1> DEFINE t == [a \in Acts |-> <<>>]
<1>1. NoAct \in Frame BY DEF NoAct, Frame, Pointer
<1>2. Typed BY <1>1 DEF Typed, Pointer
<1>3. Linked(<<>>) BY DEF Linked, IsInjective, Range
<1>4. Listed(<<>>, t)
  <2>1. \A a \in Acts : Rest(act[a], <<>>, t[a]) BY DEF Rest, NoAct
  <2>2. t \in [Acts -> Seq(Subs)] OBVIOUS
  <2>3. <<>> \in Seq(Subs) OBVIOUS
  <2> HIDE DEF t
  <2> QED BY <1>3, <2>1, <2>2, <2>3 DEF Listed
<1>5. Chained BY <1>4 DEF Chained
<1>6. Owning BY DEF Owning, Range, IsInjective
<1>7. Framed BY DEF Framed, NoAct
<1>8. \A s \in Subs : Running(s) = {} BY DEF Running, NoAct
<1>9. Living BY <1>8 DEF Living
<1> QED BY <1>2, <1>5, <1>6, <1>7, <1>9 DEF SbsInv

LEMMA NextInv == SbsInv /\ [Next]_vars => SbsInv'
<1> SUFFICES ASSUME SbsInv, [Next]_vars PROVE SbsInv' OBVIOUS
<1>1. PICK c, t : Listed(c, t) BY DEF SbsInv, Chained
<1>2. c \in Seq(Subs) /\ t \in [Acts -> Seq(Subs)] /\ Typed BY <1>1 DEF Listed, SbsInv
<1>3. ASSUME NEW s \in Subs, NEW o, Connect(s, o) PROVE SbsInv' BY <1>1, <1>3, ConnectKeeps
<1>4. ASSUME NEW s \in Subs, inBox[s], RemoveAndDelete(s), UNCHANGED <<loops, usable>> PROVE SbsInv'
  <2>1. PICK k \in DOMAIN c : s = c[k] BY <1>1, <1>4, InList
  <2> QED BY <1>1, <1>4, <2>1, RemoveAndDeleteKeeps
<1>5. ASSUME NEW s \in Subs, Disconnect(s) PROVE SbsInv' BY <1>4, <1>5 DEF Disconnect
<1>6. ASSUME NEW a \in Acts, act[a].at # "in", NEW k \in DOMAIN c, NEW e \in Frame, NEW p,
             Ready(e, c, k, p), Call(a, c[k], e)
      PROVE  SbsInv'
  BY <1>1, <1>6, CallKeeps
<1>7. ASSUME NEW a \in Acts, NEW del \in BOOLEAN, Activate(a, del) PROVE SbsInv'
  <2>1. /\ act[a] = NoAct /\ c # <<>>
        /\ \E e \in Frame : e.del = del /\ Ready(e, c, 1, c) /\ Call(a, c[1], e)
    BY <1>1, <1>7, ActivateCalls
  <2>2. act[a].at # "in" /\ 1 \in DOMAIN c BY <1>2, <2>1 DEF NoAct
  <2> QED BY <1>6, <2>1, <2>2
<1>8. ASSUME NEW a \in Acts, NEW throws \in BOOLEAN, Return(a, throws) PROVE SbsInv'
  BY <1>1, <1>8, ReturnKeeps
<1>9. ASSUME NEW a \in Acts, ActivateNext(a) PROVE SbsInv'
  <2>1. /\ act[a].at = "loop" /\ act[a] \in Frame
        /\ \E k \in DOMAIN c : Ready(act[a], c, k, t[a]) /\ Call(a, c[k], act[a])
    BY <1>1, <1>2, <1>9, NextCalls DEF Typed
  <2>2. act[a].at # "in" BY <2>1
  <2> QED BY <1>6, <2>1, <2>2
<1>10. ASSUME NEW a \in Acts, ActivateLast(a) PROVE SbsInv'
  <2>1. /\ act[a].at = "loop"
        /\ \E k \in DOMAIN c, e \in Frame :
             e.del = act[a].del /\ Ready(e, c, k, t[a]) /\ Call(a, c[k], e)
    BY <1>1, <1>10, LastCalls
  <2>2. act[a].at # "in" BY <2>1
  <2> QED BY <1>6, <2>1, <2>2
<1>11. ASSUME NEW a \in Acts, ActivateEnds(a) PROVE SbsInv' BY <1>1, <1>11, ActivateEndsKeeps
<1>12. ASSUME NEW l \in Loops, LoopBegins(l) PROVE SbsInv' BY <1>1, <1>12, LoopBeginsKeeps
<1>13. ASSUME NEW l \in Loops, LoopStep(l) PROVE SbsInv'
  <2>1. LoopFirst(l) # Null /\ RemoveAndDelete(LoopFirst(l)) /\ UNCHANGED <<loops, usable>>
    BY <1>13 DEF LoopStep
  <2>2. LoopFirst(l) \in Subs /\ inBox[LoopFirst(l)] BY <2>1, LoopFirstInBox
  <2> QED BY <1>4, <2>1, <2>2
<1>14. ASSUME NEW l \in Loops, LoopEnds(l) PROVE SbsInv' BY <1>1, <1>14, LoopEndsKeeps
<1>15. CASE UNCHANGED vars
  <2>1. /\ act' = act /\ loops' \subseteq Loops /\ usable' \in BOOLEAN
        /\ UNCHANGED <<box, closing, life>>
    BY <1>2, <1>15 DEF vars, box, Typed
  <2>2. act' \in [Acts -> Frame] /\ \A b \in Acts : Rest(act'[b], c, t[b])
    BY <1>1, <1>2, <2>1 DEF Typed, Listed
  <2> QED BY <1>1, <1>2, <2>1, <2>2, FramesKeep
<1> QED BY <1>3, <1>5, <1>7, <1>8, <1>9, <1>10, <1>11, <1>12, <1>13, <1>14, <1>15 DEF Next

(* Every pointer is null or leads into the box; only an activation's handler *)
(* may have left it.                                                         *)
LEMMA InvGives == SbsInv => TypeOK /\ DeletedInTime
<1> SUFFICES ASSUME SbsInv PROVE TypeOK /\ DeletedInTime OBVIOUS
<1>1. PICK c, t : Listed(c, t) BY DEF SbsInv, Chained
<1>2. /\ Typed /\ Owning /\ Framed /\ Living /\ c \in Seq(Subs) /\ Linked(c)
      /\ \A b \in Acts : Rest(act[b], c, t[b])
      /\ \A x \in Subs : ~inBox[x] => nextInBox[x] = Null /\ prevInBox[x] = Null
  BY <1>1 DEF SbsInv, Listed
<1> DEFINE Sound(x) == x = Null \/ (x \in Subs /\ inBox[x])
<1>3. \A i \in DOMAIN c : Sound(c[i]) BY <1>2 DEF Linked, Range
<1>4. Sound(first) /\ Sound(last)
  <2>1. CASE c = <<>> BY <1>2, <2>1 DEF Linked
  <2>2. CASE c # <<>>
    <3>1. 1 \in DOMAIN c /\ Len(c) \in DOMAIN c BY <1>2, <2>2
    <3>2. first = c[1] /\ last = c[Len(c)] BY <1>2, <2>2 DEF Linked
    <3> QED BY <1>3, <3>1, <3>2
  <2> QED BY <2>1, <2>2
<1>5. ASSUME NEW x \in Subs PROVE Sound(nextInBox[x]) /\ Sound(prevInBox[x])
  <2>1. CASE ~inBox[x] BY <1>2, <2>1
  <2>2. CASE inBox[x]
    <3>1. PICK i \in DOMAIN c : x = c[i] BY <1>1, <2>2, InList
    <3>2. /\ nextInBox[c[i]] = (IF i = Len(c) THEN Null ELSE c[i + 1])
          /\ prevInBox[c[i]] = (IF i = 1 THEN Null ELSE c[i - 1])
      BY <1>2, <3>1 DEF Linked
    <3>3. (i # Len(c) => i + 1 \in DOMAIN c) /\ (i # 1 => i - 1 \in DOMAIN c) BY <1>2, <3>1
    <3> QED BY <1>3, <3>1, <3>2, <3>3
  <2> QED BY <2>1, <2>2
<1>6. ASSUME NEW a \in Acts PROVE Sound(act[a].next) /\ Sound(act[a].last)
  <2>1. Rest(act[a], c, t[a]) BY <1>2
  <2> QED BY <1>3, <2>1 DEF Rest
<1>7. TypeOK
  <2>1. {first, last} \subseteq Subs \union {Null} BY <1>4
  <2>2. ASSUME NEW a \in Acts
        PROVE  /\ {act[a].cur, act[a].next, act[a].last} \subseteq Subs \union {Null}
               /\ act[a].final => ~act[a].listed
    <3>1. act[a] \in Frame BY <1>2 DEF Typed
    <3> QED BY <1>2, <3>1 DEF Frame, Pointer, Framed
  <2> QED BY <1>2, <2>1, <2>2 DEF TypeOK, Typed, Pointer
<1>8. DeletedInTime
  <2>1. ASSUME NEW s \in Subs, life[s] = "deleted" PROVE ~Dangling(s)
    <3>1. ~inBox[s] /\ Running(s) = {} BY <1>2, <2>1 DEF Living
    <3>2. \A x : Sound(x) => x # s BY <3>1, SbsAssumption
    <3>3. \A o \in Owners : s \notin Range(owned[o]) BY <1>2, <3>1 DEF Owning
    <3>4. \A a \in Acts : act[a].cur # s
      <4>1. \A a \in Acts : act[a].at = "in" <=> act[a].cur \in Subs BY <1>2 DEF Framed
      <4> QED BY <3>1, <4>1 DEF Running
    <3> HIDE DEF Sound
    <3> QED BY <1>4, <1>5, <1>6, <3>1, <3>2, <3>3, <3>4 DEF Dangling
  <2> QED BY <1>2, <2>1 DEF DeletedInTime, Living, Owning
<1> QED BY <1>7, <1>8

(* The pointers of the box, of its subscriptions and of its enumerators      *)
(* always make a list, with each enumerator at a place in it.                *)
THEOREM SbsInvariant == Spec => []SbsInv
BY InitInv, NextInv, PTL DEF Spec

(* Pointers lead to subscriptions.                                           *)
THEOREM TypeCorrect == Spec => []TypeOK
BY SbsInvariant, InvGives, PTL

(* Subscription::activate and Box::removeAndDelete delete a subscription     *)
(* exactly when nothing refers to it any more, whatever handlers do.         *)
THEOREM AlwaysDeletedInTime == Spec => []DeletedInTime
BY SbsInvariant, InvGives, PTL

-----------------------------------------------------------------------------
(* The refinement of Signal.                                                 *)

(* The state of Signal that Sbs shows; CallOf(t) is what activations show    *)
(* when t is what they have left.                                            *)
CallOf(t) == [a \in Acts |-> [at |-> Place(act[a]), cur |-> act[a].cur, todo |-> t[a],
                              final |-> act[a].final]]
Shown == [a \in Acts |-> [at |-> Place(act[a]), cur |-> act[a].cur, todo |-> Left(act[a]),
                          final |-> act[a].final]]
Status == [s \in Subs |-> CASE life[s] = "unborn"  -> "unborn"
                            [] life[s] = "deleted" -> "destroyed"
                            [] life[s] = "live" /\ s \in closing -> "closing"
                            [] OTHER -> "connected"]

LEMMA ShownIs == \A c, t : Listed(c, t) => List = c /\ Shown = CallOf(t)
<1> SUFFICES ASSUME NEW c, NEW t, Listed(c, t) PROVE List = c /\ Shown = CallOf(t) OBVIOUS
<1>1. c \in Seq(Subs) /\ Linked(c) /\ \A a \in Acts : Rest(act[a], c, t[a]) BY DEF Listed
<1>2. List = c BY <1>1, ListIs
<1>3. \A a \in Acts : Left(act[a]) = t[a] BY <1>1, LeftIs
<1> QED BY <1>2, <1>3 DEF Shown, CallOf

LEMMA ShownNext == \A c, t : Listed(c, t)' => List' = c /\ Shown' = CallOf(t)'
<1>1. (\A c, t : Listed(c, t) => List = c /\ Shown = CallOf(t))' BY ShownIs, PTL
<1> QED BY <1>1

LEMMA StatusIs ==
  ASSUME Typed, NEW s \in Subs
  PROVE  /\ life[s] = "unborn" => Status[s] = "unborn"
         /\ life[s] = "deleted" => Status[s] = "destroyed"
         /\ life[s] = "live" /\ s \in closing => Status[s] = "closing"
         /\ life[s] = "live" /\ s \notin closing => Status[s] = "connected"
BY DEF Status

LEMMA StatusNext ==
  ASSUME NEW s \in Subs
  PROVE  /\ life'[s] = "unborn" => Status'[s] = "unborn"
         /\ life'[s] = "deleted" => Status'[s] = "destroyed"
         /\ life'[s] = "live" /\ s \in closing' => Status'[s] = "closing"
         /\ life'[s] = "live" /\ s \notin closing' => Status'[s] = "connected"
BY DEF Status

LEMMA StatusDomain == Status = [s \in Subs |-> Status[s]] /\ Status' = [s \in Subs |-> Status'[s]]
BY DEF Status

(* Sequence operators are the same in both modules.                          *)
LEMMA SameSequences ==
  /\ \A l, x : Abstract!RemoveFirst(l, x) = RemoveFirst(l, x)
  /\ \A l : Abstract!Range(l) = Range(l)
<1>1. \A l, x : Abstract!RemoveFirst(l, x) = RemoveFirst(l, x)
  BY DEF Abstract!RemoveFirst, RemoveFirst, Abstract!SelectInSeq, SelectInSeq,
         Abstract!RemoveAt, RemoveAt, Abstract!Min, Min
<1>2. \A l : Abstract!Range(l) = Range(l) BY DEF Abstract!Range, Range
<1> QED BY <1>1, <1>2

(* Signal's actions over the state shown.                                    *)
LEMMA IsConnect ==
  ASSUME NEW s, Status[s] = "unborn", List' = Append(List, s), Shown' = Shown,
         Status' = [Status EXCEPT ![s] = "connected"]
  PROVE  Abstract!Connect(s)
BY DEF Abstract!Connect, Shown, Status

LEMMA IsDisconnect ==
  ASSUME NEW s, s \in Range(List), List' = RemoveFirst(List, s),
         Shown' = [b \in Acts |-> [Shown[b] EXCEPT !.todo = RemoveFirst(@, s)]],
         Status' = [Status EXCEPT ![s] =
           IF {a \in Acts : Shown[a].at = "in" /\ Shown[a].cur = s} = {} THEN "destroyed"
           ELSE "closing"]
  PROVE  Abstract!Disconnect(s)
BY SameSequences DEF Abstract!Disconnect, Abstract!Dropped, Abstract!Inside, Shown, Status

(* What Signal has of the entry of activation a, as r, into s.                *)
Entry(a, s, rest, del, r) ==
  /\ r = [at |-> "in", cur |-> s, todo |-> rest, final |-> rest = <<>>]
  /\ List' = IF del THEN RemoveFirst(List, s) ELSE List
  /\ del => Shown' = [b \in Acts |-> IF b = a THEN r
                                     ELSE [Shown[b] EXCEPT !.todo = RemoveFirst(@, s)]]
  /\ ~del => Shown' = [Shown EXCEPT ![a] = r]
  /\ Status' = IF del THEN [Status EXCEPT ![s] = "closing"] ELSE Status

LEMMA IsEnter ==
  ASSUME NEW a, NEW s, NEW rest, NEW del, NEW r, Entry(a, s, rest, del, r)
  PROVE  Abstract!Enter(a, s, rest, del)
<1>1. CASE del BY <1>1, SameSequences DEF Entry, Abstract!Enter, Abstract!Calls, Shown, Status
<1>2. CASE ~del BY <1>2 DEF Entry, Abstract!Enter, Abstract!Calls, Shown, Status
<1> QED BY <1>1, <1>2

LEMMA IsLeave ==
  ASSUME NEW a, NEW throws, Shown[a].at = "in", List' = List,
         Shown' = [Shown EXCEPT ![a] =
           IF throws \/ @.final THEN [at |-> "none", cur |-> Null, todo |-> <<>>, final |-> FALSE]
           ELSE [@ EXCEPT !.at = "between", !.cur = Null]],
         Status' = IF Status[Shown[a].cur] = "closing"
                   THEN [Status EXCEPT ![Shown[a].cur] =
                     IF {b \in Acts : Shown[b].at = "in" /\ Shown[b].cur = Shown[a].cur} \ {a} = {}
                     THEN "destroyed" ELSE "closing"]
                   ELSE Status
  PROVE  Abstract!Leave(a, throws)
BY DEF Abstract!Leave, Abstract!Dropped, Abstract!Inside, Abstract!Quiet, Shown, Status

LEMMA IsFinish ==
  ASSUME NEW a, Shown[a].at = "between", Shown[a].todo = <<>>, List' = List, Status' = Status,
         Shown' = [Shown EXCEPT ![a] =
                     [at |-> "none", cur |-> Null, todo |-> <<>>, final |-> FALSE]]
  PROVE  Abstract!Finish(a)
BY DEF Abstract!Finish, Abstract!Quiet, Shown, Status

(* What one activation shows, before and after a step.                       *)
LEMMA CallOfIs ==
  ASSUME Typed, NEW t, NEW a \in Acts
  PROVE  /\ CallOf(t)[a] = [at |-> Place(act[a]), cur |-> act[a].cur, todo |-> t[a],
                            final |-> act[a].final]
         /\ act[a].at = "none" => Place(act[a]) = "none"
         /\ act[a].at = "in" <=> Place(act[a]) = "in"
         /\ act[a].at = "loop" => Place(act[a]) = "between"
<1>1. act[a].at \in {"none", "in", "loop"} BY DEF Typed, Frame
<1> QED BY <1>1 DEF CallOf, Place

LEMMA CallOfNext ==
  ASSUME Typed', NEW t, NEW a \in Acts
  PROVE  /\ CallOf(t)'[a] = [at |-> Place(act[a])', cur |-> act'[a].cur, todo |-> t[a],
                            final |-> act'[a].final]
         /\ act'[a].at = "none" => Place(act[a])' = "none"
         /\ act'[a].at = "in" <=> Place(act[a])' = "in"
         /\ act'[a].at = "loop" => Place(act[a])' = "between"
         /\ act'[a].at = act[a].at => Place(act[a])' = Place(act[a])
<1>1. act'[a].at \in {"none", "in", "loop"} BY DEF Typed, Frame
<1> QED BY <1>1 DEF CallOf, Place

LEMMA InsideIs ==
  ASSUME Typed, NEW t, NEW s
  PROVE  {a \in Acts : CallOf(t)[a].at = "in" /\ CallOf(t)[a].cur = s} = Running(s)
<1>1. ASSUME NEW a \in Acts
      PROVE  (CallOf(t)[a].at = "in" <=> act[a].at = "in") /\ CallOf(t)[a].cur = act[a].cur
  <2>1. CallOf(t)[a].at = Place(act[a]) /\ CallOf(t)[a].cur = act[a].cur BY DEF CallOf
  <2> QED BY <2>1, CallOfIs
<1> QED BY <1>1 DEF Running

LEMMA CallOfDomain ==
  ASSUME NEW t
  PROVE  /\ CallOf(t) = [a \in Acts |-> CallOf(t)[a]]
         /\ CallOf(t)' = [a \in Acts |-> CallOf(t)'[a]]
BY DEF CallOf

(* An activation that keeps its place shows the same but for what it has     *)
(* left.                                                                     *)
LEMMA SamePlace ==
  ASSUME Typed, Typed', NEW t, NEW u, NEW a \in Acts,
         act'[a].at = act[a].at, act'[a].cur = act[a].cur, act'[a].final = act[a].final
  PROVE  /\ CallOf(u)'[a] = [at |-> Place(act[a]), cur |-> act[a].cur, todo |-> u[a],
                             final |-> act[a].final]
         /\ CallOf(t)[a] = [at |-> Place(act[a]), cur |-> act[a].cur, todo |-> t[a],
                            final |-> act[a].final]
<1>1. Place(act[a])' = Place(act[a]) BY CallOfNext
<1>2. CallOf(u)'[a] = [at |-> Place(act[a])', cur |-> act'[a].cur, todo |-> u[a],
                       final |-> act'[a].final]
  BY CallOfNext
<1>3. CallOf(t)[a] = [at |-> Place(act[a]), cur |-> act[a].cur, todo |-> t[a],
                      final |-> act[a].final]
  BY CallOfIs
<1> QED BY <1>1, <1>2, <1>3

LEMMA SameShown ==
  ASSUME Typed, Typed', NEW t,
         \A a \in Acts : /\ act'[a].at = act[a].at /\ act'[a].cur = act[a].cur
                         /\ act'[a].final = act[a].final
  PROVE  CallOf(t)' = CallOf(t)
<1>1. ASSUME NEW a \in Acts PROVE CallOf(t)'[a] = CallOf(t)[a]
  <2>1. Place(act[a])' = Place(act[a]) /\ act'[a].cur = act[a].cur /\ act'[a].final = act[a].final
    BY CallOfNext
  <2>2. CallOf(t)'[a] = [at |-> Place(act[a])', cur |-> act'[a].cur, todo |-> t[a],
                         final |-> act'[a].final]
    BY CallOfNext
  <2>3. CallOf(t)[a] = [at |-> Place(act[a]), cur |-> act[a].cur, todo |-> t[a],
                        final |-> act[a].final]
    BY CallOfIs
  <2> QED BY <2>1, <2>2, <2>3
<1> QED BY <1>1, CallOfDomain

(* Steps of loops and of nobody.                                             *)
LEMMA Stutters ==
  ASSUME Typed, Typed', NEW c, NEW t, Listed(c, t), Listed(c, t)', UNCHANGED <<life, closing>>,
         \A a \in Acts : /\ act'[a].at = act[a].at /\ act'[a].cur = act[a].cur
                         /\ act'[a].final = act[a].final
  PROVE  UNCHANGED Abstract!vars
<1>1. List = c /\ Shown = CallOf(t) /\ List' = c /\ Shown' = CallOf(t)' BY ShownIs, ShownNext
<1>2. CallOf(t)' = CallOf(t) BY SameShown
<1>3. Status' = Status BY DEF Status
<1> QED BY <1>1, <1>2, <1>3 DEF Abstract!vars, Shown, Status

LEMMA ConnectRefines ==
  ASSUME SbsInv, NEW c, NEW t, Listed(c, t), NEW s \in Subs, NEW o, Connect(s, o)
  PROVE  Abstract!Connect(s)
<1>1. SbsInv' /\ Listed(Append(c, s), t)' BY ConnectKeeps
<1>2. Typed /\ Typed' /\ Living BY <1>1 DEF SbsInv
<1>3. List = c /\ Shown = CallOf(t) /\ List' = Append(c, s) /\ Shown' = CallOf(t)'
  BY <1>1, ShownIs, ShownNext
<1>4. /\ life[s] = "unborn" /\ life' = [life EXCEPT ![s] = "live"] /\ closing' = closing /\ act' = act
  BY DEF Connect
<1>5. CallOf(t)' = CallOf(t) BY <1>2, <1>4, SameShown
<1>6. s \notin closing BY <1>2, <1>4 DEF Living
<1>7. Status[s] = "unborn" BY <1>2, <1>4, StatusIs
<1>8. Status' = [Status EXCEPT ![s] = "connected"]
  <2>1. Status'[s] = "connected" BY <1>2, <1>4, <1>6, StatusNext DEF Typed
  <2>2. \A x \in Subs \ {s} : Status'[x] = Status[x] BY <1>2, <1>4 DEF Status, Typed
  <2> QED BY <2>1, <2>2, StatusDomain
<1> QED BY <1>3, <1>5, <1>7, <1>8, IsConnect

LEMMA DisconnectRefines ==
  ASSUME SbsInv, NEW c, NEW t, Listed(c, t), NEW k \in DOMAIN c, RemoveAndDelete(c[k]),
         UNCHANGED <<loops, usable>>
  PROVE  Abstract!Disconnect(c[k])
<1> DEFINE s == c[k]
<1>u. PICK u : u = [a \in Acts |-> RemoveFirst(t[a], c[k])] OBVIOUS
<1>1. /\ SbsInv' /\ Listed(RemoveAt(c, k), u)'
      /\ \A a \in Acts : /\ act'[a].at = act[a].at /\ act'[a].cur = act[a].cur
                         /\ act'[a].final = act[a].final
  BY <1>u, RemoveAndDeleteKeeps
<1>2. /\ Typed /\ Typed' /\ Living /\ c \in Seq(Subs) /\ IsInjective(c) /\ s \in Subs /\ s \in Range(c)
  BY <1>1 DEF SbsInv, Listed, Linked, Range
<1>3. List = c /\ Shown = CallOf(t) /\ List' = RemoveAt(c, k) /\ Shown' = CallOf(u)'
  BY <1>1, ShownIs, ShownNext
<1>4. RemoveAt(c, k) = RemoveFirst(c, s) BY <1>2, RemoveFirstFacts
<1>5. CallOf(u)' = [b \in Acts |-> [CallOf(t)[b] EXCEPT !.todo = RemoveFirst(@, s)]]
  <2>1. ASSUME NEW b \in Acts
        PROVE  CallOf(u)'[b] = [CallOf(t)[b] EXCEPT !.todo = RemoveFirst(@, s)]
    <3>1. u[b] = RemoveFirst(t[b], s) BY <1>u
    <3> HIDE DEF s
    <3>2. /\ CallOf(u)'[b] = [at |-> Place(act[b]), cur |-> act[b].cur, todo |-> u[b],
                               final |-> act[b].final]
          /\ CallOf(t)[b] = [at |-> Place(act[b]), cur |-> act[b].cur, todo |-> t[b],
                              final |-> act[b].final]
      BY <1>1, <1>2, SamePlace
    <3> QED BY <3>1, <3>2
  <2>2. CallOf(u)' = [b \in Acts |-> CallOf(u)'[b]] BY CallOfDomain
  <2> QED BY <2>1, <2>2
<1>s. inBox[s] BY <1>2 DEF SbsInv, Listed, Linked
<1>6. {a \in Acts : CallOf(t)[a].at = "in" /\ CallOf(t)[a].cur = s} = Running(s)
  BY <1>2, InsideIs
<1>7. Status' = [Status EXCEPT ![s] = IF Running(s) = {} THEN "destroyed" ELSE "closing"]
  <2>1. /\ closing' = closing \union {s}
        /\ life' = IF Running(s) = {} THEN [life EXCEPT ![s] = "deleted"] ELSE life
    BY DEF RemoveAndDelete
  <2> HIDE DEF s
  <2>2. life[s] = "live" BY <1>2, <1>s DEF Living
  <2>3. Status'[s] = IF Running(s) = {} THEN "destroyed" ELSE "closing"
    BY <1>2, <2>1, <2>2, StatusNext DEF Typed
  <2>4. \A x \in Subs \ {s} : Status'[x] = Status[x] BY <1>2, <2>1 DEF Status, Typed
  <2> QED BY <1>2, <2>3, <2>4, StatusDomain
<1> QED BY <1>2, <1>3, <1>4, <1>5, <1>6, <1>7, IsDisconnect

LEMMA CallRefines ==
  ASSUME SbsInv, NEW c, NEW t, Listed(c, t), NEW a \in Acts, act[a].at # "in",
         NEW k \in DOMAIN c, NEW e \in Frame, NEW p, Ready(e, c, k, p), Call(a, c[k], e)
  PROVE  p # <<>> /\ Abstract!Enter(a, Head(p), Tail(p), e.del)
<1> DEFINE s == c[k]
<1>d. PICK d : d = IF e.del THEN RemoveAt(c, k) ELSE c OBVIOUS
<1>u. PICK u : u = [b \in Acts |-> IF b = a THEN Tail(p)
                                   ELSE IF e.del THEN RemoveFirst(t[b], c[k]) ELSE t[b]]
  OBVIOUS
<1>1. /\ SbsInv' /\ Listed(d, u)'
      /\ p \in Seq(Subs) /\ p # <<>> /\ Head(p) = c[k] /\ (e.final <=> Tail(p) = <<>>)
      /\ act'[a].at = "in" /\ act'[a].cur = c[k] /\ act'[a].final = e.final
      /\ \A b \in Acts \ {a} : /\ act'[b].at = act[b].at /\ act'[b].cur = act[b].cur
                               /\ act'[b].final = act[b].final
  BY <1>d, <1>u, CallKeeps
<1>2. /\ Typed /\ Typed' /\ Living /\ c \in Seq(Subs) /\ IsInjective(c) /\ s \in Subs /\ inBox[s]
  BY <1>1 DEF SbsInv, Listed, Linked, Range
<1>3. List = c /\ Shown = CallOf(t) /\ List' = d /\ Shown' = CallOf(u)'
  BY <1>1, ShownIs, ShownNext
<1>4. List' = IF e.del THEN RemoveFirst(List, s) ELSE List
  <2>1. RemoveAt(c, k) = RemoveFirst(c, s) BY <1>2, RemoveFirstFacts
  <2> QED BY <1>d, <1>3, <2>1
<1>r. PICK rest : rest = Tail(p) OBVIOUS
<1>q. PICK r : r = [at |-> "in", cur |-> s, todo |-> rest, final |-> rest = <<>>] OBVIOUS
<1>5. CallOf(u)'[a] = r
  <2>1. CallOf(u)'[a] = [at |-> Place(act[a])', cur |-> act'[a].cur, todo |-> u[a],
                         final |-> act'[a].final]
    BY <1>2, CallOfNext
  <2>2. Place(act[a])' = "in" BY <1>1, <1>2, CallOfNext
  <2>3. u[a] = rest BY <1>u, <1>r
  <2>4. e.final \in BOOLEAN BY DEF Frame
  <2>5. act'[a].final = (rest = <<>>) BY <1>1, <1>r, <2>4
  <2> QED BY <1>1, <1>q, <2>1, <2>2, <2>3, <2>5
<1>6. ASSUME NEW b \in Acts, b # a
      PROVE  /\ e.del => CallOf(u)'[b] = [CallOf(t)[b] EXCEPT !.todo = RemoveFirst(@, s)]
             /\ ~e.del => CallOf(u)'[b] = CallOf(t)[b]
  <2>1. u[b] = IF e.del THEN RemoveFirst(t[b], s) ELSE t[b] BY <1>u, <1>6
  <2> HIDE DEF s
  <2>2. /\ CallOf(u)'[b] = [at |-> Place(act[b]), cur |-> act[b].cur, todo |-> u[b],
                             final |-> act[b].final]
        /\ CallOf(t)[b] = [at |-> Place(act[b]), cur |-> act[b].cur, todo |-> t[b],
                            final |-> act[b].final]
    BY <1>1, <1>2, <1>6, SamePlace
  <2> QED BY <2>1, <2>2
<1>7. CallOf(u)' = [b \in Acts |-> CallOf(u)'[b]] /\ CallOf(t) = [b \in Acts |-> CallOf(t)[b]]
  BY CallOfDomain
<1> HIDE DEF s
<1>8. e.del => Shown' = [b \in Acts |-> IF b = a THEN r
                                        ELSE [Shown[b] EXCEPT !.todo = RemoveFirst(@, s)]]
  BY <1>3, <1>5, <1>6, <1>7
<1>9. ~e.del => Shown' = [Shown EXCEPT ![a] = r] BY <1>3, <1>5, <1>6, <1>7
<1>10. Status' = IF e.del THEN [Status EXCEPT ![s] = "closing"] ELSE Status
  <2>1. /\ closing' = IF e.del THEN closing \union {s} ELSE closing
        /\ life' = life
    BY DEF Call, s
  <2>2. CASE ~e.del BY <2>1, <2>2 DEF Status
  <2>3. CASE e.del
    <3>1. life[s] = "live" BY <1>2 DEF Living
    <3>2. Status'[s] = "closing" BY <1>2, <2>1, <2>3, <3>1, StatusNext
    <3>3. ASSUME NEW x \in Subs \ {s} PROVE Status'[x] = Status[x]
      <4>1. life'[x] = life[x] /\ (x \in closing' <=> x \in closing) BY <2>1, <2>3
      <4> QED BY <4>1 DEF Status
    <3> QED BY <1>2, <2>3, <3>2, <3>3, StatusDomain
  <2> QED BY <2>2, <2>3
<1>11. Abstract!Enter(a, s, rest, e.del)
  <2>1. PICK x, del : x = s /\ del = e.del OBVIOUS
  <2>2. Entry(a, x, rest, del, r) BY <1>4, <1>8, <1>9, <1>10, <1>q, <2>1 DEF Entry
  <2>3. Abstract!Enter(a, x, rest, del) BY <2>2, IsEnter
  <2> QED BY <2>1, <2>3
<1> QED BY <1>1, <1>11, <1>r DEF s

LEMMA ReturnRefines ==
  ASSUME SbsInv, NEW c, NEW t, Listed(c, t), NEW a \in Acts, NEW throws \in BOOLEAN,
         Return(a, throws)
  PROVE  Abstract!Leave(a, throws)
<1> DEFINE s == act[a].cur
           Off == [at |-> "none", cur |-> Null, todo |-> <<>>, final |-> FALSE]
<1>u. PICK u : u = [t EXCEPT ![a] = IF throws \/ act[a].final THEN <<>> ELSE @] OBVIOUS
<1>1. SbsInv' /\ Listed(c, u)' /\ s \in Subs BY <1>u, ReturnKeeps
<1>2. /\ Typed /\ Typed' /\ Living /\ t \in [Acts -> Seq(Subs)] BY <1>1 DEF SbsInv, Listed
<1>3. List = c /\ Shown = CallOf(t) /\ List' = c /\ Shown' = CallOf(u)'
  BY <1>1, ShownIs, ShownNext
<1>4. /\ act[a].at = "in"
      /\ act' = [act EXCEPT ![a] = IF throws \/ @.final THEN NoAct
                                   ELSE [@ EXCEPT !.at = "loop", !.cur = Null]]
      /\ life' = Released(s, Running(s) \ {a}) /\ closing' = closing
  BY DEF Return
<1>5. /\ Place(act[a]) = "in"
      /\ CallOf(t)[a] = [at |-> Place(act[a]), cur |-> s, todo |-> t[a], final |-> act[a].final]
  BY <1>2, <1>4, CallOfIs
<1>6. CallOf(t)[a].at = "in" /\ CallOf(t)[a].cur = s /\ CallOf(t)[a].final = act[a].final BY <1>5
<1>7. CallOf(u)'[a] = IF throws \/ act[a].final THEN Off
                      ELSE [CallOf(t)[a] EXCEPT !.at = "between", !.cur = Null]
  <2>1. CallOf(u)'[a] = [at |-> Place(act[a])', cur |-> act'[a].cur, todo |-> u[a],
                         final |-> act'[a].final]
    BY <1>2, CallOfNext
  <2>2. act[a] \in Frame BY <1>2 DEF Typed
  <2>3. CASE throws \/ act[a].final
    <3>1. act'[a] = NoAct /\ u[a] = <<>> BY <1>u, <1>2, <1>4, <2>3 DEF Typed
    <3>2. act'[a].at = "none" /\ act'[a].cur = Null /\ act'[a].final = FALSE BY <3>1 DEF NoAct
    <3>3. Place(act[a])' = "none" BY <1>2, <3>2, CallOfNext
    <3> QED BY <2>1, <2>3, <3>1, <3>2, <3>3
  <2>4. CASE ~(throws \/ act[a].final)
    <3>1. act'[a] = [act[a] EXCEPT !.at = "loop", !.cur = Null] /\ u[a] = t[a]
      BY <1>u, <1>2, <1>4, <2>4 DEF Typed
    <3>2. act'[a].at = "loop" /\ act'[a].cur = Null /\ act'[a].final = act[a].final
      BY <2>2, <3>1 DEF Frame
    <3>3. Place(act[a])' = "between" BY <1>2, <3>2, CallOfNext
    <3>4. CallOf(u)'[a] = [at |-> "between", cur |-> Null, todo |-> t[a], final |-> act[a].final]
      BY <2>1, <3>1, <3>2, <3>3
    <3>5. [CallOf(t)[a] EXCEPT !.at = "between", !.cur = Null]
            = [at |-> "between", cur |-> Null, todo |-> t[a], final |-> act[a].final]
      <4>1. PICK q : q = CallOf(t)[a] OBVIOUS
      <4>2. PICK x : x = Place(act[a]) OBVIOUS
      <4>3. PICK f : f = act[a].final OBVIOUS
      <4>4. q = [at |-> x, cur |-> s, todo |-> t[a], final |-> f] BY <1>5, <4>1, <4>2, <4>3
      <4>5. [q EXCEPT !.at = "between", !.cur = Null]
              = [at |-> "between", cur |-> Null, todo |-> t[a], final |-> f]
        <5>1. PICK p : p = [q EXCEPT !.at = "between"] OBVIOUS
        <5>2. PICK y, z : y = s /\ z = t[a] OBVIOUS
        <5>3. p = [at |-> "between", cur |-> y, todo |-> z, final |-> f] BY <4>4, <5>1, <5>2
        <5>4. [p EXCEPT !.cur = Null] = [at |-> "between", cur |-> Null, todo |-> z, final |-> f]
          BY <5>3
        <5>5. [q EXCEPT !.at = "between", !.cur = Null] = [p EXCEPT !.cur = Null] BY <5>1
        <5> QED BY <5>2, <5>4, <5>5
      <4> QED BY <4>1, <4>3, <4>5
    <3> QED BY <2>4, <3>4, <3>5
  <2> QED BY <2>3, <2>4
<1>8. ASSUME NEW b \in Acts, b # a PROVE CallOf(u)'[b] = CallOf(t)[b]
  <2>1. act'[b] = act[b] /\ u[b] = t[b] BY <1>u, <1>2, <1>4, <1>8 DEF Typed
  <2>2. /\ CallOf(u)'[b] = [at |-> Place(act[b]), cur |-> act[b].cur, todo |-> u[b],
                             final |-> act[b].final]
        /\ CallOf(t)[b] = [at |-> Place(act[b]), cur |-> act[b].cur, todo |-> t[b],
                            final |-> act[b].final]
    BY <1>2, <2>1, SamePlace
  <2> QED BY <2>1, <2>2
<1>9. CallOf(u)' = [b \in Acts |-> CallOf(u)'[b]] /\ CallOf(t) = [b \in Acts |-> CallOf(t)[b]]
  BY CallOfDomain
<1>10. {b \in Acts : CallOf(t)[b].at = "in" /\ CallOf(t)[b].cur = s} = Running(s)
  BY <1>2, InsideIs
<1> HIDE DEF s, Off
<1>11. Shown' = [Shown EXCEPT ![a] = IF throws \/ @.final THEN Off
                                     ELSE [@ EXCEPT !.at = "between", !.cur = Null]]
  <2>1. Shown' = [CallOf(t) EXCEPT ![a] = CallOf(u)'[a]] BY <1>3, <1>8, <1>9
  <2> QED BY <1>3, <1>6, <1>7, <2>1
<1>12. life[s] = "live"
  <2>1. a \in Running(s) BY <1>4 DEF Running, s
  <2> QED BY <1>1, <1>2, <2>1 DEF Living
<1>13. Status[s] = "closing" <=> s \in closing
  <2>1. s \in closing => Status[s] = "closing" BY <1>1, <1>2, <1>12, StatusIs
  <2>2. s \notin closing => Status[s] = "connected" BY <1>1, <1>2, <1>12, StatusIs
  <2> QED BY <2>1, <2>2
<1>14. Status' = IF Status[s] = "closing"
                 THEN [Status EXCEPT ![s] = IF Running(s) \ {a} = {} THEN "destroyed" ELSE "closing"]
                 ELSE Status
  <2>1. \A x \in Subs \ {s} : Status'[x] = Status[x] BY <1>1, <1>4 DEF Status, Released
  <2>2. CASE s \notin closing
    <3>1. life' = life BY <1>4, <2>2 DEF Released
    <3>2. Status' = Status BY <1>4, <3>1 DEF Status
    <3> QED BY <1>13, <2>2, <3>2
  <2>3. CASE s \in closing /\ Running(s) \ {a} = {}
    <3>1. life'[s] = "deleted" BY <1>1, <1>2, <1>4, <2>3 DEF Released, Typed
    <3>2. Status'[s] = "destroyed" BY <1>1, <3>1, StatusNext
    <3> QED BY <1>1, <1>13, <2>1, <2>3, <3>2, StatusDomain
  <2>4. CASE s \in closing /\ Running(s) \ {a} # {}
    <3>1. life' = life BY <1>4, <2>4 DEF Released
    <3>2. Status'[s] = "closing" BY <1>1, <1>4, <1>12, <2>4, <3>1, StatusNext
    <3> QED BY <1>1, <1>13, <2>1, <2>4, <3>2, StatusDomain
  <2> QED BY <2>2, <2>3, <2>4
<1>15. Shown[a].cur = s /\ Shown[a].at = "in" BY <1>3, <1>6
<1> QED BY <1>3, <1>10, <1>11, <1>14, <1>15, IsLeave DEF Off

LEMMA BeginRefines ==
  ASSUME SbsInv, NEW c, NEW t, Listed(c, t), NEW a \in Acts, NEW del \in BOOLEAN, Activate(a, del)
  PROVE  Abstract!Begin(a, del)
<1>1. /\ act[a] = NoAct /\ t[a] = <<>> /\ c # <<>>
      /\ \E e \in Frame : e.del = del /\ Ready(e, c, 1, c) /\ Call(a, c[1], e)
  BY ActivateCalls
<1>2. PICK e \in Frame : e.del = del /\ Ready(e, c, 1, c) /\ Call(a, c[1], e) BY <1>1
<1>3. c \in Seq(Subs) /\ Typed /\ List = c /\ Shown = CallOf(t) BY ShownIs DEF Listed, SbsInv
<1>4. act[a].at # "in" /\ 1 \in DOMAIN c BY <1>1, <1>3 DEF NoAct
<1>5. Abstract!Enter(a, Head(c), Tail(c), e.del) BY <1>2, <1>4, CallRefines
<1>6. Shown[a] = [at |-> "none", cur |-> Null, todo |-> <<>>, final |-> FALSE]
  <2>1. /\ CallOf(t)[a] = [at |-> Place(act[a]), cur |-> act[a].cur, todo |-> t[a],
                            final |-> act[a].final]
        /\ act[a].at = "none" => Place(act[a]) = "none"
    BY <1>3, CallOfIs
  <2>2. act[a].at = "none" /\ act[a].cur = Null /\ act[a].final = FALSE BY <1>1 DEF NoAct
  <2> QED BY <1>1, <1>3, <2>1, <2>2
<1>7. Abstract!Enter(a, Head(List), Tail(List), del) BY <1>2, <1>3, <1>5
<1> QED BY <1>1, <1>3, <1>6, <1>7 DEF Abstract!Begin, Abstract!Quiet, Shown

(* ActivateNext and ActivateLast.                                            *)
LEMMA ContinueRefines ==
  ASSUME SbsInv, NEW c, NEW t, Listed(c, t), NEW a \in Acts, act[a].at = "loop",
         NEW k \in DOMAIN c, NEW e \in Frame, Ready(e, c, k, t[a]), Call(a, c[k], e)
  PROVE  Abstract!Continue(a, e.del)
<1>1. t[a] # <<>> /\ Abstract!Enter(a, Head(t[a]), Tail(t[a]), e.del)
  <2>1. act[a].at # "in" OBVIOUS
  <2> QED BY <2>1, CallRefines
<1>2. Typed /\ Shown = CallOf(t) BY ShownIs DEF SbsInv
<1>3. Shown[a].at = "between" /\ Shown[a].todo = t[a]
  <2>1. /\ CallOf(t)[a] = [at |-> Place(act[a]), cur |-> act[a].cur, todo |-> t[a],
                            final |-> act[a].final]
        /\ act[a].at = "loop" => Place(act[a]) = "between"
    BY <1>2, CallOfIs
  <2> QED BY <1>2, <2>1
<1>4. Abstract!Enter(a, Head(Shown[a].todo), Tail(Shown[a].todo), e.del) BY <1>1, <1>3
<1>5. Shown[a].todo # <<>> BY <1>1, <1>3
<1> QED BY <1>3, <1>4, <1>5 DEF Abstract!Continue, Shown

LEMMA FinishRefines ==
  ASSUME SbsInv, NEW c, NEW t, Listed(c, t), NEW a \in Acts, ActivateEnds(a)
  PROVE  Abstract!Finish(a)
<1> DEFINE Off == [at |-> "none", cur |-> Null, todo |-> <<>>, final |-> FALSE]
<1>1. SbsInv' /\ Listed(c, t)' /\ t[a] = <<>> BY ActivateEndsKeeps
<1>2. Typed /\ Typed' /\ List = c /\ List' = c /\ Shown = CallOf(t) /\ Shown' = CallOf(t)'
  BY <1>1, ShownIs, ShownNext DEF SbsInv
<1>3. act[a].at = "loop" /\ act' = [act EXCEPT ![a] = NoAct] /\ life' = life /\ closing' = closing
  BY DEF ActivateEnds
<1>4. Status' = Status BY <1>3 DEF Status
<1>5. Shown[a].at = "between" /\ Shown[a].todo = <<>>
  <2>1. /\ CallOf(t)[a] = [at |-> Place(act[a]), cur |-> act[a].cur, todo |-> t[a],
                            final |-> act[a].final]
        /\ act[a].at = "loop" => Place(act[a]) = "between"
    BY <1>2, CallOfIs
  <2> QED BY <1>1, <1>2, <1>3, <2>1
<1>6. CallOf(t)'[a] = Off
  <2>1. /\ CallOf(t)'[a] = [at |-> Place(act[a])', cur |-> act'[a].cur, todo |-> t[a],
                             final |-> act'[a].final]
        /\ act'[a].at = "none" => Place(act[a])' = "none"
    BY <1>2, CallOfNext
  <2>2. act'[a] = NoAct BY <1>2, <1>3 DEF Typed
  <2>3. act'[a].at = "none" /\ act'[a].cur = Null /\ act'[a].final = FALSE BY <2>2 DEF NoAct
  <2> QED BY <1>1, <2>1, <2>3
<1>7. ASSUME NEW b \in Acts, b # a PROVE CallOf(t)'[b] = CallOf(t)[b]
  <2>1. act'[b] = act[b] BY <1>2, <1>3, <1>7 DEF Typed
  <2>2. /\ CallOf(t)'[b] = [at |-> Place(act[b]), cur |-> act[b].cur, todo |-> t[b],
                             final |-> act[b].final]
        /\ CallOf(t)[b] = [at |-> Place(act[b]), cur |-> act[b].cur, todo |-> t[b],
                            final |-> act[b].final]
    BY <1>2, <2>1, SamePlace
  <2> QED BY <2>2
<1> HIDE DEF Off
<1>8. Shown' = [Shown EXCEPT ![a] = Off]
  <2>1. CallOf(t)' = [b \in Acts |-> CallOf(t)'[b]] /\ CallOf(t) = [b \in Acts |-> CallOf(t)[b]]
    BY CallOfDomain
  <2> QED BY <1>2, <1>6, <1>7, <2>1
<1> QED BY <1>2, <1>4, <1>5, <1>8, IsFinish DEF Off

LEMMA InitRefines == Init => Abstract!Init
<1> SUFFICES ASSUME Init PROVE Abstract!Init OBVIOUS
<1>1. Typed BY InitInv DEF SbsInv
<1>2. Linked(<<>>) /\ <<>> \in Seq(Subs) BY DEF Init, Linked, IsInjective, Range
<1>3. List = <<>> BY <1>2, ListIs
<1>4. ASSUME NEW a \in Acts
      PROVE  Shown[a] = [at |-> "none", cur |-> Null, todo |-> <<>>, final |-> FALSE]
  <2>1. act[a] = NoAct BY DEF Init
  <2>2. /\ act[a].at = "none" /\ act[a].cur = Null /\ act[a].final = FALSE
        /\ act[a].next = Null
    BY <2>1 DEF NoAct
  <2>3. Left(act[a]) = <<>> BY <2>2 DEF Left
  <2>4. Place(act[a]) = "none" BY <2>2 DEF Place
  <2> QED BY <2>2, <2>3, <2>4 DEF Shown
<1>5. Shown = [a \in Acts |-> [at |-> "none", cur |-> Null, todo |-> <<>>, final |-> FALSE]]
  <2>1. Shown = [a \in Acts |-> Shown[a]] BY DEF Shown
  <2> QED BY <1>4, <2>1
<1>6. Status = [s \in Subs |-> "unborn"] BY DEF Init, Status
<1> QED BY <1>3, <1>5, <1>6 DEF Abstract!Init, Abstract!Quiet, Shown, Status

LEMMA NextRefines == SbsInv /\ SbsInv' /\ [Next]_vars => [Abstract!Next]_(Abstract!vars)
<1> SUFFICES ASSUME SbsInv, SbsInv', [Next]_vars PROVE Abstract!Next \/ UNCHANGED Abstract!vars
  OBVIOUS
<1>1. PICK c, t : Listed(c, t) BY DEF SbsInv, Chained
<1>2. c \in Seq(Subs) /\ t \in [Acts -> Seq(Subs)] /\ Typed /\ Typed' BY <1>1 DEF Listed, SbsInv
<1>3. ASSUME NEW s \in Subs, NEW o, Connect(s, o) PROVE Abstract!Next
  <2>1. Abstract!Connect(s) BY <1>1, <1>3, ConnectRefines
  <2> QED BY <2>1 DEF Abstract!Next
<1>4. ASSUME NEW s \in Subs, inBox[s], RemoveAndDelete(s), UNCHANGED <<loops, usable>>
      PROVE  Abstract!Next
  <2>1. PICK k \in DOMAIN c : s = c[k] BY <1>1, <1>4, InList
  <2>2. Abstract!Disconnect(s) BY <1>1, <1>4, <2>1, DisconnectRefines
  <2> QED BY <2>2 DEF Abstract!Next
<1>5. ASSUME NEW s \in Subs, Disconnect(s) PROVE Abstract!Next BY <1>4, <1>5 DEF Disconnect
<1>6. ASSUME NEW a \in Acts, NEW del \in BOOLEAN, Activate(a, del) PROVE Abstract!Next
  <2>1. Abstract!Begin(a, del) BY <1>1, <1>6, BeginRefines
  <2> QED BY <2>1 DEF Abstract!Next
<1>7. ASSUME NEW a \in Acts, NEW throws \in BOOLEAN, Return(a, throws) PROVE Abstract!Next
  <2>1. Abstract!Leave(a, throws) BY <1>1, <1>7, ReturnRefines
  <2> QED BY <2>1 DEF Abstract!Next
<1>8. ASSUME NEW a \in Acts, act[a].at = "loop", NEW k \in DOMAIN c, NEW e \in Frame,
             Ready(e, c, k, t[a]), Call(a, c[k], e)
      PROVE  Abstract!Next
  <2>1. Abstract!Continue(a, e.del) BY <1>1, <1>8, ContinueRefines
  <2>2. e.del \in BOOLEAN BY DEF Frame
  <2> QED BY <2>1, <2>2 DEF Abstract!Next
<1>9. ASSUME NEW a \in Acts, ActivateNext(a) PROVE Abstract!Next
  <2>1. /\ act[a].at = "loop" /\ act[a] \in Frame
        /\ \E k \in DOMAIN c : Ready(act[a], c, k, t[a]) /\ Call(a, c[k], act[a])
    BY <1>1, <1>2, <1>9, NextCalls DEF Typed
  <2> QED BY <1>8, <2>1
<1>10. ASSUME NEW a \in Acts, ActivateLast(a) PROVE Abstract!Next
  <2>1. /\ act[a].at = "loop"
        /\ \E k \in DOMAIN c, e \in Frame :
             e.del = act[a].del /\ Ready(e, c, k, t[a]) /\ Call(a, c[k], e)
    BY <1>1, <1>10, LastCalls
  <2> QED BY <1>8, <2>1
<1>11. ASSUME NEW a \in Acts, ActivateEnds(a) PROVE Abstract!Next
  <2>1. Abstract!Finish(a) BY <1>1, <1>11, FinishRefines
  <2> QED BY <2>1 DEF Abstract!Next
<1>12. ASSUME NEW l \in Loops, LoopBegins(l) PROVE UNCHANGED Abstract!vars
  <2>1. Listed(c, t)' BY <1>1, <1>12, LoopBeginsKeeps
  <2>2. act' = act /\ UNCHANGED <<life, closing>> BY <1>12 DEF LoopBegins
  <2> QED BY <1>1, <1>2, <2>1, <2>2, Stutters
<1>13. ASSUME NEW l \in Loops, LoopStep(l) PROVE Abstract!Next
  <2>1. LoopFirst(l) # Null /\ RemoveAndDelete(LoopFirst(l)) /\ UNCHANGED <<loops, usable>>
    BY <1>13 DEF LoopStep
  <2>2. LoopFirst(l) \in Subs /\ inBox[LoopFirst(l)] BY <2>1, LoopFirstInBox
  <2> QED BY <1>4, <2>1, <2>2
<1>14. ASSUME NEW l \in Loops, LoopEnds(l) PROVE UNCHANGED Abstract!vars
  <2>1. /\ Listed(c, t)'
        /\ \A b \in Acts : /\ act'[b].at = act[b].at /\ act'[b].cur = act[b].cur
                            /\ act'[b].final = act[b].final
    BY <1>1, <1>14, LoopEndsKeeps
  <2>2. UNCHANGED <<life, closing>> BY <1>14 DEF LoopEnds
  <2> QED BY <1>1, <1>2, <2>1, <2>2, Stutters
<1>15. CASE UNCHANGED vars
  <2>1. /\ act' = act /\ loops' \subseteq Loops /\ usable' \in BOOLEAN
        /\ UNCHANGED <<box, closing, life>>
    BY <1>2, <1>15 DEF vars, box, Typed
  <2>2. act' \in [Acts -> Frame] /\ \A b \in Acts : Rest(act'[b], c, t[b])
    BY <1>1, <1>2, <2>1 DEF Typed, Listed
  <2>3. Listed(c, t)' BY <1>1, <1>2, <2>1, <2>2, FramesKeep
  <2> QED BY <1>1, <1>2, <2>1, <2>3, Stutters
<1> QED BY <1>3, <1>5, <1>6, <1>7, <1>9, <1>10, <1>11, <1>12, <1>13, <1>14, <1>15 DEF Next

(* Every activation calls exactly the handlers that were connected when it   *)
(* began and are still connected at their turn, in order, and a disconnected *)
(* handler is destroyed when the last activation leaves it: Box::activate    *)
(* with its enumerators, Box::remove and removeAndDelete implement Signal.   *)
THEOREM RefinesSignal == Spec => ImplementsSignal
<1>1. Init => Abstract!Init BY InitRefines
<1>2. SbsInv /\ SbsInv' /\ [Next]_vars => [Abstract!Next]_(Abstract!vars) BY NextRefines
<1>3. Spec => []SbsInv BY SbsInvariant
<1> QED BY <1>1, <1>2, <1>3, PTL DEF Spec, ImplementsSignal, Abstract!Spec
===============================================================================
