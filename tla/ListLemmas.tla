----------------------------- MODULE ListLemmas -----------------------------
(***************************************************************************)
(* Lemmas about the sequences that stand for IntrusiveDlist: what pushBack *)
(* (Append), popFront (Tail) and remove (RemoveAt) do to the set of listed *)
(* elements and to the absence of repetitions.                             *)
(***************************************************************************)
EXTENDS Integers, Sequences, SequencesExt, SequenceTheorems, WellFoundedInduction,
        NaturalsInduction, TLAPS

(* pushBack adds its element and keeps a list without repetitions so.        *)
LEMMA AppendFacts ==
  ASSUME NEW S, NEW s \in Seq(S), NEW x \in S
  PROVE  /\ Append(s, x) \in Seq(S)
         /\ Range(Append(s, x)) = Range(s) \union {x}
         /\ IsInjective(s) /\ x \notin Range(s) => IsInjective(Append(s, x))
<1>1. Append(s, x) \in Seq(S) /\ Len(Append(s, x)) = Len(s) + 1 OBVIOUS
<1>2. \A i \in 1 .. Len(s) + 1 : Append(s, x)[i] = IF i <= Len(s) THEN s[i] ELSE x
  OBVIOUS
<1>3. Range(Append(s, x)) = Range(s) \union {x}
  BY <1>1, <1>2 DEF Range
<1>4. IsInjective(s) /\ x \notin Range(s) => IsInjective(Append(s, x))
  BY <1>1, <1>2 DEF Range, IsInjective
<1> QED BY <1>1, <1>3, <1>4

(* popFront removes the first element, which a list without repetitions      *)
(* does not hold any more.                                                   *)
LEMMA TailFacts ==
  ASSUME NEW S, NEW s \in Seq(S), s # <<>>
  PROVE  /\ Head(s) \in S
         /\ Head(s) \in Range(s)
         /\ Tail(s) \in Seq(S)
         /\ IsInjective(s) => /\ Range(Tail(s)) = Range(s) \ {Head(s)}
                              /\ IsInjective(Tail(s))
<1>1. Head(s) \in S /\ Head(s) \in Range(s) /\ Tail(s) \in Seq(S)
  BY DEF Range
<1>2. ASSUME IsInjective(s)
      PROVE  Range(Tail(s)) = Range(s) \ {Head(s)} /\ IsInjective(Tail(s))
  <2>1. Len(Tail(s)) = Len(s) - 1 /\ \A i \in 1 .. Len(s) - 1 : Tail(s)[i] = s[i + 1]
    OBVIOUS
  <2>2. Range(Tail(s)) \subseteq Range(s) \ {Head(s)}
    BY <1>2, <2>1 DEF Range, IsInjective
  <2>3. ASSUME NEW y \in Range(s) \ {Head(s)} PROVE y \in Range(Tail(s))
    <3>1. PICK i \in 1 .. Len(s) : s[i] = y BY DEF Range
    <3>2. i # 1 BY <3>1
    <3>3. i - 1 \in DOMAIN Tail(s) /\ Tail(s)[i - 1] = y BY <2>1, <3>1, <3>2
    <3> QED BY <3>3 DEF Range
  <2>4. IsInjective(Tail(s)) BY <1>2, <2>1 DEF IsInjective
  <2> QED BY <2>2, <2>3, <2>4
<1> QED BY <1>1, <1>2

(* remove of the element at position k closes the gap.                       *)
LEMMA RemoveAtPositions ==
  ASSUME NEW S, NEW l \in Seq(S), NEW k \in DOMAIN l
  PROVE  /\ RemoveAt(l, k) \in Seq(S) /\ Len(RemoveAt(l, k)) = Len(l) - 1
         /\ \A i \in 1 .. Len(l) - 1 : RemoveAt(l, k)[i] = IF i < k THEN l[i] ELSE l[i + 1]
<1> DEFINE a == SubSeq(l, 1, k - 1)
           b == SubSeq(l, k + 1, Len(l))
           r == a \o b
<1>1. k \in 1 .. Len(l) OBVIOUS
<1>2. a \in Seq(S) /\ Len(a) = k - 1 /\ \A i \in 1 .. k - 1 : a[i] = l[i]
  BY <1>1, SubSeqProperties
<1>3. /\ b \in Seq(S) /\ Len(b) = Len(l) - k
      /\ \A i \in 1 .. Len(l) - k : b[i] = l[i + k]
  BY <1>1, SubSeqProperties
<1> HIDE DEF a, b
<1>4. r \in Seq(S) /\ Len(r) = Len(l) - 1
  BY <1>1, <1>2, <1>3, ConcatProperties
<1>5. \A i \in 1 .. Len(r) : r[i] = IF i < k THEN l[i] ELSE l[i + 1]
  <2> TAKE i \in 1 .. Len(r)
  <2>1. r[i] = IF i <= Len(a) THEN a[i] ELSE b[i - Len(a)]
    BY <1>1, <1>2, <1>3, <1>4, ConcatProperties
  <2>2. CASE i < k BY <1>1, <1>2, <2>1, <2>2
  <2>3. CASE i >= k
    <3>1. i - Len(a) \in 1 .. Len(l) - k BY <1>1, <1>2, <1>4, <2>3
    <3>2. r[i] = b[i - Len(a)] BY <1>1, <1>2, <2>1, <2>3
    <3>3. r[i] = l[(i - Len(a)) + k] BY <1>3, <3>1, <3>2
    <3>4. (i - Len(a)) + k = i + 1 BY <1>1, <1>2, <1>4
    <3> HIDE DEF r
    <3> QED BY <1>1, <1>4, <2>3, <3>3, <3>4
  <2> QED BY <1>1, <1>4, <2>2, <2>3
<1> QED BY <1>4, <1>5 DEF RemoveAt, r, a, b

(* ... and does what popFront does in the middle of the list.                *)
LEMMA RemoveAtFacts ==
  ASSUME NEW S, NEW l \in Seq(S), NEW k \in DOMAIN l, IsInjective(l)
  PROVE  /\ RemoveAt(l, k) \in Seq(S)
         /\ Range(RemoveAt(l, k)) = Range(l) \ {l[k]}
         /\ IsInjective(RemoveAt(l, k))
<1> DEFINE r == RemoveAt(l, k)
<1>1. k \in 1 .. Len(l) OBVIOUS
<1>4. r \in Seq(S) /\ Len(r) = Len(l) - 1 BY RemoveAtPositions
<1>5. \A i \in 1 .. Len(r) : r[i] = IF i < k THEN l[i] ELSE l[i + 1] BY <1>4, RemoveAtPositions
<1> HIDE DEF r
<1>6. \A i \in 1 .. Len(l) : i # k => l[i] # l[k]
  BY <1>1 DEF IsInjective
<1>7. Range(r) \subseteq Range(l) \ {l[k]}
  <2> SUFFICES ASSUME NEW i \in 1 .. Len(r) PROVE r[i] \in Range(l) \ {l[k]}
    BY <1>4 DEF Range
  <2> DEFINE j == IF i < k THEN i ELSE i + 1
  <2>1. j \in 1 .. Len(l) /\ j # k BY <1>1, <1>4
  <2>2. r[i] = l[j] BY <1>5
  <2> HIDE DEF j
  <2> QED BY <1>6, <2>1, <2>2 DEF Range
<1>8. ASSUME NEW y \in Range(l) \ {l[k]} PROVE y \in Range(r)
  <2>1. PICK i \in 1 .. Len(l) : l[i] = y BY DEF Range
  <2>2. i # k BY <1>1, <2>1
  <2>3. CASE i < k
    <3>1. i \in DOMAIN r /\ r[i] = y BY <1>1, <1>4, <1>5, <2>1, <2>3
    <3> QED BY <3>1 DEF Range
  <2>4. CASE i > k
    <3>1. i - 1 \in DOMAIN r /\ r[i - 1] = y BY <1>1, <1>4, <1>5, <2>1, <2>4
    <3> QED BY <3>1 DEF Range
  <2> QED BY <1>1, <2>2, <2>3, <2>4
<1>9. IsInjective(r)
  <2> SUFFICES ASSUME NEW i \in 1 .. Len(r), NEW j \in 1 .. Len(r), r[i] = r[j]
               PROVE  i = j
    BY <1>4 DEF IsInjective
  <2> DEFINE Old(n) == IF n < k THEN n ELSE n + 1
  <2>1. Old(i) \in 1 .. Len(l) /\ Old(j) \in 1 .. Len(l) BY <1>1, <1>4
  <2>2. l[Old(i)] = l[Old(j)] BY <1>5
  <2>3. Old(i) = Old(j) BY <2>1, <2>2 DEF IsInjective
  <2> QED BY <1>1, <1>4, <2>3
<1> QED BY <1>4, <1>7, <1>8, <1>9 DEF r

(* Two lists, one behind the other: what is listed, and when nothing is      *)
(* listed twice.                                                             *)
LEMMA ConcatFacts ==
  ASSUME NEW S, NEW a \in Seq(S), NEW b \in Seq(S)
  PROVE  /\ a \o b \in Seq(S)
         /\ Range(a \o b) = Range(a) \union Range(b)
         /\ IsInjective(a \o b) <=> /\ IsInjective(a) /\ IsInjective(b)
                                    /\ Range(a) \cap Range(b) = {}
<1> DEFINE c == a \o b
<1>1. c \in Seq(S) /\ Len(c) = Len(a) + Len(b)
  BY ConcatProperties
<1>2. /\ \A i \in 1 .. Len(a) : i \in DOMAIN c /\ c[i] = a[i]
      /\ \A i \in 1 .. Len(b) : i + Len(a) \in DOMAIN c /\ c[i + Len(a)] = b[i]
  BY <1>1, ConcatProperties
<1>3. \A i \in DOMAIN c : \/ i \in 1 .. Len(a) /\ c[i] = a[i]
                          \/ i - Len(a) \in 1 .. Len(b) /\ c[i] = b[i - Len(a)]
  BY <1>1, ConcatProperties
<1> HIDE DEF c
<1>4. Range(c) = Range(a) \union Range(b)
  <2>1. Range(a) \subseteq Range(c) /\ Range(b) \subseteq Range(c)
    BY <1>2 DEF Range
  <2>2. Range(c) \subseteq Range(a) \union Range(b)
    BY <1>3 DEF Range
  <2> QED BY <2>1, <2>2
<1>5. ASSUME IsInjective(c)
      PROVE  IsInjective(a) /\ IsInjective(b) /\ Range(a) \cap Range(b) = {}
  <2>1. \A i, j \in DOMAIN c : c[i] = c[j] => i = j BY <1>5 DEF IsInjective
  <2>2. IsInjective(a) BY <1>2, <2>1 DEF IsInjective
  <2>3. IsInjective(b)
    <3> SUFFICES ASSUME NEW i \in 1 .. Len(b), NEW j \in 1 .. Len(b), b[i] = b[j] PROVE i = j
      BY DEF IsInjective
    <3>1. i + Len(a) = j + Len(a) BY <1>2, <2>1
    <3> QED BY <3>1
  <2>4. ASSUME NEW i \in 1 .. Len(a), NEW j \in 1 .. Len(b), a[i] = b[j] PROVE FALSE
    <3>1. i = j + Len(a) BY <1>2, <2>1, <2>4
    <3> QED BY <3>1
  <2> QED BY <2>2, <2>3, <2>4 DEF Range
<1>6. ASSUME IsInjective(a), IsInjective(b), Range(a) \cap Range(b) = {}
      PROVE  IsInjective(c)
  <2> SUFFICES ASSUME NEW i \in DOMAIN c, NEW j \in DOMAIN c, c[i] = c[j] PROVE i = j
    BY DEF IsInjective
  <2>1. /\ i \in Int /\ j \in Int /\ Len(a) \in Int
        /\ \A x, y \in 1 .. Len(a) : a[x] = a[y] => x = y
        /\ \A x, y \in 1 .. Len(b) : b[x] = b[y] => x = y
    BY <1>1, <1>6 DEF IsInjective
  <2>2. CASE i \in 1 .. Len(a) /\ c[i] = a[i] /\ j \in 1 .. Len(a) /\ c[j] = a[j]
    BY <2>1, <2>2
  <2>3. CASE /\ i - Len(a) \in 1 .. Len(b) /\ c[i] = b[i - Len(a)]
             /\ j - Len(a) \in 1 .. Len(b) /\ c[j] = b[j - Len(a)]
    <3>1. i - Len(a) = j - Len(a) BY <2>1, <2>3
    <3> QED BY <2>1, <3>1
  <2>4. \A x \in 1 .. Len(a), y \in 1 .. Len(b) : a[x] # b[y]
    BY <1>6 DEF Range
  <2> QED BY <1>3, <2>2, <2>3, <2>4
<1> QED BY <1>1, <1>4, <1>5, <1>6 DEF c


(* Sets of numbers that are not empty have a least element.                  *)
LEMMA LessThanOnNat ==
  \E R : IsWellFoundedOn(R, Nat) /\ \A x, y \in Nat : <<x, y>> \in R <=> x < y
<1>1. IsWellFoundedOn(OpToRel(<, Nat), Nat) BY NatLessThanWellFounded
<1>2. \A x, y \in Nat : <<x, y>> \in OpToRel(<, Nat) <=> x < y BY DEF OpToRel
<1> QED BY <1>1, <1>2, Zenon

LEMMA MinFacts ==
  ASSUME NEW S \in SUBSET Nat, S # {}
  PROVE  Min(S) \in S /\ \A y \in S : Min(S) <= y
<1>1. PICK R : IsWellFoundedOn(R, Nat) /\ \A x, y \in Nat : <<x, y>> \in R <=> x < y
  BY LessThanOnNat
<1>2. IsWellFoundedOn(R, Nat) /\ S \subseteq Nat BY <1>1
<1>3. PICK x \in S : \A y \in S : ~ (<<y, x>> \in R) BY <1>2, WFMin, Zenon
<1>4. \A y \in S : ~ (y < x) BY <1>1, <1>2, <1>3, Zenon
<1>5. \A y \in S : x =< y BY <1>2, <1>4
<1> QED BY <1>5 DEF Min

LEMMA RemoveFirstFacts ==
  ASSUME NEW S, NEW l \in Seq(S), IsInjective(l)
  PROVE  /\ \A x : x \notin Range(l) => RemoveFirst(l, x) = l
         /\ \A k \in DOMAIN l : RemoveFirst(l, l[k]) = RemoveAt(l, k)
<1>1. DOMAIN l = 1 .. Len(l) OBVIOUS
<1>2. ASSUME NEW x, x \notin Range(l) PROVE RemoveFirst(l, x) = l
  BY <1>1, <1>2 DEF RemoveFirst, Range
<1>3. ASSUME NEW k \in DOMAIN l PROVE RemoveFirst(l, l[k]) = RemoveAt(l, k)
  <2> DEFINE I == {i \in 1 .. Len(l) : l[i] = l[k]}
  <2>1. I = {k} BY <1>1 DEF IsInjective
  <2>2. Min(I) = k BY <1>1, <2>1 DEF Min
  <2>3. SelectInSeq(l, LAMBDA v : v = l[k]) = k BY <2>1, <2>2 DEF SelectInSeq
  <2> QED BY <1>1, <2>3 DEF RemoveFirst
<1> QED BY <1>2, <1>3
==============================================================================
