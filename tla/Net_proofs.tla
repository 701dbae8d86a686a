------------------------------ MODULE Net_proofs ------------------------------
(***************************************************************************)
(* Proofs about the network's components, which share nothing: the stream  *)
(* channel, for any sizes of the send buffer and of the kernel's, and for  *)
(* any number of units and calls; and joining on demand, for any sets of   *)
(* peers, sessions and holders of needs.                                   *)
(***************************************************************************)
EXTENDS NetChannel, Joining, SequenceTheorems, TLAPS

-----------------------------------------------------------------------------
(* The inductive invariant.                                                  *)

Nets == {"syn", "open", "fin", "reset"}
Kernels == [net : Nets, inq : Seq(Nat), sent : Nat, room : Nat, error : BOOLEAN,
            edge : BOOLEAN, nospace : BOOLEAN, shutIn : BOOLEAN, shutOut : BOOLEAN]

Frames ==
  [f : {"user", "closed"}]
    \union [f : {"ready"}, at : {"write", "read", "eof"}, some : BOOLEAN]
    \union [f : {"write"}, pre : BOOLEAN, total : BOOLEAN]
    \union [f : {"read"}, total : BOOLEAN]
    \union [f : {"close"}, by : {"user", "peer"}]
    \union [f : {"shutdown"}, input : BOOLEAN, output : BOOLEAN]

Typed ==
  /\ alive \in BOOLEAN /\ connected \in BOOLEAN
  /\ sock \in {"none", "open", "closed"}
  /\ handler \in {"none", "connect", "connected"}
  /\ ready \subseteq Flags /\ lrs \subseteq Flags
  /\ granula \in {0, 1}
  /\ data \in Seq(Nat) /\ bufs \in Nat /\ bufs <= Len(data)
  /\ kernel \in Kernels
  /\ wrote \in Seq(Nat) /\ got \in Seq(Nat)
  /\ closes \in Nat /\ ending \in {"no", "peer", "other"}
  /\ sends \in Nat

IsEof(x)  == x.f = "ready" /\ x.at = "eof"
IsPeer(x) == x.f = "close" /\ x.by = "peer"
HasClosed(s) == \E i \in DOMAIN s : s[i].f = "closed"
AtEof(s)  == s # <<>> /\ IsEof(Head(s))
AtPeer(s) == s # <<>> /\ IsPeer(Head(s))

(* closed() is on its way once, a close on behalf of the peer is not         *)
(* interrupted, and as long as the channel is connected nothing comes        *)
(* between doRead and the look at eof that follows it.                       *)
Good(s, c) ==
  /\ s \in Seq(Frames)
  /\ \A i, j \in DOMAIN s : s[i].f = "closed" /\ s[j].f = "closed" => i = j
  /\ \A i \in DOMAIN s : IsPeer(s[i]) => i = 1
  /\ c => \A i \in DOMAIN s : IsEof(s[i]) => i = 1 \/ s[i - 1].f = "read"
Stacked == Good(stack, connected)

(* Nobody has been told yet, will be told by a frame of the stack, or was.   *)
Told ==
  /\ connected => ending = "no"
  /\ HasClosed(stack) => ending # "no" /\ closes = 0
  /\ ending = "no" => closes = 0
  /\ closes <= 1
  /\ alive /\ ending # "no" /\ ~HasClosed(stack) => closes = 1
  /\ alive /\ connected => sock = "open" /\ handler = "connected"

(* Before the connection nothing has happened.                               *)
Fresh ==
  /\ handler = "connect" => sock = "open"
  /\ sock = "none" => handler = "none" /\ ready = {}
  /\ sock = "none" \/ handler = "connect" =>
       /\ ~connected /\ ending = "no" /\ stack = <<>> /\ lrs = {}
       /\ data = <<>> /\ wrote = <<>> /\ got = <<>> /\ sends = 0

(* Nothing is left to be handed over to whoever wants to receive.            *)
Drained == kernel.shutIn \/ kernel.net = "reset" \/ (kernel.net = "fin" /\ kernel.inq = <<>>)

(* The flags tell the truth about the kernel, and whoever is about to act on *)
(* the end of the peer has read everything.                                  *)
Flagged ==
  /\ kernel.error => kernel.net = "reset"
  /\ "eof" \in ready => Eof /\ "read" \in ready
  /\ "error" \in ready => Drained
  /\ connected /\ "eof" \in lrs => Eof /\ ("read" \in lrs \/ Drained)
  /\ connected /\ "error" \in lrs => Drained
  /\ AtEof(stack) /\ connected /\ granula > 0 /\ "eof" \in lrs => Drained
  /\ AtPeer(stack) /\ connected /\ granula > 0 => Drained
  /\ ending = "peer" => Drained

UpTo(n) == [i \in 1..n |-> i]
Conveyed ==
  /\ connected /\ kernel.net # "reset" /\ ~kernel.shutOut => wrote \o data = UpTo(sends)
  /\ got \o kernel.inq = UpTo(kernel.sent)

NetInv == Typed /\ Stacked /\ Told /\ Fresh /\ Flagged /\ Conveyed

-----------------------------------------------------------------------------
(* Calls and returns.                                                        *)

LEMMA FrameFacts ==
  /\ User \in Frames /\ User.f = "user" /\ [f |-> "closed"] \in Frames
  /\ \A at \in {"write", "read", "eof"}, some \in BOOLEAN :
       /\ Ready(at, some) \in Frames /\ Ready(at, some).f = "ready" /\ Ready(at, some).at = at
       /\ Ready(at, some).some = some
  /\ \A pre \in BOOLEAN : Write(pre) \in Frames /\ Write(pre).f = "write"
  /\ Read \in Frames /\ Read.f = "read"
  /\ \A by \in {"user", "peer"} :
       Closing(by) \in Frames /\ Closing(by).f = "close" /\ Closing(by).by = by
  /\ \A i, o \in BOOLEAN : Shut(i, o) \in Frames /\ Shut(i, o).f = "shutdown"
BY DEF Frames, User, Ready, Write, Read, Closing, Shut

LEMMA PushFacts ==
  ASSUME NEW c, NEW s, Good(s, c), ~AtPeer(s), NEW x \in Frames,
         x.f = "closed" => ~HasClosed(s), c /\ AtEof(s) => x.f = "read"
  PROVE  LET r == <<x>> \o s
         IN  /\ Good(r, c) /\ r # <<>> /\ Head(r) = x
             /\ HasClosed(r) <=> x.f = "closed" \/ HasClosed(s)
             /\ AtEof(r) <=> IsEof(x)
             /\ AtPeer(r) <=> IsPeer(x)
<1> DEFINE r == <<x>> \o s
<1>1. s \in Seq(Frames) BY DEF Good
<1>2. /\ r \in Seq(Frames) /\ Len(r) = Len(s) + 1 /\ r[1] = x
      /\ \A i \in 1 .. Len(s) : r[i + 1] = s[i]
  BY <1>1
<1>3. \A i \in 1 .. Len(r) : i = 1 \/ (i - 1 \in 1 .. Len(s) /\ r[i] = s[i - 1])
  BY <1>1, <1>2
<1> HIDE DEF r
<1>4. r # <<>> /\ Head(r) = x BY <1>1, <1>2
<1>5. HasClosed(r) <=> x.f = "closed" \/ HasClosed(s)
  <2>1. HasClosed(s) => HasClosed(r) BY <1>1, <1>2 DEF HasClosed
  <2>2. x.f = "closed" => HasClosed(r) BY <1>1, <1>2 DEF HasClosed
  <2>3. HasClosed(r) => x.f = "closed" \/ HasClosed(s) BY <1>1, <1>2, <1>3 DEF HasClosed
  <2> QED BY <2>1, <2>2, <2>3
<1>6. Good(r, c)
  <2>1. ASSUME NEW i \in DOMAIN r, NEW j \in DOMAIN r, r[i].f = "closed", r[j].f = "closed"
        PROVE  i = j
    <3>1. \A k \in DOMAIN s : s[k].f = "closed" => x.f # "closed" BY DEF HasClosed
    <3>2. \A k, l \in DOMAIN s : s[k].f = "closed" /\ s[l].f = "closed" => k = l BY DEF Good
    <3>3. CASE i = 1 \/ j = 1
      <4>1. \A k \in DOMAIN r : k # 1 => k - 1 \in DOMAIN s /\ r[k] = s[k - 1] BY <1>1, <1>2, <1>3
      <4> QED BY <1>2, <2>1, <3>1, <3>3, <4>1
    <3>4. CASE i # 1 /\ j # 1
      <4>1. i - 1 \in DOMAIN s /\ j - 1 \in DOMAIN s /\ s[i - 1].f = "closed" /\ s[j - 1].f = "closed"
        BY <1>1, <1>2, <1>3, <2>1, <3>4
      <4>2. i - 1 = j - 1 BY <3>2, <4>1
      <4> QED BY <1>2, <4>2
    <3> QED BY <3>3, <3>4
  <2>2. ASSUME NEW i \in DOMAIN r, IsPeer(r[i]) PROVE i = 1
    <3>1. \A k \in DOMAIN s : ~IsPeer(s[k]) BY <1>1 DEF Good, AtPeer
    <3> QED BY <1>1, <1>2, <1>3, <2>2, <3>1
  <2>3. ASSUME c, NEW i \in DOMAIN r, IsEof(r[i]) PROVE i = 1 \/ r[i - 1].f = "read"
    <3>1. CASE i = 1 BY <3>1
    <3>2. CASE i # 1
      <4>1. i - 1 \in DOMAIN s /\ IsEof(s[i - 1]) BY <1>1, <1>2, <1>3, <2>3, <3>2
      <4>2. i - 1 = 1 \/ s[(i - 1) - 1].f = "read" BY <2>3, <4>1 DEF Good
      <4>3. CASE i - 1 = 1
        <5>1. AtEof(s) BY <1>1, <4>1, <4>3 DEF AtEof
        <5> QED BY <1>2, <2>3, <4>3, <5>1
      <4>4. CASE i - 1 # 1
        <5>1. (i - 1) - 1 \in 1 .. Len(s) /\ r[i - 1] = s[(i - 1) - 1]
          BY <1>1, <1>2, <1>3, <4>1, <4>4
        <5> QED BY <4>2, <4>4, <5>1
      <4> QED BY <4>3, <4>4
    <3> QED BY <3>1, <3>2
  <2> QED BY <1>2, <2>1, <2>2, <2>3 DEF Good
<1> QED BY <1>4, <1>5, <1>6 DEF r, AtEof, AtPeer

(* A return: what is below stays as it is, but for a note in its frame.      *)
Below == {Pop, PopWith(TRUE), PopWith(FALSE)}

LEMMA BelowFacts ==
  ASSUME stack \in Seq(Frames), stack # <<>>, NEW s \in Below
  PROVE  /\ s \in Seq(Frames) /\ Len(s) = Len(stack) - 1
         /\ \A i \in 1 .. Len(s) : /\ s[i].f = stack[i + 1].f
                                   /\ IsEof(s[i]) <=> IsEof(stack[i + 1])
                                   /\ IsPeer(s[i]) <=> IsPeer(stack[i + 1])
<1>1. /\ Pop \in Seq(Frames) /\ Len(Pop) = Len(stack) - 1
      /\ \A i \in 1 .. Len(Pop) : Pop[i] = stack[i + 1]
  BY DEF Pop
<1>2. CASE s = Pop BY <1>1, <1>2
<1>3. CASE s # Pop
  <2>1. PICK done \in BOOLEAN : s = PopWith(done) BY <1>3 DEF Below
  <2> DEFINE h == Head(Pop)
             n == [h EXCEPT !.some = @ \/ done]
  <2>2. Pop # <<>> /\ h.f = "ready" /\ s = <<n>> \o Tail(Pop) BY <1>3, <2>1 DEF PopWith
  <2>3. h \in Frames BY <1>1, <2>2
  <2>4. n \in Frames /\ n.f = "ready" /\ n.at = h.at BY <2>2, <2>3 DEF Frames
  <2>5. h = stack[2] /\ Tail(Pop) \in Seq(Frames) /\ Len(Tail(Pop)) = Len(Pop) - 1
        /\ \A i \in 1 .. Len(Pop) - 1 : Tail(Pop)[i] = Pop[i + 1]
    BY <1>1, <2>2
  <2> HIDE DEF n, h
  <2> DEFINE u == Tail(Pop)
  <2> HIDE DEF u
  <2>8. s = <<n>> \o u /\ u \in Seq(Frames) BY <2>2, <2>5 DEF u
  <2>9. s \in Seq(Frames) /\ Len(s) = Len(u) + 1 /\ s[1] = n
        /\ \A i \in 1 .. Len(s) : i = 1 \/ (i - 1 \in 1 .. Len(u) /\ s[i] = u[i - 1])
    BY <2>4, <2>8
  <2>6. s \in Seq(Frames) /\ Len(s) = Len(Pop) /\ s[1] = n
        /\ \A i \in 1 .. Len(s) : i = 1 \/ s[i] = stack[i + 1]
    <3>1. Len(u) = Len(Pop) - 1 /\ Len(Pop) \in Nat
          /\ \A i \in 1 .. Len(u) : u[i] = Pop[i + 1]
      BY <1>1, <2>5 DEF u
    <3>2. ASSUME NEW i \in 1 .. Len(s), i # 1 PROVE s[i] = stack[i + 1]
      <4>1. i - 1 \in 1 .. Len(u) /\ s[i] = u[i - 1] BY <2>9, <3>2
      <4>2. s[i] = Pop[(i - 1) + 1] BY <3>1, <4>1
      <4>3. (i - 1) + 1 = i /\ i \in 1 .. Len(Pop) BY <3>1, <4>1
      <4> QED BY <1>1, <4>2, <4>3
    <3> QED BY <2>9, <3>1, <3>2
  <2>7. n.f = h.f /\ (IsEof(n) <=> IsEof(h)) /\ (IsPeer(n) <=> IsPeer(h))
    BY <2>2, <2>4 DEF IsEof, IsPeer
  <2> QED BY <1>1, <2>5, <2>6, <2>7
<1> QED BY <1>2, <1>3

LEMMA PopFacts ==
  ASSUME NEW c, Good(stack, c), stack # <<>>, NEW s \in Below
  PROVE  /\ Good(s, c) /\ ~AtPeer(s)
         /\ HasClosed(s) <=> HasClosed(stack) /\ Top.f # "closed"
         /\ c /\ AtEof(s) => Top.f = "read"
<1>1. stack \in Seq(Frames) BY DEF Good
<1>2. /\ s \in Seq(Frames) /\ Len(s) = Len(stack) - 1
      /\ \A i \in 1 .. Len(s) : /\ s[i].f = stack[i + 1].f
                                /\ IsEof(s[i]) <=> IsEof(stack[i + 1])
                                /\ IsPeer(s[i]) <=> IsPeer(stack[i + 1])
  BY <1>1, BelowFacts
<1>3. Top = stack[1] /\ 1 \in DOMAIN stack BY <1>1 DEF Top
<1>4. \A i \in DOMAIN s : i + 1 \in DOMAIN stack /\ i + 1 # 1 BY <1>1, <1>2
<1>5. /\ \A i, j \in DOMAIN stack : stack[i].f = "closed" /\ stack[j].f = "closed" => i = j
      /\ \A i \in DOMAIN stack : IsPeer(stack[i]) => i = 1
      /\ c => \A i \in DOMAIN stack : IsEof(stack[i]) => i = 1 \/ stack[i - 1].f = "read"
  BY DEF Good
<1>6. \A i \in DOMAIN s : ~IsPeer(s[i]) BY <1>2, <1>4, <1>5
<1>7. ~AtPeer(s) BY <1>2, <1>6 DEF AtPeer
<1>8. HasClosed(s) <=> HasClosed(stack) /\ Top.f # "closed"
  <2>1. ASSUME NEW i \in DOMAIN s, s[i].f = "closed" PROVE HasClosed(stack) /\ Top.f # "closed"
    BY <1>2, <1>3, <1>4, <1>5, <2>1 DEF HasClosed
  <2>2. ASSUME NEW i \in DOMAIN stack, stack[i].f = "closed", Top.f # "closed" PROVE HasClosed(s)
    <3>1. i # 1 BY <1>3, <2>2
    <3>2. i - 1 \in DOMAIN s /\ s[i - 1].f = "closed" BY <1>1, <1>2, <2>2, <3>1
    <3> QED BY <3>2 DEF HasClosed
  <2> QED BY <2>1, <2>2 DEF HasClosed
<1>9. ASSUME c, AtEof(s) PROVE Top.f = "read"
  <2>1. 1 \in DOMAIN s /\ IsEof(s[1]) BY <1>2, <1>9 DEF AtEof
  <2>2. 2 \in DOMAIN stack /\ IsEof(stack[2]) BY <1>1, <1>2, <2>1
  <2>3. stack[2 - 1].f = "read" BY <1>5, <1>9, <2>2
  <2> QED BY <1>3, <2>3
<1>10. Good(s, c)
  <2>1. ASSUME NEW i \in DOMAIN s, NEW j \in DOMAIN s, s[i].f = "closed", s[j].f = "closed"
        PROVE  i = j
    <3>1. i + 1 = j + 1 BY <1>2, <1>4, <1>5, <2>1
    <3> QED BY <1>2, <3>1
  <2>2. ASSUME c, NEW i \in DOMAIN s, IsEof(s[i]) PROVE i = 1 \/ s[i - 1].f = "read"
    <3>1. i + 1 \in DOMAIN stack /\ IsEof(stack[i + 1]) BY <1>2, <1>4, <2>2
    <3>2. stack[(i + 1) - 1].f = "read" BY <1>4, <1>5, <2>2, <3>1
    <3>3. CASE i # 1
      <4>1. i - 1 \in 1 .. Len(s) /\ (i - 1) + 1 = i /\ (i + 1) - 1 = i BY <1>2, <3>3
      <4>2. s[i - 1].f = stack[(i - 1) + 1].f BY <1>2, <4>1
      <4> QED BY <3>2, <4>1, <4>2
    <3> QED BY <3>3
  <2> QED BY <1>2, <1>6, <2>1, <2>2 DEF Good
<1> QED BY <1>7, <1>8, <1>9, <1>10

LEMMA HeadReplaced ==
  ASSUME NEW S, NEW q \in Seq(S), q # <<>>, NEW n \in S, NEW s, s = [q EXCEPT ![1] = n]
  PROVE  /\ s \in Seq(S) /\ Len(s) = Len(q) /\ s[1] = n
         /\ \A i \in DOMAIN q : i # 1 => s[i] = q[i]
<1>1. Len(q) \in Nat /\ 1 \in 1 .. Len(q) /\ q \in [1 .. Len(q) -> S] OBVIOUS
<1>2. s \in [1 .. Len(q) -> S] BY <1>1
<1> QED BY <1>1, <1>2

(* doWrite and doRead note that something was done.                          *)
LEMMA TotalFacts ==
  ASSUME NEW c, Good(stack, c), stack # <<>>, Top.f \in {"write", "read"}, NEW s,
         s = [stack EXCEPT ![1].total = TRUE]
  PROVE  /\ Good(s, c) /\ s # <<>> /\ Head(s).f = Top.f /\ ~AtPeer(s) /\ ~AtEof(s)
         /\ HasClosed(s) <=> HasClosed(stack)
<1>1. stack \in Seq(Frames) BY DEF Good
<1>2. Top = stack[1] /\ 1 \in DOMAIN stack BY <1>1 DEF Top
<1> DEFINE n == [stack[1] EXCEPT !.total = TRUE]
<1>3. n \in Frames /\ n.f = Top.f
  <2>1. stack[1] \in Frames BY <1>1, <1>2
  <2> QED BY <1>2, <2>1 DEF Frames
<1>4. s = [stack EXCEPT ![1] = n] OBVIOUS
<1> HIDE DEF n
<1>5. s \in Seq(Frames) /\ Len(s) = Len(stack) /\ s[1] = n
      /\ \A i \in DOMAIN stack : i # 1 => s[i] = stack[i]
  BY <1>1, <1>3, <1>4, HeadReplaced
<1>6. DOMAIN s = DOMAIN stack BY <1>1, <1>5
<1>7. /\ \A i \in DOMAIN stack : s[i].f = stack[i].f
      /\ \A i \in DOMAIN stack : IsEof(s[i]) <=> IsEof(stack[i])
      /\ \A i \in DOMAIN stack : IsPeer(s[i]) <=> IsPeer(stack[i])
  BY <1>2, <1>3, <1>5 DEF IsEof, IsPeer
<1>8. s # <<>> /\ Head(s) = n BY <1>1, <1>2, <1>5
<1>9. ~AtPeer(s) /\ ~AtEof(s) BY <1>3, <1>8 DEF AtPeer, AtEof, IsPeer, IsEof
<1>10. HasClosed(s) <=> HasClosed(stack) BY <1>6, <1>7 DEF HasClosed
<1>11. Good(s, c)
  <2>1. c => \A i \in DOMAIN s : IsEof(s[i]) => i = 1 \/ s[i - 1].f = "read"
    <3> SUFFICES ASSUME c, NEW i \in DOMAIN stack, IsEof(stack[i]), i # 1
                 PROVE  s[i - 1].f = "read"
      BY <1>6, <1>7
    <3>1. stack[i - 1].f = "read" /\ i - 1 \in DOMAIN stack BY <1>1 DEF Good
    <3> QED BY <1>7, <3>1
  <2> QED BY <1>5, <1>6, <1>7, <2>1 DEF Good
<1> QED BY <1>3, <1>8, <1>9, <1>10, <1>11

-----------------------------------------------------------------------------
(* Data.                                                                     *)

LEMMA UpToNext ==
  ASSUME NEW n \in Nat
  PROVE  UpTo(n) \in Seq(Nat) /\ Len(UpTo(n)) = n /\ UpTo(n + 1) = Append(UpTo(n), n + 1)
<1>1. \A k \in Nat : UpTo(k) \in [1 .. k -> Nat] /\ \A i \in 1 .. k : UpTo(k)[i] = i
  BY DEF UpTo
<1>2. \A k \in Nat : UpTo(k) \in Seq(Nat) /\ Len(UpTo(k)) = k BY <1>1
<1> DEFINE l == UpTo(n + 1)
           u == UpTo(n)
           r == Append(u, n + 1)
<1>3. u \in Seq(Nat) /\ Len(u) = n /\ n + 1 \in Nat BY <1>2
<1>4. l \in Seq(Nat) /\ Len(l) = n + 1 /\ \A i \in 1 .. n + 1 : l[i] = i BY <1>1, <1>2
<1>5. \A i \in 1 .. n : u[i] = i BY <1>1
<1> HIDE DEF l, u
<1>6. /\ r \in Seq(Nat) /\ Len(r) = n + 1
      /\ \A i \in 1 .. n : r[i] = u[i]
      /\ r[n + 1] = n + 1
  BY <1>3, AppendProperties
<1> HIDE DEF r
<1>7. \A i \in 1 .. n + 1 : l[i] = r[i]
  <2> TAKE i \in 1 .. n + 1
  <2>1. CASE i = n + 1 BY <1>4, <1>6, <2>1
  <2>2. CASE i # n + 1
    <3>1. i \in 1 .. n BY <2>2
    <3> QED BY <1>4, <1>5, <1>6, <3>1
  <2> QED BY <2>1, <2>2
<1>8. l = r BY <1>4, <1>6, <1>7, SeqEqual
<1> QED BY <1>3, <1>8 DEF l, r, u

LEMMA AppendUpTo ==
  ASSUME NEW a \in Seq(Nat), NEW b \in Seq(Nat), NEW n \in Nat, a \o b = UpTo(n)
  PROVE  a \o Append(b, n + 1) = UpTo(n + 1)
<1> DEFINE x == <<n + 1>>
<1>1. x \in Seq(Nat) OBVIOUS
<1>2. n + 1 \in Nat OBVIOUS
<1>3. Append(b, n + 1) = b \o x BY <1>2, AppendIsConcat
<1>4. a \o b \in Seq(Nat) BY ConcatProperties
<1>5. Append(a \o b, n + 1) = (a \o b) \o x BY <1>2, <1>4, AppendIsConcat
<1>6. (a \o b) \o x = a \o (b \o x) BY <1>1, ConcatAssociative
<1> QED BY <1>3, <1>5, <1>6, UpToNext

LEMMA Associative ==
  ASSUME NEW a \in Seq(Nat), NEW b \in Seq(Nat), NEW c \in Seq(Nat)
  PROVE  (a \o b) \o c = a \o (b \o c)
BY ConcatAssociative

LEMMA SplitConcat ==
  ASSUME NEW a \in Seq(Nat), NEW b \in Seq(Nat), NEW k \in 0 .. Len(b)
  PROVE  /\ a \o SubSeq(b, 1, k) \in Seq(Nat)
         /\ SubSeq(b, k + 1, Len(b)) \in Seq(Nat) /\ Len(SubSeq(b, k + 1, Len(b))) = Len(b) - k
         /\ (a \o SubSeq(b, 1, k)) \o SubSeq(b, k + 1, Len(b)) = a \o b
<1> DEFINE p == SubSeq(b, 1, k)
           q == SubSeq(b, k + 1, Len(b))
<1>1. p \in Seq(Nat) BY SubSeqProperties
<1>2. q \in Seq(Nat) /\ Len(q) = Len(b) - k BY SubSeqProperties
<1>3. p \o q = b
  <2>1. 1 \in 1 .. Len(b) + 1 /\ k \in 1 - 1 .. Len(b) /\ Len(b) \in k .. Len(b) OBVIOUS
  <2>2. p \o q = SubSeq(b, 1, Len(b)) BY <2>1, ConcatAdjacentSubSeq
  <2> QED BY <2>2, SubSeqFull
<1> HIDE DEF p, q
<1>4. (a \o p) \o q = a \o (p \o q)
  <2>1. p \in Seq(Nat) /\ q \in Seq(Nat) BY <1>1, <1>2
  <2> QED BY ONLY a \in Seq(Nat), <2>1, Associative
<1>5. a \o p \in Seq(Nat) BY <1>1, ConcatProperties
<1> QED BY <1>2, <1>3, <1>4, <1>5 DEF p, q

LEMMA MoveHead ==
  ASSUME NEW a \in Seq(Nat), NEW b \in Seq(Nat), b # <<>>
  PROVE  /\ Append(a, Head(b)) \in Seq(Nat) /\ Tail(b) \in Seq(Nat)
         /\ Append(a, Head(b)) \o Tail(b) = a \o b
<1> DEFINE h == <<Head(b)>>
           r == Tail(b)
<1>1. Head(b) \in Nat /\ r \in Seq(Nat) /\ h \in Seq(Nat) /\ Head(b) = b[1]
      /\ Len(b) \in 1 .. Len(b) /\ 1 \in 1 .. Len(b)
  OBVIOUS
<1>2. h \o r = b
  <2>1. SubSeq(b, 1, Len(b)) = <<b[1]>> \o SubSeq(b, 1 + 1, Len(b)) BY <1>1, SubSeqRecursiveFirst
  <2>2. r = SubSeq(b, 1 + 1, Len(b)) BY TailIsSubSeq
  <2>3. SubSeq(b, 1, Len(b)) = b BY SubSeqFull
  <2> QED BY <1>1, <2>1, <2>2, <2>3
<1>3. Append(a, Head(b)) = a \o h /\ Append(a, Head(b)) \in Seq(Nat)
  BY <1>1, AppendIsConcat, AppendProperties
<1> HIDE DEF h, r
<1>4. (a \o h) \o r = a \o (h \o r)
  <2>1. h \in Seq(Nat) /\ r \in Seq(Nat) BY <1>1
  <2> QED BY ONLY a \in Seq(Nat), <2>1, Associative
<1> QED BY <1>1, <1>2, <1>3, <1>4 DEF r

-----------------------------------------------------------------------------
(* The kernel.                                                               *)

(* What the kernel says of the end of the peer it does not take back.        *)
KernelGrows ==
  /\ kernel' \in Kernels
  /\ Eof => Eof'
  /\ Drained => Drained'
  /\ kernel'.error => kernel'.net = "reset"
  /\ kernel'.net # "reset" /\ ~kernel'.shutOut => kernel.net # "reset" /\ ~kernel.shutOut

LEMMA PeerKeeps ==
  ASSUME NetInv, Peer
  PROVE  NetInv'
<1>1. Typed /\ Stacked /\ Told /\ Fresh /\ Flagged /\ Conveyed BY DEF NetInv
<1>2. /\ sock = "open"
      /\ UNCHANGED <<alive, sock, handler, ready, connected, lrs, granula, data, bufs, stack,
                     wrote, got, closes, ending, sends, calls>>
  BY DEF Peer, PeerAnswers, PeerSends, PeerReads, PeerCloses, PeerResets, KernelMoves,
         socket, buffer, history, bounds
<1>3. kernel \in Kernels /\ (kernel.error => kernel.net = "reset") BY <1>1 DEF Typed, Flagged
<1>4. KernelGrows /\ got \o kernel'.inq = UpTo(kernel'.sent)
  <2>1. got \o kernel.inq = UpTo(kernel.sent) /\ got \in Seq(Nat) BY <1>1 DEF Conveyed, Typed
  <2>2. CASE PeerAnswers
    BY <1>3, <2>1, <2>2 DEF PeerAnswers, KernelGrows, Kernels, Nets, Eof, Drained
  <2>3. CASE PeerSends
    <3>1. kernel' = [kernel EXCEPT !.inq = Append(kernel.inq, kernel.sent + 1),
                                   !.sent = kernel.sent + 1, !.edge = TRUE]
          /\ kernel.net = "open"
      BY <2>3 DEF PeerSends
    <3>2. kernel.inq \in Seq(Nat) /\ kernel.sent \in Nat BY <1>3 DEF Kernels
    <3>3. Append(kernel.inq, kernel.sent + 1) \in Seq(Nat) BY <3>2
    <3>5. /\ kernel'.inq = Append(kernel.inq, kernel.sent + 1) /\ kernel'.sent = kernel.sent + 1
          /\ kernel'.net = kernel.net /\ kernel'.error = kernel.error
          /\ kernel'.shutIn = kernel.shutIn /\ kernel'.shutOut = kernel.shutOut
      BY <1>3, <3>1 DEF Kernels
    <3>6. kernel' \in Kernels
      <4> DEFINE q == Append(kernel.inq, kernel.sent + 1)
                 n == kernel.sent + 1
      <4>1. q \in Seq(Nat) /\ n \in Nat BY <3>2, <3>3
      <4>2. kernel' = [kernel EXCEPT !.inq = q, !.sent = n, !.edge = TRUE] BY <3>1
      <4> HIDE DEF q, n
      <4> QED BY <1>3, <4>1, <4>2 DEF Kernels
    <3>4. KernelGrows BY <1>3, <3>1, <3>5, <3>6 DEF KernelGrows, Eof, Drained
    <3> QED BY <2>1, <3>2, <3>4, <3>5, AppendUpTo
  <2>4. CASE PeerReads
    <3>1. kernel' = [kernel EXCEPT !.room = kernel.room + 1, !.nospace = FALSE,
                                   !.edge = kernel.edge \/ kernel.nospace]
      BY <2>4 DEF PeerReads
    <3>2. kernel.room + 1 \in Nat /\ (kernel.edge \/ kernel.nospace) \in BOOLEAN BY <1>3 DEF Kernels
    <3>3. kernel' \in Kernels BY <1>3, <3>1, <3>2 DEF Kernels
    <3>4. /\ kernel'.inq = kernel.inq /\ kernel'.sent = kernel.sent
          /\ kernel'.net = kernel.net /\ kernel'.error = kernel.error
          /\ kernel'.shutIn = kernel.shutIn /\ kernel'.shutOut = kernel.shutOut
      BY <1>3, <3>1 DEF Kernels
    <3> QED BY <1>3, <2>1, <3>3, <3>4 DEF KernelGrows, Eof, Drained
  <2>5. CASE PeerCloses
    BY <1>3, <2>1, <2>5 DEF PeerCloses, KernelGrows, Kernels, Nets, Eof, Drained
  <2>6. CASE PeerResets
    BY <1>3, <2>1, <2>6 DEF PeerResets, KernelGrows, Kernels, Nets, Eof, Drained
  <2> QED BY <2>2, <2>3, <2>4, <2>5, <2>6 DEF Peer
<1>5. Typed' BY <1>1, <1>2, <1>4 DEF Typed, KernelGrows
<1>6. Stacked' /\ Told' /\ Fresh' BY <1>1, <1>2 DEF Stacked, Told, Fresh
<1>7. Flagged' BY <1>1, <1>2, <1>4 DEF Flagged, KernelGrows
<1>8. Conveyed' BY <1>1, <1>2, <1>4 DEF Conveyed, KernelGrows
<1> QED BY <1>5, <1>6, <1>7, <1>8 DEF NetInv
-----------------------------------------------------------------------------
(* Calls in progress and user's code.                                        *)

LEMMA TopFacts ==
  ASSUME NetInv, stack # <<>>
  PROVE  /\ Top \in Frames /\ sock # "none" /\ handler # "connect"
         /\ AtEof(stack) <=> IsEof(Top)
         /\ AtPeer(stack) <=> IsPeer(Top)
         /\ Top.f = "closed" => HasClosed(stack)
         /\ Top.f = "ready" => Top.at \in {"write", "read", "eof"} /\ Top.some \in BOOLEAN
         /\ Top.f = "write" => Top.pre \in BOOLEAN /\ Top.total \in BOOLEAN
         /\ Top.f = "read" => Top.total \in BOOLEAN
         /\ Top.f = "shutdown" => Top.input \in BOOLEAN /\ Top.output \in BOOLEAN
<1>1. stack \in Seq(Frames) BY DEF NetInv, Stacked, Good
<1>2. Top = Head(stack) /\ Top = stack[1] /\ 1 \in DOMAIN stack BY <1>1 DEF Top
<1>3. Top \in Frames BY <1>1, <1>2
<1>4. sock # "none" /\ handler # "connect" BY DEF NetInv, Fresh
<1>5. /\ AtEof(stack) <=> IsEof(Top)
      /\ AtPeer(stack) <=> IsPeer(Top)
      /\ Top.f = "closed" => HasClosed(stack)
  BY <1>2 DEF AtEof, AtPeer, HasClosed
<1>6. /\ Top.f = "ready" => Top.at \in {"write", "read", "eof"} /\ Top.some \in BOOLEAN
      /\ Top.f = "write" => Top.pre \in BOOLEAN /\ Top.total \in BOOLEAN
      /\ Top.f = "read" => Top.total \in BOOLEAN
      /\ Top.f = "shutdown" => Top.input \in BOOLEAN /\ Top.output \in BOOLEAN
  BY <1>3 DEF Frames
<1> QED BY <1>3, <1>4, <1>5, <1>6

LEMMA UserFacts ==
  ASSUME NetInv, UserCode
  PROVE  ~AtEof(stack) /\ ~AtPeer(stack) /\ sock # "none" /\ handler # "connect"
<1>1. stack = <<>> \/ Top.f = "user" BY FrameFacts DEF UserCode
<1>2. ~AtEof(stack) /\ ~AtPeer(stack)
  BY <1>1, TopFacts DEF AtEof, AtPeer, IsEof, IsPeer
<1>3. sock # "none" /\ handler # "connect" BY DEF NetInv, Fresh, UserCode
<1> QED BY <1>2, <1>3

(* A call, or none: of the frames that calls push the last two are special.  *)
Calls(p, s, c) ==
  \/ p = <<>>
  \/ \E x \in Frames : /\ p = <<x>> /\ x.f # "closed" /\ ~IsEof(x) /\ ~IsPeer(x)
                       /\ c /\ AtEof(s) => x.f = "read"

LEMMA CallFacts ==
  ASSUME NEW c, NEW s, Good(s, c), ~AtPeer(s), NEW p, Calls(p, s, c)
  PROVE  /\ Good(p \o s, c) /\ ~AtPeer(p \o s)
         /\ HasClosed(p \o s) <=> HasClosed(s)
         /\ AtEof(p \o s) => p = <<>> /\ AtEof(s)
<1>1. s \in Seq(Frames) BY DEF Good
<1>2. CASE p = <<>>
  <2>1. p \o s = s BY <1>1, <1>2
  <2> QED BY <1>2, <2>1
<1>3. CASE p # <<>>
  <2>1. PICK x \in Frames : /\ p = <<x>> /\ x.f # "closed" /\ ~IsEof(x) /\ ~IsPeer(x)
                            /\ c /\ AtEof(s) => x.f = "read"
    BY <1>3 DEF Calls
  <2> QED BY <2>1, PushFacts
<1> QED BY <1>2, <1>3

LEMMA SingleFacts ==
  ASSUME NEW c, NEW x \in Frames, x.f # "closed", ~IsPeer(x)
  PROVE  Good(<<x>>, c) /\ ~HasClosed(<<x>>) /\ ~AtPeer(<<x>>) /\ (AtEof(<<x>>) <=> IsEof(x))
<1>1. /\ <<x>> \in Seq(Frames) /\ Len(<<x>>) = 1 /\ <<x>>[1] = x /\ DOMAIN <<x>> = {1}
      /\ Head(<<x>>) = x /\ <<x>> # <<>>
  OBVIOUS
<1> QED BY <1>1 DEF Good, HasClosed, AtPeer, AtEof

LEMMA EmptyFacts ==
  ASSUME NEW c
  PROVE  Good(<<>>, c) /\ ~HasClosed(<<>>) /\ ~AtPeer(<<>>) /\ ~AtEof(<<>>)
BY DEF Good, HasClosed, AtPeer, AtEof

(* A step that neither ends nor makes the connection.                        *)
LEMMA Preserves ==
  ASSUME NetInv, Typed', sock # "none", handler # "connect",
         UNCHANGED <<alive, sock, handler, ready, connected, closes, ending>>, KernelGrows,
         Good(stack', connected), HasClosed(stack') <=> HasClosed(stack),
         connected /\ "eof" \in lrs' => "eof" \in lrs /\ ("read" \in lrs' \/ Drained'),
         connected /\ "error" \in lrs' => Drained',
         AtEof(stack') /\ connected /\ granula' > 0 /\ "eof" \in lrs' => Drained',
         AtPeer(stack') /\ connected /\ granula' > 0 => Drained', Conveyed'
  PROVE  NetInv'
<1>1. Typed /\ Stacked /\ Told /\ Fresh /\ Flagged /\ Conveyed BY DEF NetInv
<1>2. Stacked' BY DEF Stacked
<1>3. Told' BY <1>1 DEF Told
<1>4. Fresh' BY <1>1 DEF Fresh
<1>5. Flagged' BY <1>1 DEF Flagged, KernelGrows
<1> QED BY <1>2, <1>3, <1>4, <1>5 DEF NetInv

(* ... and that is only a matter of calls.                                   *)
LEMMA PreservesCalls ==
  ASSUME NetInv, sock # "none", handler # "connect",
         UNCHANGED <<alive, sock, handler, ready, connected, lrs, data, bufs, kernel, wrote, got,
                     closes, ending, sends>>,
         granula' \in {0, 1},
         Good(stack', connected), HasClosed(stack') <=> HasClosed(stack),
         AtEof(stack') /\ connected /\ granula' > 0 /\ "eof" \in lrs => Drained,
         ~AtPeer(stack')
  PROVE  NetInv'
<1>1. Typed /\ Flagged /\ Conveyed BY DEF NetInv
<1>2. Typed' BY <1>1 DEF Typed
<1>3. KernelGrows BY <1>1 DEF KernelGrows, Typed, Flagged, Eof, Drained
<1>4. Conveyed' BY <1>1 DEF Conveyed
<1>5. Drained' <=> Drained BY DEF Drained
<1> QED BY <1>1, <1>2, <1>3, <1>4, <1>5, Preserves DEF Flagged

(* failed() that closes the channel.                                         *)
LEMMA FailedKeeps ==
  ASSUME NetInv, stack # <<>>, Top.f # "closed", NEW s \in Below, ChannelFailed(TRUE, s),
         lrs' \subseteq Flags, KernelGrows, UNCHANGED <<granula, wrote, got, closes, sends>>,
         kernel'.inq = kernel.inq, kernel'.sent = kernel.sent
  PROVE  NetInv'
<1>1. Typed /\ Stacked /\ Told /\ Fresh /\ Flagged /\ Conveyed BY DEF NetInv
<1> DEFINE closed == IF connected THEN <<[f |-> "closed"]>> ELSE <<>>
<1>2. /\ stack' = <<User>> \o closed \o s
      /\ connected' = FALSE /\ ending' = (IF connected THEN "other" ELSE ending)
      /\ (UNCHANGED <<sock, handler, ready>> \/ SockClosed)
      /\ data' = <<>> /\ bufs' = 0 /\ UNCHANGED alive
  BY DEF ChannelFailed, TellsClosed
<1>3. sock' # "none" /\ handler' # "connect" BY <1>2, TopFacts DEF SockClosed
<1>4. /\ Good(s, FALSE) /\ ~AtPeer(s)
      /\ HasClosed(s) <=> HasClosed(stack)
  BY <1>1, PopFacts DEF Stacked, Good
<1>5. /\ Good(stack', FALSE) /\ ~AtPeer(stack')
      /\ HasClosed(stack') <=> connected \/ HasClosed(stack)
  <2>1. User \in Frames /\ User.f = "user" /\ ~IsPeer(User) BY FrameFacts DEF IsPeer
  <2>2. CASE connected
    <3> DEFINE x == [f |-> "closed"]
               r == <<x>> \o s
    <3>1. x \in Frames /\ x.f = "closed" /\ ~IsPeer(x) BY FrameFacts DEF IsPeer
    <3>2. ~HasClosed(s) BY <1>1, <1>4, <2>2 DEF Told
    <3>3. s \in Seq(Frames) /\ <<User>> \in Seq(Frames) /\ <<x>> \in Seq(Frames)
      BY <1>4, <2>1, <3>1 DEF Good
    <3>4. stack' = <<User>> \o r
      BY <1>2, <2>2, <3>3, ConcatAssociative
    <3> HIDE DEF x
    <3>5. Good(r, FALSE) /\ HasClosed(r) /\ ~AtPeer(r) BY <1>4, <3>1, <3>2, PushFacts
    <3> HIDE DEF r
    <3> QED BY <2>1, <2>2, <3>4, <3>5, PushFacts
  <2>3. CASE ~connected
    <3>1. s \in Seq(Frames) /\ <<User>> \in Seq(Frames) BY <1>4, <2>1 DEF Good
    <3>2. stack' = <<User>> \o s BY <1>2, <2>3, <3>1
    <3> QED BY <1>4, <2>1, <2>3, <3>2, PushFacts
  <2> QED BY <2>2, <2>3
<1>6. Typed'
  <2>1. data' \in Seq(Nat) /\ bufs' \in Nat /\ bufs' <= Len(data') BY <1>2
  <2>2. sock' \in {"none", "open", "closed"} /\ handler' \in {"none", "connect", "connected"}
        /\ ready' \subseteq Flags
    BY <1>1, <1>2 DEF Typed, SockClosed
  <2> QED BY <1>1, <1>2, <2>1, <2>2 DEF Typed, KernelGrows
<1>7. Stacked' BY <1>2, <1>5 DEF Stacked
<1>8. Told' BY <1>1, <1>2, <1>5 DEF Told
<1>9. Fresh' BY <1>3 DEF Fresh
<1>10. Flagged' BY <1>1, <1>2, <1>5 DEF Flagged, KernelGrows, SockClosed
<1>11. Conveyed' BY <1>1, <1>2 DEF Conveyed
<1> QED BY <1>6, <1>7, <1>8, <1>9, <1>10, <1>11 DEF NetInv

-----------------------------------------------------------------------------
(* The steps of the calls in progress.                                       *)

(* The kernel was only asked, or an error fetched from it.                   *)
SameData == /\ kernel'.inq = kernel.inq /\ kernel'.sent = kernel.sent
            /\ kernel'.net = kernel.net
            /\ kernel'.shutIn = kernel.shutIn /\ kernel'.shutOut = kernel.shutOut

LEMMA SameDataFacts ==
  ASSUME NetInv, kernel' \in Kernels, SameData, kernel'.error => kernel.error
  PROVE  KernelGrows /\ (Drained' <=> Drained) /\ (Eof' <=> Eof)
BY DEF NetInv, Flagged, KernelGrows, SameData, Drained, Eof

LEMMA FetchFacts ==
  ASSUME NetInv, kernel' = [kernel EXCEPT !.error = FALSE]
  PROVE  kernel' \in Kernels /\ SameData /\ KernelGrows /\ (Drained' <=> Drained)
<1>1. kernel \in Kernels BY DEF NetInv, Typed
<1>2. kernel' \in Kernels /\ SameData /\ kernel'.error = FALSE BY <1>1 DEF Kernels, SameData
<1> QED BY <1>2, SameDataFacts

LEMMA ReturnKeeps ==
  ASSUME NetInv, Return
  PROVE  NetInv'
<1>1. /\ stack # <<>> /\ Top.f = "user" /\ stack' = Pop
      /\ UNCHANGED <<alive, sock, handler, ready, connected, lrs, granula, data, bufs, kernel, wrote,
                     got, closes, ending, sends>>
  BY DEF Return, Runs, socket, buffer, history, bounds
<1>2. Pop \in Below /\ Good(stack, connected) /\ granula \in {0, 1}
  BY DEF Below, NetInv, Stacked, Typed
<1>3. /\ Good(stack', connected) /\ ~AtPeer(stack') /\ (HasClosed(stack') <=> HasClosed(stack))
      /\ connected => ~AtEof(stack')
  BY <1>1, <1>2, PopFacts
<1> QED BY <1>1, <1>2, <1>3, TopFacts, PreservesCalls

LEMMA WriteEndsKeeps ==
  ASSUME NetInv, WriteEnds
  PROVE  NetInv'
<1> DEFINE p == IF Top.total /\ ~ Top.pre THEN <<User>> ELSE <<>>
           s == PopWith(Top.total)
<1>1. /\ stack # <<>> /\ Top.f = "write" /\ stack' = p \o s
      /\ UNCHANGED <<alive, sock, handler, ready, connected, lrs, granula, data, bufs, kernel, wrote,
                     got, closes, ending, sends>>
  BY DEF WriteEnds, Runs, socket, buffer, history, bounds
<1>2. s \in Below /\ Good(stack, connected) /\ granula \in {0, 1}
  BY <1>1, TopFacts DEF Below, NetInv, Stacked, Typed
<1>3. /\ Good(s, connected) /\ ~AtPeer(s) /\ (HasClosed(s) <=> HasClosed(stack))
      /\ connected => ~AtEof(s)
  BY <1>1, <1>2, PopFacts
<1>4. Calls(p, s, connected) BY <1>3, FrameFacts DEF Calls, IsEof, IsPeer
<1> HIDE DEF p, s
<1>5. /\ Good(stack', connected) /\ ~AtPeer(stack') /\ (HasClosed(stack') <=> HasClosed(stack))
      /\ connected => ~AtEof(stack')
  BY <1>1, <1>3, <1>4, CallFacts
<1> QED BY <1>1, <1>2, <1>5, TopFacts, PreservesCalls

LEMMA ReadEndsKeeps ==
  ASSUME NetInv, ReadEnds
  PROVE  NetInv'
<1> DEFINE s == PopWith(Top.total)
<1>1. /\ stack # <<>> /\ Top.f = "read" /\ stack' = s /\ ("read" \notin lrs \/ granula = 0)
      /\ UNCHANGED <<alive, sock, handler, ready, connected, lrs, granula, data, bufs, kernel, wrote,
                     got, closes, ending, sends>>
  BY DEF ReadEnds, Runs, socket, buffer, history, bounds
<1>2. s \in Below /\ Good(stack, connected) /\ granula \in {0, 1}
  BY <1>1, TopFacts DEF Below, NetInv, Stacked, Typed
<1>3. /\ Good(s, connected) /\ ~AtPeer(s) /\ (HasClosed(s) <=> HasClosed(stack))
  BY <1>1, <1>2, PopFacts
<1>4. connected /\ granula > 0 /\ "eof" \in lrs => Drained BY <1>1 DEF NetInv, Flagged
<1> HIDE DEF s
<1> QED BY <1>1, <1>2, <1>3, <1>4, TopFacts, PreservesCalls

LEMMA EmitClosedKeeps ==
  ASSUME NetInv, EmitClosed
  PROVE  NetInv'
<1>1. Typed /\ Stacked /\ Told /\ Fresh /\ Flagged /\ Conveyed BY DEF NetInv
<1>2. /\ stack # <<>> /\ Top.f = "closed" /\ stack' = <<User>> \o Pop /\ closes' = closes + 1
      /\ UNCHANGED <<alive, sock, handler, ready, connected, lrs, granula, data, bufs, kernel, wrote,
                     got, ending, sends>>
  BY DEF EmitClosed, Runs, socket, buffer, history, bounds
<1>3. HasClosed(stack) /\ ending # "no" /\ closes = 0 /\ ~connected
  BY <1>1, <1>2, TopFacts DEF Told, Typed
<1>4. Good(Pop, connected) /\ ~AtPeer(Pop) /\ ~HasClosed(Pop)
  BY <1>1, <1>2, PopFacts DEF Below, Stacked
<1>5. Good(stack', connected) /\ ~HasClosed(stack')
  BY <1>2, <1>3, <1>4, PushFacts, FrameFacts
<1>6. Typed' BY <1>1, <1>2 DEF Typed
<1>7. Stacked' BY <1>2, <1>5 DEF Stacked
<1>8. Told' BY <1>1, <1>2, <1>3, <1>5 DEF Told
<1>9. Fresh' BY <1>1, <1>2, TopFacts DEF Fresh
<1>10. Flagged' BY <1>1, <1>2, <1>3 DEF Flagged, Drained, Eof
<1>11. Conveyed' BY <1>1, <1>2 DEF Conveyed
<1> QED BY <1>6, <1>7, <1>8, <1>9, <1>10, <1>11 DEF NetInv

LEMMA EnfillFacts ==
  ASSUME NEW d \in Seq(Nat)
  PROVE  Enfill(d) \in Nat /\ Enfill(d) <= Len(d)
BY NetAssumption DEF Enfill

LEMMA WriteSomeKeeps ==
  ASSUME NetInv, WriteSome
  PROVE  NetInv'
<1>1. Typed /\ Stacked /\ Flagged /\ Conveyed BY DEF NetInv
<1>2. /\ stack # <<>> /\ Top.f = "write" /\ stack' = [stack EXCEPT ![1].total = TRUE]
      /\ UNCHANGED <<alive, sock, handler, ready, connected, lrs, granula, got, closes, ending, sends>>
  BY DEF WriteSome, Writing, Runs, socket, bounds
<1>3. PICK n \in 1 .. bufs :
        /\ n <= kernel.room
        /\ kernel' = [kernel EXCEPT !.room = kernel.room - n]
        /\ wrote' = wrote \o SubSeq(data, 1, n)
        /\ data' = SubSeq(data, n + 1, Len(data))
        /\ bufs' = Enfill(data')
  BY DEF WriteSome
<1>4. n \in 0 .. Len(data) BY <1>1 DEF Typed
<1>5. wrote' \in Seq(Nat) /\ data' \in Seq(Nat) /\ wrote' \o data' = wrote \o data
  BY <1>1, <1>3, <1>4, SplitConcat DEF Typed
<1>6. bufs' \in Nat /\ bufs' <= Len(data') BY <1>3, <1>5, EnfillFacts
<1>7. kernel' \in Kernels /\ SameData /\ kernel'.error = kernel.error
  <2>1. kernel \in Kernels BY <1>1 DEF Typed
  <2>2. kernel.room - n \in Nat BY <1>3, <2>1 DEF Kernels
  <2> QED BY <1>3, <2>1, <2>2 DEF Kernels, SameData
<1>8. KernelGrows /\ (Drained' <=> Drained) BY <1>7, SameDataFacts
<1>9. /\ Good(stack', connected) /\ ~AtPeer(stack') /\ ~AtEof(stack')
      /\ HasClosed(stack') <=> HasClosed(stack)
  BY <1>1, <1>2, TotalFacts DEF Stacked
<1>10. Typed' BY <1>1, <1>2, <1>5, <1>6, <1>7 DEF Typed
<1>11. Conveyed' BY <1>1, <1>2, <1>5, <1>7 DEF Conveyed, SameData
<1> QED BY <1>1, <1>2, <1>8, <1>9, <1>10, <1>11, TopFacts, Preserves DEF Flagged

LEMMA WriteAgainKeeps ==
  ASSUME NetInv, WriteAgain
  PROVE  NetInv'
<1>1. Typed /\ Stacked /\ Flagged /\ Conveyed BY DEF NetInv
<1>2. /\ stack # <<>> /\ lrs' = lrs \ {"write"} /\ kernel' = [kernel EXCEPT !.nospace = TRUE]
      /\ UNCHANGED <<alive, sock, handler, ready, connected, granula, data, bufs, stack, wrote, got,
                     closes, ending, sends>>
  BY DEF WriteAgain, Writing, Runs, socket, buffer, history, bounds
<1>3. kernel' \in Kernels /\ SameData /\ kernel'.error = kernel.error
  BY <1>1, <1>2 DEF Typed, Kernels, SameData
<1>4. KernelGrows /\ (Drained' <=> Drained) BY <1>3, SameDataFacts
<1>5. Typed' BY <1>1, <1>2, <1>3 DEF Typed
<1>6. Conveyed' BY <1>1, <1>2, <1>3 DEF Conveyed, SameData
<1>7. Good(stack', connected) BY <1>1, <1>2 DEF Stacked
<1>8. /\ "eof" \in lrs' => "eof" \in lrs
      /\ "error" \in lrs' => "error" \in lrs
      /\ "read" \in lrs => "read" \in lrs'
  BY <1>2
<1> QED BY <1>1, <1>2, <1>4, <1>5, <1>6, <1>7, <1>8, TopFacts, Preserves DEF Flagged

LEMMA WriteFailsKeeps ==
  ASSUME NetInv, WriteFails
  PROVE  NetInv'
<1>1. Typed /\ Stacked /\ Flagged /\ Conveyed BY DEF NetInv
<1> DEFINE s == PopWith(FALSE)
<1>2. /\ stack # <<>> /\ Top.f = "write" /\ Broken /\ kernel' = [kernel EXCEPT !.error = FALSE]
      /\ UNCHANGED <<lrs, granula, wrote, got, closes, sends>>
  BY DEF WriteFails, Writing, Runs, bounds
<1>3. kernel' \in Kernels /\ SameData /\ KernelGrows /\ (Drained' <=> Drained) BY <1>2, FetchFacts
<1>4. s \in Below BY DEF Below
<1>5. CASE Top.pre
  <2>1. /\ data' = <<>> /\ bufs' = 0 /\ stack' = s
        /\ UNCHANGED <<alive, sock, handler, ready, connected, ending>>
    BY <1>5 DEF WriteFails, socket
  <2>2. /\ Good(s, connected) /\ ~AtPeer(s) /\ (HasClosed(s) <=> HasClosed(stack))
        /\ connected => ~AtEof(s)
    BY <1>1, <1>2, <1>4, PopFacts DEF Stacked
  <2>3. Typed'
    <3>1. data' \in Seq(Nat) /\ bufs' \in Nat /\ bufs' <= Len(data') BY <2>1
    <3> QED BY <1>1, <1>2, <1>3, <2>1, <3>1 DEF Typed
  <2>4. kernel.net = "reset" \/ kernel.shutOut BY <1>1, <1>2 DEF Broken, Flagged
  <2>5. Conveyed' BY <1>1, <1>2, <1>3, <2>4 DEF Conveyed, SameData
  <2> HIDE DEF s
  <2> QED BY <1>1, <1>2, <1>3, <2>1, <2>2, <2>3, <2>5, TopFacts, Preserves DEF Flagged
<1>6. CASE ~Top.pre
  <2>1. ChannelFailed(TRUE, s) BY <1>6 DEF WriteFails
  <2>2. lrs' \subseteq Flags BY <1>1, <1>2 DEF Typed
  <2> HIDE DEF s
  <2> QED BY <1>2, <1>3, <1>4, <2>1, <2>2, FailedKeeps DEF SameData
<1> QED BY <1>5, <1>6

LEMMA ReadSomeKeeps ==
  ASSUME NetInv, ReadSome
  PROVE  NetInv'
<1>1. Typed /\ Stacked /\ Flagged /\ Conveyed BY DEF NetInv
<1> DEFINE s == [stack EXCEPT ![1].total = TRUE]
<1>2. /\ stack # <<>> /\ Top.f = "read" /\ stack' = <<User>> \o s /\ kernel.inq # <<>>
      /\ got' = Append(got, Head(kernel.inq))
      /\ kernel' = [kernel EXCEPT !.inq = Tail(kernel.inq)]
      /\ UNCHANGED <<alive, sock, handler, ready, connected, lrs, granula, data, bufs, wrote, closes,
                     ending, sends>>
  BY DEF ReadSome, Reading, Runs, socket, buffer, bounds
<1>3. kernel \in Kernels /\ kernel.inq \in Seq(Nat) /\ got \in Seq(Nat) BY <1>1 DEF Typed, Kernels
<1> DEFINE q == Tail(kernel.inq)
<1>4. q \in Seq(Nat) /\ got' \in Seq(Nat) /\ got' \o q = got \o kernel.inq
  BY <1>2, <1>3, MoveHead
<1> HIDE DEF q
<1>5. kernel' = [kernel EXCEPT !.inq = q] BY <1>2 DEF q
<1>6. /\ kernel' \in Kernels /\ kernel'.inq = q /\ kernel'.sent = kernel.sent
      /\ kernel'.net = kernel.net /\ kernel'.error = kernel.error
      /\ kernel'.shutIn = kernel.shutIn /\ kernel'.shutOut = kernel.shutOut
  BY <1>3, <1>4, <1>5 DEF Kernels
<1>7. KernelGrows BY <1>1, <1>2, <1>6 DEF KernelGrows, Flagged, Eof, Drained
<1>8. Good(s, connected) /\ ~AtPeer(s) /\ ~AtEof(s) /\ (HasClosed(s) <=> HasClosed(stack))
  BY <1>1, <1>2, TotalFacts DEF Stacked
<1> HIDE DEF s
<1>9. /\ Good(stack', connected) /\ ~AtPeer(stack') /\ ~AtEof(stack')
      /\ HasClosed(stack') <=> HasClosed(stack)
  BY <1>2, <1>8, PushFacts, FrameFacts DEF IsEof, IsPeer
<1>10. Typed' BY <1>1, <1>2, <1>4, <1>6 DEF Typed
<1>11. Conveyed' BY <1>1, <1>2, <1>4, <1>6 DEF Conveyed
<1> QED BY <1>1, <1>2, <1>7, <1>9, <1>10, <1>11, TopFacts, Preserves DEF Flagged, KernelGrows

LEMMA ReadAgainKeeps ==
  ASSUME NetInv, ReadAgain
  PROVE  NetInv'
<1>1. Typed /\ Stacked /\ Flagged /\ Conveyed BY DEF NetInv
<1> DEFINE s == PopWith(Top.total)
<1>2. /\ stack # <<>> /\ Top.f = "read" /\ stack' = s /\ ~Eof /\ lrs' = lrs \ {"read"}
      /\ UNCHANGED <<alive, sock, handler, ready, connected, granula, data, bufs, kernel, wrote, got,
                     closes, ending, sends>>
  BY DEF ReadAgain, Reading, Runs, socket, buffer, history, bounds
<1>3. s \in Below BY <1>2, TopFacts DEF Below
<1>4. Good(s, connected) /\ ~AtPeer(s) /\ (HasClosed(s) <=> HasClosed(stack))
  BY <1>1, <1>2, <1>3, PopFacts DEF Stacked
<1>5. kernel' \in Kernels /\ SameData /\ kernel'.error = kernel.error
  BY <1>1, <1>2 DEF Typed, SameData
<1>6. KernelGrows /\ (Drained' <=> Drained) BY <1>5, SameDataFacts
<1>7. Typed' BY <1>1, <1>2 DEF Typed
<1>8. Conveyed' BY <1>1, <1>2 DEF Conveyed
<1>9. /\ connected => "eof" \notin lrs'
      /\ connected /\ "error" \in lrs' => Drained
  BY <1>1, <1>2 DEF Flagged
<1> HIDE DEF s
<1> QED BY <1>2, <1>4, <1>6, <1>7, <1>8, <1>9, TopFacts, Preserves

LEMMA ReadEofKeeps ==
  ASSUME NetInv, ReadEof
  PROVE  NetInv'
<1>1. Typed /\ Stacked /\ Flagged /\ Conveyed BY DEF NetInv
<1> DEFINE s == PopWith(FALSE)
<1>2. /\ stack # <<>> /\ Top.f = "read" /\ stack' = s /\ Eof /\ kernel.inq = <<>>
      /\ lrs' = (lrs \ {"read"}) \union (Flags \ {"eof"})
      /\ UNCHANGED <<alive, sock, handler, ready, connected, granula, data, bufs, kernel, wrote, got,
                     closes, ending, sends>>
  BY DEF ReadEof, Reading, Runs, socket, buffer, history, bounds
<1>3. Good(s, connected) /\ ~AtPeer(s) /\ (HasClosed(s) <=> HasClosed(stack))
  BY <1>1, <1>2, PopFacts DEF Stacked, Below
<1>4. kernel' \in Kernels /\ SameData /\ kernel'.error = kernel.error
  BY <1>1, <1>2 DEF Typed, SameData
<1>5. KernelGrows /\ Drained /\ (Drained' <=> Drained)
  BY <1>2, <1>4, SameDataFacts DEF Eof, Drained
<1>6. Typed' BY <1>1, <1>2 DEF Typed
<1>7. Conveyed' BY <1>1, <1>2 DEF Conveyed
<1>8. "eof" \in lrs' => "eof" \in lrs BY <1>2
<1> HIDE DEF s
<1> QED BY <1>2, <1>3, <1>5, <1>6, <1>7, <1>8, TopFacts, Preserves

LEMMA ReadFailsKeeps ==
  ASSUME NetInv, ReadFails
  PROVE  NetInv'
<1>1. Typed /\ Stacked /\ Told /\ Flagged /\ Conveyed BY DEF NetInv
<1> DEFINE s == PopWith(FALSE)
<1>2. /\ alive /\ stack # <<>> /\ Top.f = "read"
      /\ sock # "open" \/ kernel.error
      /\ kernel' = [kernel EXCEPT !.error = FALSE]
      /\ UNCHANGED <<granula, wrote, got, closes, sends>>
  BY DEF ReadFails, Reading, Runs, bounds
<1>3. kernel' \in Kernels /\ SameData /\ KernelGrows /\ (Drained' <=> Drained) BY <1>2, FetchFacts
<1>4. s \in Below BY DEF Below
<1>5. CASE "eof" \in lrs
  <2>1. /\ stack' = s
        /\ UNCHANGED <<alive, sock, handler, ready, connected, data, bufs, ending, lrs>>
    BY <1>5 DEF ReadFails, socket, buffer
  <2>2. Good(s, connected) /\ ~AtPeer(s) /\ (HasClosed(s) <=> HasClosed(stack))
    BY <1>1, <1>2, <1>4, PopFacts DEF Stacked
  <2>3. connected => Drained BY <1>1, <1>2 DEF Told, Flagged, Drained
  <2>4. Typed' BY <1>1, <1>2, <1>3, <2>1 DEF Typed
  <2>5. Conveyed' BY <1>1, <1>2, <1>3, <2>1 DEF Conveyed, SameData
  <2> HIDE DEF s
  <2> QED BY <1>2, <1>3, <2>1, <2>2, <2>3, <2>4, <2>5, TopFacts, Preserves
<1>6. CASE "eof" \notin lrs
  <2>1. ChannelFailed(TRUE, s) /\ lrs' = lrs \union (Flags \ {"error"}) BY <1>6 DEF ReadFails
  <2>2. lrs' \subseteq Flags BY <1>1, <2>1 DEF Typed
  <2> HIDE DEF s
  <2> QED BY <1>2, <1>3, <1>4, <2>1, <2>2, FailedKeeps DEF SameData
<1> QED BY <1>5, <1>6

LEMMA CloseEndsKeeps ==
  ASSUME NetInv, CloseEnds
  PROVE  NetInv'
<1>1. Typed /\ Stacked /\ Told /\ Fresh /\ Flagged /\ Conveyed BY DEF NetInv
<1> DEFINE p == IF connected THEN <<User>> ELSE <<>>
<1>2. /\ stack # <<>> /\ Top.f = "close" /\ stack' = p \o Pop
      /\ (UNCHANGED <<sock, handler, ready>> \/ SockClosed)
      /\ lrs' = {"close"} /\ data' = <<>> /\ bufs' = 0 /\ connected' = FALSE
      /\ closes' = (IF connected THEN closes + 1 ELSE closes)
      /\ ending' = IF ~ connected THEN ending
                   ELSE IF Top.by = "peer" /\ granula > 0 THEN "peer" ELSE "other"
      /\ UNCHANGED <<alive, granula, kernel, wrote, got, sends>>
  BY DEF CloseEnds, Runs, TellsClosed, bounds
<1>3. sock' # "none" /\ handler' # "connect" BY <1>2, TopFacts DEF SockClosed
<1>4. Good(Pop, FALSE) /\ ~AtPeer(Pop) /\ (HasClosed(Pop) <=> HasClosed(stack))
  BY <1>1, <1>2, PopFacts DEF Stacked, Below, Good
<1>5. Calls(p, Pop, FALSE) BY FrameFacts DEF Calls, IsEof, IsPeer
<1>6. Good(stack', FALSE) /\ (HasClosed(stack') <=> HasClosed(stack))
  <2> HIDE DEF p
  <2> QED BY <1>2, <1>4, <1>5, CallFacts
<1>7. ending' = "peer" => Drained
  <2>1. Top.by = "peer" => AtPeer(stack) BY <1>2, TopFacts DEF IsPeer
  <2> QED BY <1>1, <1>2, <2>1 DEF Flagged
<1>8. Typed'
  <2>1. data' \in Seq(Nat) /\ bufs' \in Nat /\ bufs' <= Len(data') BY <1>2
  <2>2. /\ sock' \in {"none", "open", "closed"} /\ handler' \in {"none", "connect", "connected"}
        /\ ready' \subseteq Flags /\ lrs' \subseteq Flags
    BY <1>1, <1>2 DEF Typed, SockClosed, Flags
  <2>3. closes' \in Nat /\ ending' \in {"no", "peer", "other"} BY <1>1, <1>2 DEF Typed
  <2> QED BY <1>1, <1>2, <2>1, <2>2, <2>3 DEF Typed
<1>9. Stacked' BY <1>2, <1>6 DEF Stacked
<1>10. Told' BY <1>1, <1>2, <1>6 DEF Told
<1>11. Fresh' BY <1>3 DEF Fresh
<1>12. Flagged' BY <1>1, <1>2, <1>7 DEF Flagged, SockClosed, Drained, Eof
<1>13. Conveyed' BY <1>1, <1>2 DEF Conveyed
<1> QED BY <1>8, <1>9, <1>10, <1>11, <1>12, <1>13 DEF NetInv

LEMMA ShutdownEndsKeeps ==
  ASSUME NetInv, ShutdownEnds
  PROVE  NetInv'
<1>1. Typed /\ Stacked /\ Flagged /\ Conveyed BY DEF NetInv
<1> DEFINE i == kernel.shutIn \/ Top.input
           o == kernel.shutOut \/ Top.output
<1>2. /\ stack # <<>> /\ Top.f = "shutdown" /\ stack' = Pop
      /\ kernel' = IF sock # "open" THEN kernel
                   ELSE [kernel EXCEPT !.shutIn = i, !.shutOut = o, !.edge = TRUE]
      /\ UNCHANGED <<alive, sock, handler, ready, connected, lrs, granula, data, bufs, wrote, got,
                     closes, ending, sends>>
  BY DEF ShutdownEnds, Runs, socket, buffer, history, bounds
<1>3. kernel \in Kernels /\ i \in BOOLEAN /\ o \in BOOLEAN
      /\ (kernel.shutIn => i) /\ (kernel.shutOut => o)
  BY <1>1, <1>2, TopFacts DEF Typed, Kernels
<1> HIDE DEF i, o
<1>4. /\ kernel' \in Kernels /\ kernel'.inq = kernel.inq /\ kernel'.sent = kernel.sent
      /\ kernel'.net = kernel.net /\ kernel'.error = kernel.error
      /\ kernel.shutIn => kernel'.shutIn
      /\ kernel.shutOut => kernel'.shutOut
  BY <1>2, <1>3 DEF Kernels
<1>5. KernelGrows BY <1>1, <1>4 DEF KernelGrows, Flagged, Eof, Drained
<1>6. /\ Good(stack', connected) /\ ~AtPeer(stack') /\ (HasClosed(stack') <=> HasClosed(stack))
      /\ connected => ~AtEof(stack')
  BY <1>1, <1>2, PopFacts DEF Stacked, Below
<1>7. Typed' BY <1>1, <1>2, <1>4 DEF Typed
<1>8. Conveyed' BY <1>1, <1>2, <1>4 DEF Conveyed
<1> QED BY <1>1, <1>2, <1>5, <1>6, <1>7, <1>8, TopFacts, Preserves DEF Flagged, KernelGrows

LEMMA TwoCalls ==
  ASSUME NEW c, NEW s, Good(s, c), ~AtPeer(s), c => ~AtEof(s),
         NEW x \in Frames, x.f # "closed", ~IsPeer(x), NEW p, Calls(p, <<x>> \o s, c)
  PROVE  /\ Good(p \o <<x>> \o s, c) /\ ~AtPeer(p \o <<x>> \o s)
         /\ HasClosed(p \o <<x>> \o s) <=> HasClosed(s)
         /\ AtEof(p \o <<x>> \o s) => p = <<>> /\ IsEof(x)
<1> DEFINE r == <<x>> \o s
<1>1. Good(r, c) /\ ~AtPeer(r) /\ (HasClosed(r) <=> HasClosed(s)) /\ (AtEof(r) <=> IsEof(x))
  BY PushFacts
<1>2. s \in Seq(Frames) /\ <<x>> \in Seq(Frames) /\ p \in Seq(Frames)
  <2>1. s \in Seq(Frames) /\ <<x>> \in Seq(Frames) BY DEF Good
  <2>2. \A y \in Frames : <<y>> \in Seq(Frames) OBVIOUS
  <2>3. p = <<>> \/ \E y \in Frames : p = <<y>> BY DEF Calls
  <2>4. <<>> \in Seq(Frames) OBVIOUS
  <2> QED BY ONLY <2>1, <2>2, <2>3, <2>4
<1>3. p \o <<x>> \o s = p \o r BY <1>2, ConcatAssociative
<1>4. Calls(p, r, c) OBVIOUS
<1>5. Good(p \o r, c) /\ ~AtPeer(p \o r) /\ (HasClosed(p \o r) <=> HasClosed(r))
      /\ (AtEof(p \o r) => p = <<>> /\ AtEof(r))
  <2> HIDE DEF r
  <2> QED BY <1>1, <1>4, CallFacts
<1> QED BY <1>1, <1>3, <1>5

LEMMA WritesFacts ==
  ASSUME NEW s, NEW c, c => ~AtEof(s), NEW pre \in BOOLEAN, NEW n, NEW b \in BOOLEAN
  PROVE  Calls(IF b THEN Writes(pre, n) ELSE <<>>, s, c)
BY FrameFacts DEF Calls, Writes, IsEof, IsPeer

LEMMA ReadsFacts ==
  ASSUME NEW s, NEW c, NEW b \in BOOLEAN
  PROVE  Calls(IF b THEN Reads ELSE <<>>, s, c)
BY FrameFacts DEF Calls, Reads, IsEof, IsPeer

(* connectedSockReady.                                                       *)
LEMMA ReadyWriteKeeps ==
  ASSUME NetInv, ReadyWrite
  PROVE  NetInv'
<1>1. Typed /\ Stacked BY DEF NetInv
<1> DEFINE b == "write" \in lrs
           p == IF b THEN Writes(FALSE, bufs) ELSE <<>>
           x == Ready("read", Top.some)
<1>2. /\ stack # <<>> /\ Top.f = "ready" /\ stack' = p \o <<x>> \o Pop
      /\ UNCHANGED <<alive, sock, handler, ready, connected, lrs, data, bufs, kernel, wrote, got,
                     closes, ending, sends>>
      /\ granula' = granula
  BY DEF ReadyWrite, At, Runs, socket, buffer, history, bounds
<1>3. /\ Good(Pop, connected) /\ ~AtPeer(Pop) /\ (HasClosed(Pop) <=> HasClosed(stack))
      /\ connected => ~AtEof(Pop)
  BY <1>1, <1>2, PopFacts DEF Stacked, Below
<1>4. x \in Frames /\ x.f = "ready" /\ x.at = "read" BY <1>2, TopFacts, FrameFacts
<1>5. ~IsPeer(x) /\ ~IsEof(x) BY <1>4 DEF IsPeer, IsEof
<1> DEFINE r == <<x>> \o Pop
<1>6. ~AtEof(r) BY <1>3, <1>4, <1>5, PushFacts
<1>7. Calls(p, r, connected)
  <2> HIDE DEF r
  <2> QED BY <1>6, WritesFacts
<1> HIDE DEF p, x
<1>8. /\ Good(stack', connected) /\ ~AtPeer(stack') /\ (HasClosed(stack') <=> HasClosed(stack))
      /\ ~AtEof(stack')
  BY <1>2, <1>3, <1>4, <1>5, <1>7, TwoCalls
<1> QED BY <1>1, <1>2, <1>8, TopFacts, PreservesCalls DEF Typed

LEMMA ReadyReadKeeps ==
  ASSUME NetInv, ReadyRead
  PROVE  NetInv'
<1>1. Typed /\ Stacked /\ Told /\ Flagged BY DEF NetInv
<1> DEFINE b == "read" \in lrs
           p == IF b THEN Reads ELSE <<>>
           x == Ready("eof", Top.some)
<1>2. /\ alive /\ stack # <<>> /\ Top.f = "ready" /\ stack' = p \o <<x>> \o Pop
      /\ UNCHANGED <<alive, sock, handler, ready, connected, lrs, data, bufs, kernel, wrote, got,
                     closes, ending, sends>>
      /\ granula' = granula
  BY DEF ReadyRead, At, Runs, socket, buffer, history, bounds
<1>3. /\ Good(Pop, connected) /\ ~AtPeer(Pop) /\ (HasClosed(Pop) <=> HasClosed(stack))
      /\ connected => ~AtEof(Pop)
  BY <1>1, <1>2, PopFacts DEF Stacked, Below
<1>4. x \in Frames /\ x.f = "ready" BY <1>2, TopFacts, FrameFacts
<1>5. ~IsPeer(x) BY <1>4 DEF IsPeer
<1>6. Calls(p, <<x>> \o Pop, connected) BY ReadsFacts
<1>7. connected /\ p = <<>> => "read" \notin lrs BY <1>1, <1>2 DEF Told, Reads
<1> HIDE DEF p, x
<1>8. /\ Good(stack', connected) /\ ~AtPeer(stack') /\ (HasClosed(stack') <=> HasClosed(stack))
      /\ AtEof(stack') => p = <<>>
  BY <1>2, <1>3, <1>4, <1>5, <1>6, TwoCalls
<1>9. AtEof(stack') /\ connected /\ "eof" \in lrs => Drained BY <1>1, <1>7, <1>8 DEF Flagged
<1> QED BY <1>1, <1>2, <1>8, <1>9, TopFacts, PreservesCalls DEF Typed

LEMMA ReadyEofKeeps ==
  ASSUME NetInv, ReadyEof
  PROVE  NetInv'
<1>1. Typed /\ Stacked /\ Flagged /\ Conveyed BY DEF NetInv
<1>2. /\ stack # <<>> /\ Top.f = "ready" /\ Top.at = "eof"
      /\ lrs' = (IF "eof" \in lrs THEN {} ELSE lrs)
      /\ UNCHANGED <<alive, sock, handler, ready, connected, granula, data, bufs, kernel, wrote, got,
                     closes, ending, sends>>
  BY DEF ReadyEof, At, Runs, socket, buffer, history, bounds
<1>3. /\ Good(Pop, connected) /\ ~AtPeer(Pop) /\ (HasClosed(Pop) <=> HasClosed(stack))
      /\ connected => ~AtEof(Pop)
  BY <1>1, <1>2, PopFacts DEF Stacked, Below
<1>4. connected /\ granula > 0 /\ "eof" \in lrs => Drained
  BY <1>1, <1>2, TopFacts DEF Flagged, IsEof
<1>5. /\ Good(stack', connected) /\ (HasClosed(stack') <=> HasClosed(stack))
      /\ connected => ~AtEof(stack')
      /\ AtPeer(stack') => "eof" \in lrs
  <2>1. Pop \in Seq(Frames) BY <1>3 DEF Good
  <2>2. CASE "eof" \in lrs
    <3>1. stack' = <<Closing("peer")>> \o Pop BY <2>2 DEF ReadyEof
    <3>2. Closing("peer") \in Frames /\ Closing("peer").f = "close" BY FrameFacts
    <3> DEFINE x == Closing("peer")
    <3>3. x \in Frames /\ x.f = "close" /\ ~IsEof(x) /\ stack' = <<x>> \o Pop BY <3>1, <3>2 DEF IsEof
    <3> HIDE DEF x
    <3>4. /\ Good(stack', connected) /\ ~AtEof(stack') /\ (HasClosed(stack') <=> HasClosed(Pop))
      BY <1>3, <3>3, PushFacts
    <3> QED BY <1>3, <2>2, <3>4
  <2>3. CASE "eof" \notin lrs /\ Top.some
    <3>1. stack' = <<Ready("write", FALSE)>> \o Pop BY <2>3 DEF ReadyEof
    <3>2. /\ Ready("write", FALSE) \in Frames /\ Ready("write", FALSE).f = "ready"
          /\ Ready("write", FALSE).at = "write"
      BY FrameFacts
    <3>3. ~IsEof(Ready("write", FALSE)) /\ ~IsPeer(Ready("write", FALSE)) BY <3>2 DEF IsEof, IsPeer
    <3> DEFINE x == Ready("write", FALSE)
    <3>4. x \in Frames /\ x.f = "ready" /\ ~IsEof(x) /\ ~IsPeer(x) /\ stack' = <<x>> \o Pop
      BY <3>1, <3>2, <3>3
    <3> HIDE DEF x
    <3> QED BY <1>3, <3>4, PushFacts
  <2>4. CASE "eof" \notin lrs /\ ~Top.some
    <3>1. stack' = <<>> \o Pop BY <2>4 DEF ReadyEof
    <3>2. stack' = Pop BY <2>1, <3>1
    <3> QED BY <1>3, <3>2
  <2> QED BY <2>2, <2>3, <2>4
<1>6. kernel' \in Kernels /\ SameData /\ kernel'.error = kernel.error
  BY <1>1, <1>2 DEF Typed, SameData
<1>7. KernelGrows /\ (Drained' <=> Drained) BY <1>6, SameDataFacts
<1>8. Typed' BY <1>1, <1>2 DEF Typed
<1>9. Conveyed' BY <1>1, <1>2 DEF Conveyed
<1>10. "eof" \notin lrs' /\ (connected /\ "error" \in lrs' => Drained) BY <1>1, <1>2 DEF Flagged
<1> QED BY <1>2, <1>4, <1>5, <1>7, <1>8, <1>9, <1>10, TopFacts, Preserves

LEMMA ReadyErrorKeeps ==
  ASSUME NetInv, ReadyError
  PROVE  NetInv'
<1>1. Typed /\ Stacked /\ Flagged /\ Conveyed BY DEF NetInv
<1>2. /\ stack # <<>> /\ Top.f = "ready" /\ "error" \in lrs /\ lrs' = {}
      /\ kernel' = [kernel EXCEPT !.error = FALSE]
      /\ UNCHANGED <<granula, wrote, got, closes, sends>>
  BY DEF ReadyError, At, Runs, bounds
<1>3. kernel' \in Kernels /\ SameData /\ KernelGrows /\ (Drained' <=> Drained) BY <1>2, FetchFacts
<1>4. Pop \in Below BY DEF Below
<1>5. CASE sock # "open" \/ kernel.error
  <2>1. ChannelFailed(TRUE, Pop) BY <1>5 DEF ReadyError
  <2> QED BY <1>2, <1>3, <1>4, <2>1, FailedKeeps DEF SameData
<1>6. CASE ~(sock # "open" \/ kernel.error)
  <2>1. /\ stack' = <<Closing("peer")>> \o Pop
        /\ UNCHANGED <<alive, sock, handler, ready, connected, data, bufs, ending>>
    BY <1>6 DEF ReadyError, socket, buffer
  <2>2. /\ Good(Pop, connected) /\ ~AtPeer(Pop) /\ (HasClosed(Pop) <=> HasClosed(stack))
        /\ connected => ~AtEof(Pop)
    BY <1>1, <1>2, <1>4, PopFacts DEF Stacked
  <2>3. Closing("peer") \in Frames /\ Closing("peer").f = "close" BY FrameFacts
  <2>4. /\ Good(stack', connected) /\ (HasClosed(stack') <=> HasClosed(stack)) /\ ~AtEof(stack')
    BY <2>1, <2>2, <2>3, PushFacts DEF IsEof
  <2>5. connected => Drained BY <1>1, <1>2 DEF Flagged
  <2>6. Typed' BY <1>1, <1>2, <1>3, <2>1 DEF Typed
  <2>7. Conveyed' BY <1>1, <1>2, <1>3, <2>1 DEF Conveyed, SameData
  <2> QED BY <1>2, <1>3, <2>1, <2>4, <2>5, <2>6, <2>7, TopFacts, Preserves
<1> QED BY <1>5, <1>6

-----------------------------------------------------------------------------
(* The methods of the channel.                                               *)

(* failed() that leaves the channel as it is.                                *)
LEMMA TellKeeps ==
  ASSUME NetInv, UserCode, ChannelFailed(FALSE, stack), UNCHANGED lrs, granula' = granula,
         UNCHANGED <<kernel, wrote, got, closes>>
  PROVE  /\ UNCHANGED <<alive, sock, handler, ready, connected, lrs, data, bufs, kernel, wrote, got,
                        closes, ending>>
         /\ Good(stack', connected) /\ ~AtPeer(stack') /\ ~AtEof(stack')
         /\ HasClosed(stack') <=> HasClosed(stack)
<1>1. /\ stack' = <<User>> \o <<>> \o stack
      /\ UNCHANGED <<alive, sock, handler, ready, connected, data, bufs, ending>>
  BY DEF ChannelFailed, buffer
<1>2. Good(stack, connected) /\ ~AtPeer(stack) /\ ~AtEof(stack) BY UserFacts DEF NetInv, Stacked
<1>3. User \in Frames /\ User.f = "user" BY FrameFacts
<1>4. ~IsEof(User) /\ ~IsPeer(User) BY <1>3 DEF IsEof, IsPeer
<1>5. stack' = <<User>> \o stack
  <2>1. stack \in Seq(Frames) /\ <<User>> \in Seq(Frames) BY <1>2, <1>3 DEF Good
  <2> QED BY <1>1, <2>1, ConcatEmptySeq
<1> QED BY <1>1, <1>2, <1>3, <1>4, <1>5, PushFacts

LEMMA InvalidGranulaKeeps ==
  ASSUME NetInv, InvalidGranula
  PROVE  NetInv'
<1>1. UserCode /\ ChannelFailed(FALSE, stack) /\ sends' = sends
      /\ UNCHANGED <<lrs, granula, kernel, wrote, got, closes>>
  BY DEF InvalidGranula, UserCall
<1>2. granula' \in {0, 1} BY <1>1 DEF NetInv, Typed
<1> QED BY <1>1, <1>2, TellKeeps, UserFacts, PreservesCalls

LEMMA SendKeeps ==
  ASSUME NetInv, Send
  PROVE  NetInv'
<1>1. Typed /\ Stacked /\ Flagged /\ Conveyed BY DEF NetInv
<1>2. /\ UserCode /\ sends' = sends + 1 /\ UNCHANGED <<granula, kernel, wrote, got, closes>>
  BY DEF Send
<1>3. kernel' \in Kernels /\ SameData /\ kernel'.error = kernel.error
  BY <1>1, <1>2 DEF Typed, SameData
<1>4. KernelGrows /\ (Drained' <=> Drained) BY <1>3, SameDataFacts
<1>5. CASE connected
  <2> DEFINE b == "write" \in lrs
             p == IF b THEN Writes(FALSE, bufs') ELSE <<>>
  <2>1. /\ data' = Append(data, sends + 1)
        /\ bufs' = (IF BufsMin >= bufs THEN Enfill(data') ELSE bufs)
        /\ stack' = p \o stack
        /\ UNCHANGED <<connected, ending, alive, sock, handler, ready, lrs>>
    BY <1>5 DEF Send, socket
  <2>2. data \in Seq(Nat) /\ sends \in Nat /\ sends + 1 \in Nat BY <1>1 DEF Typed
  <2>3. data' \in Seq(Nat) /\ Len(data') = Len(data) + 1 BY <2>1, <2>2, AppendProperties
  <2>4. bufs' \in Nat /\ bufs' <= Len(data')
    <3>1. CASE BufsMin >= bufs BY <2>1, <2>3, <3>1, EnfillFacts
    <3>2. CASE ~(BufsMin >= bufs)
      <4>1. bufs' = bufs /\ bufs \in Nat /\ bufs <= Len(data) BY <1>1, <2>1, <3>2 DEF Typed
      <4> QED BY <2>2, <2>3, <4>1
    <3> QED BY <3>1, <3>2
  <2>5. Typed' BY <1>1, <1>2, <2>1, <2>2, <2>3, <2>4 DEF Typed
  <2>6. Good(stack, connected) /\ ~AtPeer(stack) /\ ~AtEof(stack) BY <1>1, <1>2, UserFacts DEF Stacked
  <2>7. Calls(p, stack, connected) BY <2>6, WritesFacts
  <2>8. /\ Good(stack', connected) /\ ~AtPeer(stack') /\ ~AtEof(stack')
        /\ HasClosed(stack') <=> HasClosed(stack)
    <3> HIDE DEF p
    <3> QED BY <2>1, <2>6, <2>7, CallFacts
  <2>9. Conveyed'
    <3>1. kernel.net # "reset" /\ ~kernel.shutOut => wrote \o data' = UpTo(sends')
      BY <1>1, <1>2, <1>5, <2>1, <2>2, AppendUpTo DEF Conveyed, Typed
    <3> QED BY <1>1, <1>2, <3>1 DEF Conveyed
  <2> QED BY <1>1, <1>2, <1>4, <2>1, <2>5, <2>8, <2>9, UserFacts, Preserves DEF Flagged
<1>6. CASE ~connected
  <2>1. UNCHANGED lrs /\ ChannelFailed(FALSE, stack) BY <1>6 DEF Send
  <2>2. /\ UNCHANGED <<alive, sock, handler, ready, connected, data, bufs, ending>>
        /\ Good(stack', connected) /\ ~AtPeer(stack') /\ ~AtEof(stack')
        /\ HasClosed(stack') <=> HasClosed(stack)
    BY <1>2, <2>1, TellKeeps
  <2>3. Typed' BY <1>1, <1>2, <2>1, <2>2 DEF Typed
  <2>4. Conveyed' BY <1>1, <1>2, <1>6, <2>2 DEF Conveyed
  <2> QED BY <1>1, <1>2, <1>4, <1>6, <2>1, <2>2, <2>3, <2>4, UserFacts, Preserves DEF Flagged
<1> QED BY <1>5, <1>6

LEMMA SetReceiveGranulaKeeps ==
  ASSUME NetInv, NEW g \in {0, 1}, SetReceiveGranula(g)
  PROVE  NetInv'
<1> DEFINE b == connected /\ granula = 0 /\ g > 0 /\ "read" \in lrs
           p == IF b THEN Reads ELSE <<>>
<1>1. /\ UserCode /\ stack' = p \o stack /\ granula' = g
      /\ UNCHANGED <<alive, sock, handler, ready, connected, lrs, data, bufs, kernel, wrote, got,
                     closes, ending, sends>>
  BY DEF SetReceiveGranula, UserCall, socket, buffer, history
<1>2. Good(stack, connected) /\ ~AtPeer(stack) /\ ~AtEof(stack)
  BY <1>1, UserFacts DEF NetInv, Stacked
<1>3. Calls(p, stack, connected)
  <2>1. b \in BOOLEAN OBVIOUS
  <2> HIDE DEF b
  <2> QED BY <2>1, ReadsFacts
<1> HIDE DEF p
<1>4. /\ Good(stack', connected) /\ ~AtPeer(stack') /\ ~AtEof(stack')
      /\ HasClosed(stack') <=> HasClosed(stack)
  BY <1>1, <1>2, <1>3, CallFacts
<1> QED BY <1>1, <1>4, UserFacts, PreservesCalls

LEMMA ShutdownKeeps ==
  ASSUME NetInv, NEW i \in BOOLEAN, NEW o \in BOOLEAN, Shutdown(i, o)
  PROVE  NetInv'
<1> DEFINE b == o /\ connected /\ "write" \in lrs
           p == IF b THEN Writes(TRUE, bufs) ELSE <<>>
           x == Shut(i, o)
           r == <<x>> \o stack
<1>1. /\ UserCode /\ stack' = p \o <<x>> \o stack /\ granula' = (IF i THEN 0 ELSE granula)
      /\ UNCHANGED <<alive, sock, handler, ready, connected, lrs, data, bufs, kernel, wrote, got,
                     closes, ending, sends>>
  BY DEF Shutdown, UserCall, socket, buffer, history
<1>2. Good(stack, connected) /\ ~AtPeer(stack) /\ ~AtEof(stack)
  BY <1>1, UserFacts DEF NetInv, Stacked
<1>3. x \in Frames /\ x.f = "shutdown" BY FrameFacts
<1>4. ~IsEof(x) /\ ~IsPeer(x) BY <1>3 DEF IsEof, IsPeer
<1>5. granula' \in {0, 1} BY <1>1 DEF NetInv, Typed
<1> HIDE DEF x
<1>6. ~AtEof(r) BY <1>2, <1>3, <1>4, PushFacts
<1>7. Calls(p, r, connected)
  <2>1. b \in BOOLEAN OBVIOUS
  <2> HIDE DEF b, r
  <2> QED BY <1>6, <2>1, WritesFacts
<1> HIDE DEF p
<1>8. /\ Good(stack', connected) /\ ~AtPeer(stack') /\ ~AtEof(stack')
      /\ HasClosed(stack') <=> HasClosed(stack)
  BY <1>1, <1>2, <1>3, <1>4, <1>7, TwoCalls
<1> QED BY <1>1, <1>5, <1>8, UserFacts, PreservesCalls

LEMMA CloseKeeps ==
  ASSUME NetInv, Close
  PROVE  NetInv'
<1> DEFINE b == connected /\ "write" \in lrs
           p == IF b THEN Writes(TRUE, bufs) ELSE <<>>
           x == Closing("user")
           r == <<x>> \o stack
<1>1. /\ UserCode /\ stack' = p \o <<x>> \o stack /\ granula' = granula
      /\ UNCHANGED <<alive, sock, handler, ready, connected, lrs, data, bufs, kernel, wrote, got,
                     closes, ending, sends>>
  BY DEF Close, UserCall, socket, buffer, history
<1>2. Good(stack, connected) /\ ~AtPeer(stack) /\ ~AtEof(stack)
  BY <1>1, UserFacts DEF NetInv, Stacked
<1>3. x \in Frames /\ x.f = "close" /\ x.by = "user" BY FrameFacts
<1>4. ~IsEof(x) /\ ~IsPeer(x) BY <1>3 DEF IsEof, IsPeer
<1>5. granula' \in {0, 1} BY <1>1 DEF NetInv, Typed
<1> HIDE DEF x
<1>6. ~AtEof(r) BY <1>2, <1>3, <1>4, PushFacts
<1>7. Calls(p, r, connected)
  <2>1. b \in BOOLEAN OBVIOUS
  <2> HIDE DEF b, r
  <2> QED BY <1>6, <2>1, WritesFacts
<1> HIDE DEF p
<1>8. /\ Good(stack', connected) /\ ~AtPeer(stack') /\ ~AtEof(stack')
      /\ HasClosed(stack') <=> HasClosed(stack)
  BY <1>1, <1>2, <1>3, <1>4, <1>7, TwoCalls
<1> QED BY <1>1, <1>5, <1>8, UserFacts, PreservesCalls

(* The channel is gone: dropped, or never connected.                         *)
LEMMA GoneKeeps ==
  ASSUME NetInv, alive' = FALSE, SockClosed, stack' = stack \/ stack' = <<>>,
         UNCHANGED <<connected, lrs, granula, data, bufs, kernel, wrote, got, closes, ending, sends>>
  PROVE  NetInv'
<1>1. Typed /\ Stacked /\ Told /\ Fresh /\ Flagged /\ Conveyed BY DEF NetInv
<1>2. sock' = "closed" /\ handler' = "none" /\ ready' = {} BY DEF SockClosed
<1>3. Good(stack', connected) BY <1>1, EmptyFacts DEF Stacked
<1>4. /\ HasClosed(stack') => HasClosed(stack)
      /\ AtEof(stack') => AtEof(stack)
      /\ AtPeer(stack') => AtPeer(stack)
  BY EmptyFacts
<1>5. Typed' BY <1>1, <1>2 DEF Typed
<1>6. Stacked' BY <1>3 DEF Stacked
<1>7. Told' BY <1>1, <1>4 DEF Told
<1>8. Fresh' BY <1>2 DEF Fresh
<1>9. Flagged' BY <1>1, <1>2, <1>4 DEF Flagged, Drained, Eof
<1>10. Conveyed' BY <1>1 DEF Conveyed
<1> QED BY <1>5, <1>6, <1>7, <1>8, <1>9, <1>10 DEF NetInv

LEMMA NewKernelFacts ==
  ASSUME NEW n \in Nets
  PROVE  LET k == NewKernel(n)
         IN  /\ k \in Kernels /\ k.net = n /\ k.inq = <<>> /\ k.sent = 0
             /\ k.error = FALSE /\ k.shutIn = FALSE /\ k.shutOut = FALSE
<1>1. Room \in Nat /\ <<>> \in Seq(Nat) BY NetAssumption
<1> QED BY <1>1 DEF NewKernel, Kernels

LEMMA NothingYet == <<>> \o <<>> = UpTo(0)
<1>1. <<>> \in Seq(Nat) /\ Len(<<>>) = 0 OBVIOUS
<1>2. <<>> \o <<>> = <<>> BY <1>1, ConcatEmptySeq
<1>3. UpTo(0) \in Seq(Nat) /\ Len(UpTo(0)) = 0 BY UpToNext
<1>4. UpTo(0) = <<>> BY <1>3
<1> QED BY <1>2, <1>4

(* A connection has been made.                                               *)
LEMMA MadeKeeps ==
  ASSUME Typed', stack' = <<User>>, connected' = TRUE, ending' = "no", closes' = 0,
         sock' = "open", handler' = "connected", ready' = {}, "eof" \notin lrs', "error" \notin lrs',
         kernel'.error => kernel'.net = "reset", data' = <<>>, wrote' = <<>>, sends' = 0,
         got' \o kernel'.inq = UpTo(kernel'.sent)
  PROVE  NetInv'
<1>1. User \in Frames /\ User.f = "user" /\ ~IsEof(User) /\ ~IsPeer(User)
  BY FrameFacts DEF IsEof, IsPeer
<1>2. Good(stack', connected') /\ ~HasClosed(stack') /\ ~AtEof(stack') /\ ~AtPeer(stack')
  BY <1>1, SingleFacts
<1>3. Stacked' BY <1>2 DEF Stacked
<1>4. Told' BY <1>2 DEF Told
<1>5. Fresh' BY DEF Fresh
<1>6. Flagged' BY <1>2 DEF Flagged
<1>7. Conveyed' BY NothingYet DEF Conveyed
<1> QED BY <1>3, <1>4, <1>5, <1>6, <1>7 DEF NetInv

(* There is no connection yet.                                               *)
LEMMA UnconnectedKeeps ==
  ASSUME Typed', stack' = <<>>, connected' = FALSE, ending' = "no", closes' = 0,
         \/ sock' = "none" /\ handler' = "none"
         \/ sock' = "open" /\ handler' = "connect",
         ready' = {}, lrs' = {}, kernel'.error = FALSE, data' = <<>>, wrote' = <<>>, sends' = 0,
         got' = <<>>, kernel'.inq = <<>>, kernel'.sent = 0
  PROVE  NetInv'
<1>1. Good(stack', connected') /\ ~HasClosed(stack') /\ ~AtEof(stack') /\ ~AtPeer(stack')
  BY EmptyFacts
<1>2. Stacked' BY <1>1 DEF Stacked
<1>3. Told' BY <1>1 DEF Told
<1>4. Fresh' BY DEF Fresh
<1>5. Flagged' BY <1>1 DEF Flagged
<1>6. Conveyed' BY NothingYet DEF Conveyed
<1> QED BY <1>2, <1>3, <1>4, <1>5, <1>6 DEF NetInv

LEMMA ConnectKeeps ==
  ASSUME NetInv, Connect
  PROVE  NetInv'
<1>1. Typed /\ Told /\ Fresh /\ Flagged /\ Conveyed BY DEF NetInv
<1>2. /\ sock = "none" /\ UNCHANGED <<lrs, granula, data, bufs, wrote, got, closes, ending, sends>>
  BY DEF Connect, buffer, history, bounds
<1>3. /\ ~connected /\ ending = "no" /\ stack = <<>> /\ lrs = {} /\ ready = {} /\ closes = 0
      /\ data = <<>> /\ wrote = <<>> /\ got = <<>> /\ sends = 0
  BY <1>1, <1>2 DEF Fresh, Told
<1>4. CASE /\ sock' = "open" /\ handler' = "connected" /\ connected' = TRUE
           /\ kernel' = NewKernel("open")
           /\ stack' = <<User>>
           /\ UNCHANGED <<alive, ready>>
  <2>1. /\ kernel' \in Kernels /\ kernel'.inq = <<>> /\ kernel'.sent = 0 /\ kernel'.error = FALSE
    BY <1>4, NewKernelFacts DEF Nets
  <2>2. Typed' BY <1>1, <1>2, <1>4, <2>1 DEF Typed
  <2> QED BY <1>2, <1>3, <1>4, <2>1, <2>2, NothingYet, MadeKeeps
<1>5. CASE /\ sock' = "open" /\ handler' = "connect"
           /\ kernel' = NewKernel("syn")
           /\ UNCHANGED <<alive, ready, connected, stack>>
  <2>1. /\ kernel' \in Kernels /\ kernel'.inq = <<>> /\ kernel'.sent = 0 /\ kernel'.error = FALSE
    BY <1>5, NewKernelFacts DEF Nets
  <2>2. Typed' BY <1>1, <1>2, <1>5, <2>1 DEF Typed
  <2>3. connected' = FALSE BY <1>1, <1>3, <1>5 DEF Typed
  <2> QED BY <1>2, <1>3, <1>5, <2>1, <2>2, <2>3, UnconnectedKeeps
<1>6. CASE alive' = FALSE /\ SockClosed /\ UNCHANGED <<connected, kernel, stack>>
  BY <1>2, <1>6, GoneKeeps
<1> QED BY <1>4, <1>5, <1>6 DEF Connect

-----------------------------------------------------------------------------
(* The event loop.                                                           *)

LEMMA ConnectSockReadyKeeps ==
  ASSUME NetInv, ConnectSockReady
  PROVE  NetInv'
<1>1. Typed /\ Told /\ Fresh /\ Flagged /\ Conveyed BY DEF NetInv
<1>2. /\ handler = "connect"
      /\ UNCHANGED <<granula, data, bufs, kernel, wrote, got, closes, ending, sends>>
  BY DEF ConnectSockReady, buffer, history, bounds
<1>3. CASE {"error", "eof"} \intersect ready # {}
  <2>1. alive' = FALSE /\ SockClosed /\ UNCHANGED <<connected, lrs, stack>>
    BY <1>3 DEF ConnectSockReady
  <2> QED BY <1>2, <2>1, GoneKeeps
<1>4. CASE {"error", "eof"} \intersect ready = {}
  <2>1. /\ connected' = TRUE /\ lrs' = lrs \union ready /\ handler' = "connected" /\ ready' = {}
        /\ stack' = <<User>> /\ UNCHANGED <<alive, sock>>
    BY <1>4 DEF ConnectSockReady
  <2>2. /\ sock = "open" /\ ending = "no" /\ closes = 0 /\ lrs = {}
        /\ data = <<>> /\ wrote = <<>> /\ sends = 0
    BY <1>1, <1>2 DEF Fresh, Told
  <2>3. "eof" \notin lrs' /\ "error" \notin lrs' BY <1>4, <2>1, <2>2
  <2>4. Typed' BY <1>1, <1>2, <2>1 DEF Typed
  <2>5. kernel'.error => kernel'.net = "reset" BY <1>1, <1>2 DEF Flagged
  <2>6. got' \o kernel'.inq = UpTo(kernel'.sent) BY <1>1, <1>2 DEF Conveyed
  <2> QED BY <1>2, <2>1, <2>2, <2>3, <2>4, <2>5, <2>6, MadeKeeps
<1> QED BY <1>3, <1>4

LEMMA PollKeeps ==
  ASSUME NetInv, Poll
  PROVE  NetInv'
<1>1. Typed /\ Stacked /\ Told /\ Fresh /\ Flagged /\ Conveyed BY DEF NetInv
<1>2. /\ sock = "open" /\ ready' = ready \union Mask
      /\ kernel' = [kernel EXCEPT !.edge = FALSE, !.nospace = kernel.nospace \/ kernel.room = 0]
      /\ UNCHANGED <<alive, sock, handler, connected, lrs, granula, data, bufs, stack, wrote, got,
                     closes, ending, sends>>
  BY DEF Poll, buffer, history, bounds
<1>3. kernel' \in Kernels /\ SameData /\ kernel'.error = kernel.error
  <2> DEFINE b == kernel.nospace \/ kernel.room = 0
  <2>1. kernel \in Kernels /\ b \in BOOLEAN BY <1>1 DEF Typed, Kernels
  <2> HIDE DEF b
  <2>2. kernel' = [kernel EXCEPT !.edge = FALSE, !.nospace = b] BY <1>2 DEF b
  <2> QED BY <2>1, <2>2 DEF Kernels, SameData
<1>4. (Drained' <=> Drained) /\ (Eof' <=> Eof) BY <1>3, SameDataFacts
<1>5. /\ Mask \subseteq Flags
      /\ "eof" \in Mask => Eof /\ "read" \in Mask
      /\ "error" \in Mask => kernel.error
  BY DEF Mask, Flags
<1>6. Typed' BY <1>1, <1>2, <1>3, <1>5 DEF Typed
<1>7. Stacked' /\ Told' /\ Fresh' BY <1>1, <1>2 DEF Stacked, Told, Fresh
<1>8. Flagged'
  <2>1. /\ "eof" \in ready' => Eof' /\ "read" \in ready'
        /\ "error" \in ready' => Drained'
    BY <1>1, <1>2, <1>4, <1>5 DEF Flagged, Drained
  <2> QED BY <1>1, <1>2, <1>3, <1>4, <2>1 DEF Flagged, SameData
<1>9. Conveyed' BY <1>1, <1>2, <1>3 DEF Conveyed, SameData
<1> QED BY <1>6, <1>7, <1>8, <1>9 DEF NetInv

LEMMA SockReadyKeeps ==
  ASSUME NetInv, SockReady
  PROVE  NetInv'
<1>1. Typed /\ Stacked /\ Told /\ Fresh /\ Flagged /\ Conveyed BY DEF NetInv
<1>2. /\ stack = <<>> /\ handler = "connected" /\ lrs' = lrs \union ready /\ ready' = {}
      /\ stack' = <<Ready("write", FALSE)>>
      /\ UNCHANGED <<alive, sock, handler, connected, granula, data, bufs, kernel, wrote, got,
                     closes, ending, sends>>
  BY DEF SockReady, buffer, history, bounds
<1>3. Good(stack', connected) /\ ~HasClosed(stack') /\ ~AtPeer(stack') /\ ~AtEof(stack')
  <2> DEFINE x == Ready("write", FALSE)
  <2>1. x \in Frames /\ x.f = "ready" /\ x.at = "write" BY FrameFacts
  <2>2. ~IsEof(x) /\ ~IsPeer(x) BY <2>1 DEF IsEof, IsPeer
  <2> HIDE DEF x
  <2> QED BY <1>2, <2>1, <2>2, SingleFacts DEF x
<1>4. ~HasClosed(stack) BY <1>2, EmptyFacts
<1>5. Typed' BY <1>1, <1>2 DEF Typed
<1>6. Stacked' BY <1>2, <1>3 DEF Stacked
<1>7. Told' BY <1>1, <1>2, <1>3, <1>4 DEF Told
<1>8. Fresh' BY <1>1, <1>2 DEF Fresh
<1>9. Flagged'
  <2>1. (Drained' <=> Drained) /\ (Eof' <=> Eof) BY <1>2 DEF Drained, Eof
  <2>2. /\ connected /\ "eof" \in lrs' => Eof /\ ("read" \in lrs' \/ Drained)
        /\ connected /\ "error" \in lrs' => Drained
    BY <1>1, <1>2 DEF Flagged
  <2> QED BY <1>1, <1>2, <1>3, <2>1, <2>2 DEF Flagged
<1>10. Conveyed' BY <1>1, <1>2 DEF Conveyed
<1> QED BY <1>5, <1>6, <1>7, <1>8, <1>9, <1>10 DEF NetInv

-----------------------------------------------------------------------------
(* The theorems.                                                             *)

LEMMA InitHolds == Init => NetInv
<1> SUFFICES ASSUME Init PROVE NetInv OBVIOUS
<1>1. /\ kernel \in Kernels /\ kernel.inq = <<>> /\ kernel.sent = 0 /\ kernel.error = FALSE
  BY NewKernelFacts DEF Init, Nets
<1>2. /\ lrs = {} /\ ready = {} /\ data = <<>> /\ bufs = 0 /\ wrote = <<>> /\ got = <<>>
      /\ closes = 0 /\ ending = "no" /\ sends = 0
      /\ \/ sock = "open" /\ handler = "connected" /\ connected = TRUE /\ stack = <<User>>
         \/ sock = "none" /\ handler = "none" /\ connected = FALSE /\ stack = <<>>
  BY DEF Init
<1>3. User \in Frames /\ User.f = "user" /\ ~IsEof(User) /\ ~IsPeer(User)
  BY FrameFacts DEF IsEof, IsPeer
<1>4. Good(stack, connected) /\ ~HasClosed(stack) /\ ~AtEof(stack) /\ ~AtPeer(stack)
  BY <1>2, <1>3, SingleFacts, EmptyFacts
<1>5. Typed
  <2>1. <<>> \in Seq(Nat) /\ Len(<<>>) = 0 OBVIOUS
  <2> QED BY <1>1, <1>2, <2>1 DEF Typed, Init
<1>6. Stacked BY <1>4 DEF Stacked
<1>7. Told BY <1>2, <1>4 DEF Told
<1>8. Fresh BY <1>2 DEF Fresh
<1>9. Flagged BY <1>1, <1>2, <1>4 DEF Flagged
<1>10. Conveyed BY <1>1, <1>2, NothingYet DEF Conveyed
<1> QED BY <1>5, <1>6, <1>7, <1>8, <1>9, <1>10 DEF NetInv

LEMMA StutterKeeps == NetInv /\ UNCHANGED vars => NetInv'
BY DEF vars, NetInv, Typed, Stacked, Told, Fresh, Flagged, Conveyed, Drained, Eof

LEMMA NextKeeps == NetInv /\ [Next]_vars => NetInv'
<1> SUFFICES ASSUME NetInv, [Next]_vars PROVE NetInv' OBVIOUS
<1>1. CASE UNCHANGED vars BY <1>1, StutterKeeps
<1>2. CASE Peer BY <1>2, PeerKeeps
<1>3. CASE Methods
  <2>1. CASE Drop
    BY <2>1, GoneKeeps DEF Drop, buffer, history, bounds
  <2>2. CASE CancelConnect
    BY <2>2, GoneKeeps DEF CancelConnect, buffer, history, bounds
  <2>3. CASE Send \/ InvalidGranula \/ Close \/ Connect
    BY <2>3, SendKeeps, InvalidGranulaKeeps, CloseKeeps, ConnectKeeps
  <2>4. CASE \E g \in {0, 1} : SetReceiveGranula(g) BY <2>4, SetReceiveGranulaKeeps
  <2>5. CASE Shutdown(TRUE, FALSE) \/ Shutdown(FALSE, TRUE) \/ Shutdown(TRUE, TRUE)
    BY <2>5, ShutdownKeeps
  <2> QED BY <1>3, <2>1, <2>2, <2>3, <2>4, <2>5 DEF Methods
<1>4. CASE Inside
  BY <1>4, ReturnKeeps, EmitClosedKeeps, WriteSomeKeeps, WriteAgainKeeps, WriteFailsKeeps,
     WriteEndsKeeps, ReadSomeKeeps, ReadAgainKeeps, ReadEofKeeps, ReadFailsKeeps, ReadEndsKeeps,
     CloseEndsKeeps, ShutdownEndsKeeps, ReadyErrorKeeps, ReadyWriteKeeps, ReadyReadKeeps,
     ReadyEofKeeps
     DEF Inside
<1>5. CASE Loop BY <1>5, PollKeeps, ConnectSockReadyKeeps, SockReadyKeeps DEF Loop
<1> QED BY <1>1, <1>2, <1>3, <1>4, <1>5 DEF Next

(* The flags that the channel remembers agree with the kernel, whatever the  *)
(* user's handlers call and whenever the kernel moves: what the proofs of    *)
(* the properties below rest on.                                             *)
THEOREM ChannelInvariant == Spec => []NetInv
BY InitHolds, NextKeeps, PTL DEF Spec

(* The end of a connection is told by closed() exactly once, although        *)
(* close(), an error of a write or a read, and the end of the peer may come  *)
(* one inside the handlers of another.                                       *)
THEOREM AlwaysClosedOnce == Spec => []ClosedOnce
<1>1. NetInv => ClosedOnce
  BY EmptyFacts DEF NetInv, Typed, Told, ClosedOnce
<1> QED BY <1>1, ChannelInvariant, PTL

(* Data passes through the channel in order, whole and once in both          *)
(* directions, and a channel that the peer has closed has handed over        *)
(* everything unless receiving was off.                                      *)
THEOREM NothingEverLost == Spec => []NothingLost
<1>1. NetInv => NothingLost
  <2> SUFFICES ASSUME NetInv PROVE NothingLost OBVIOUS
  <2>1. ASSUME ending = "peer", kernel.net = "fin", ~kernel.shutIn PROVE Len(got) = kernel.sent
    <3>1. kernel.inq = <<>> BY <2>1 DEF NetInv, Flagged, Drained
    <3>2. got \in Seq(Nat) /\ kernel.sent \in Nat BY DEF NetInv, Typed, Kernels
    <3>3. got \o <<>> = got BY <3>2, ConcatEmptySeq
    <3>4. got = UpTo(kernel.sent) BY <3>1, <3>3 DEF NetInv, Conveyed
    <3> QED BY <3>2, <3>4, UpToNext
  <2> QED BY <2>1 DEF NetInv, Conveyed, NothingLost, UpTo
<1> QED BY <1>1, ChannelInvariant, PTL

-----------------------------------------------------------------------------
(* The registry.                                                             *)

(* Only elements are satisfied, so that what is let go has an element whose  *)
(* priority can be recomputed.                                               *)
SatisfiedListed == \A i \in Ids : sat[i] > 0 => i \in elements

RegistryInv == RegistryTypeOK /\ PrioritiesFollow /\ SatisfiedListed

(* The priority that an element calls for stays as it is if it was called to *)
(* be zero and is again, or if neither its needs nor what it has of          *)
(* satisfactions and bans has changed.                                       *)
LEMMA SamePriority ==
  ASSUME NEW i \in Ids,
         \/ (sat[i] > 0 \/ bans[i] > 0) /\ (sat'[i] > 0 \/ bans'[i] > 0)
         \/ /\ sat'[i] = sat[i] /\ bans'[i] = bans[i]
            /\ NeedOf(i)' = NeedOf(i)
            /\ \A h \in NeedOf(i) : need'[h] = need[h]
  PROVE  UpdatePriority(i)' = UpdatePriority(i)
<1>1. CASE (sat[i] > 0 \/ bans[i] > 0) /\ (sat'[i] > 0 \/ bans'[i] > 0)
  BY <1>1 DEF UpdatePriority
<1>2. CASE /\ sat'[i] = sat[i] /\ bans'[i] = bans[i]
           /\ NeedOf(i)' = NeedOf(i)
           /\ \A h \in NeedOf(i) : need'[h] = need[h]
  <2>1. [h \in NeedOf(i)' |-> need'[h].weight] = [h \in NeedOf(i) |-> need[h].weight]
    BY <1>2
  <2> QED BY <1>2, <2>1 DEF UpdatePriority
<1> QED BY <1>1, <1>2

(* Needs of other peers are not touched by what one holder does.             *)
LEMMA OtherNeeds ==
  ASSUME NEW h \in Needers, NEW i \in Ids,
         \A k \in Needers : k # h => need'[k] = need[k],
         need[h] = NoNeed \/ need[h].id # i, need'[h] = NoNeed \/ need'[h].id # i
  PROVE  NeedOf(i)' = NeedOf(i) /\ \A k \in NeedOf(i) : need'[k] = need[k]
BY DEF NeedOf

LEMMA NeedKeeps ==
  ASSUME RegistryInv, NEW h \in Needers, NEW i \in Ids, NEW w \in Weights, Need(h, i, w)
  PROVE  RegistryInv'
<1>1. RegistryTypeOK'
  BY DEF RegistryInv, RegistryTypeOK, Need, Changed
<1>2. SatisfiedListed'
  BY DEF RegistryInv, SatisfiedListed, Need
<1>3. ASSUME NEW k \in elements' \ changed' PROVE priority'[k] = UpdatePriority(k)'
  <2>1. k \in elements \ changed /\ k # i /\ k \in Ids
    BY <1>3 DEF RegistryInv, RegistryTypeOK, Need, Changed
  <2>2. /\ \A g \in Needers : g # h => need'[g] = need[g]
        /\ need[h] = NoNeed /\ need'[h].id = i
    BY DEF RegistryInv, RegistryTypeOK, Need
  <2>3. UpdatePriority(k)' = UpdatePriority(k)
    BY <2>1, <2>2, OtherNeeds, SamePriority DEF Need
  <2> QED BY <2>1, <2>3 DEF RegistryInv, PrioritiesFollow, Need
<1>4. PrioritiesFollow'
  BY <1>3 DEF RegistryInv, RegistryTypeOK, PrioritiesFollow, Need, Changed
<1> QED BY <1>1, <1>2, <1>4 DEF RegistryInv

LEMMA ReweightKeeps ==
  ASSUME RegistryInv, NEW h \in Needers, NEW w \in Weights, Reweight(h, w)
  PROVE  RegistryInv'
<1>1. need[h].id \in elements /\ need[h] \in [id : elements, weight : Weights]
  BY DEF RegistryInv, RegistryTypeOK, Reweight
<1>2. need'[h] = [need[h] EXCEPT !.weight = w] /\ \A g \in Needers : g # h => need'[g] = need[g]
  BY DEF RegistryInv, RegistryTypeOK, Reweight
<1>3. need'[h] \in [id : elements, weight : Weights] /\ need'[h].id = need[h].id
  BY <1>1, <1>2
<1>4. RegistryTypeOK'
  BY <1>1, <1>3 DEF RegistryInv, RegistryTypeOK, Reweight, Changed
<1>5. SatisfiedListed'
  BY DEF RegistryInv, SatisfiedListed, Reweight
<1>6. ASSUME NEW k \in elements' \ changed' PROVE priority'[k] = UpdatePriority(k)'
  <2>1. k \in elements \ changed /\ k # need[h].id /\ k \in Ids
    BY <1>6 DEF RegistryInv, RegistryTypeOK, Reweight, Changed
  <2>2. UpdatePriority(k)' = UpdatePriority(k)
    BY <1>2, <1>3, <2>1, OtherNeeds, SamePriority DEF Reweight
  <2> QED BY <2>1, <2>2 DEF RegistryInv, PrioritiesFollow, Reweight
<1>7. PrioritiesFollow'
  BY <1>6 DEF RegistryInv, RegistryTypeOK, PrioritiesFollow, Reweight, Changed
<1> QED BY <1>4, <1>5, <1>7 DEF RegistryInv

LEMMA DropNeedKeeps ==
  ASSUME RegistryInv, NEW h \in Needers, DropNeed(h)
  PROVE  RegistryInv'
<1>1. need[h].id \in elements
  BY DEF RegistryInv, RegistryTypeOK, DropNeed
<1>2. need'[h] = NoNeed /\ \A g \in Needers : g # h => need'[g] = need[g]
  BY DEF RegistryInv, RegistryTypeOK, DropNeed
<1>3. RegistryTypeOK'
  BY <1>1 DEF RegistryInv, RegistryTypeOK, DropNeed, Changed
<1>4. SatisfiedListed'
  BY DEF RegistryInv, SatisfiedListed, DropNeed
<1>5. ASSUME NEW k \in elements' \ changed' PROVE priority'[k] = UpdatePriority(k)'
  <2>1. k \in elements \ changed /\ k # need[h].id /\ k \in Ids
    BY <1>5 DEF RegistryInv, RegistryTypeOK, DropNeed, Changed
  <2>2. UpdatePriority(k)' = UpdatePriority(k)
    BY <1>2, <2>1, OtherNeeds, SamePriority DEF DropNeed
  <2> QED BY <2>1, <2>2 DEF RegistryInv, PrioritiesFollow, DropNeed
<1>6. PrioritiesFollow'
  BY <1>5 DEF RegistryInv, RegistryTypeOK, PrioritiesFollow, DropNeed, Changed
<1> QED BY <1>3, <1>4, <1>6 DEF RegistryInv

(* A ban counts on the satisfaction of its peer: the priority is zero before *)
(* and after, so that no recomputation is due.                               *)
LEMMA FailKeeps ==
  ASSUME RegistryInv, NEW i \in Ids, Fail(i)
  PROVE  RegistryInv'
<1>1. sat[i] > 0 /\ i \in elements /\ bans[i] \in Nat /\ bans'[i] = bans[i] + 1
  BY DemandAssumption DEF RegistryInv, RegistryTypeOK, SatisfiedListed, Fail
<1>2. \A k \in Ids : k # i => bans'[k] = bans[k]
  BY DEF RegistryInv, RegistryTypeOK, Fail
<1>3. RegistryTypeOK'
  BY <1>1, DemandAssumption DEF RegistryInv, RegistryTypeOK, Fail
<1>4. SatisfiedListed'
  BY DEF RegistryInv, SatisfiedListed, Fail
<1>5. ASSUME NEW k \in elements' \ changed' PROVE priority'[k] = UpdatePriority(k)'
  <2>1. k \in elements \ changed /\ k \in Ids
    BY <1>5 DEF RegistryInv, RegistryTypeOK, Fail
  <2>2. NeedOf(k)' = NeedOf(k) BY DEF NeedOf, Fail
  <2>3. UpdatePriority(k)' = UpdatePriority(k)
    BY <1>1, <1>2, <2>1, <2>2, SamePriority DEF Fail
  <2> QED BY <2>1, <2>3 DEF RegistryInv, PrioritiesFollow, Fail
<1>6. \A k \in Ids : bans'[k] > 0 <=> k \in ban'
  BY <1>1, <1>2 DEF RegistryInv, PrioritiesFollow, Fail
<1>7. PrioritiesFollow'
  BY <1>5, <1>6 DEF RegistryInv, RegistryTypeOK, PrioritiesFollow, Fail
<1> QED BY <1>3, <1>4, <1>7 DEF RegistryInv

LEMMA FlushKeeps ==
  ASSUME RegistryInv, FlushChanges
  PROVE  RegistryInv'
<1>1. RegistryTypeOK' /\ SatisfiedListed'
  BY DEF RegistryInv, RegistryTypeOK, SatisfiedListed, FlushChanges
<1>2. ASSUME NEW k \in elements' PROVE priority'[k] = UpdatePriority(k)'
  <2>1. k \in elements /\ k \in Ids
    BY <1>2 DEF RegistryInv, RegistryTypeOK, FlushChanges
  <2>2. NeedOf(k)' = NeedOf(k) BY DEF NeedOf, FlushChanges
  <2>3. UpdatePriority(k)' = UpdatePriority(k)
    BY <2>1, <2>2, SamePriority DEF FlushChanges
  <2> QED BY <2>1, <2>3 DEF RegistryInv, PrioritiesFollow, FlushChanges
<1>3. PrioritiesFollow'
  BY <1>2 DEF RegistryInv, PrioritiesFollow, FlushChanges
<1> QED BY <1>1, <1>3 DEF RegistryInv

(* Bans that are over are a change when they were the last of their peer,    *)
(* and the peer that is offered is one in any case.                          *)
LEMMA MakeSatisfiesKeeps ==
  ASSUME RegistryInv, NEW i \in Ids \cup {Nobody}, NEW left \in [Ids -> 0..MaxBans],
         MakeSatisfies(i, left)
  PROVE  RegistryInv'
<1>1. i \in elements \/ i = Nobody
  BY DEF MakeSatisfies, Sample
<1>2. \A k \in Ids : sat[k] \in Nat /\ bans[k] \in Nat /\ left[k] \in Nat /\ left[k] <= bans[k]
  BY DemandAssumption DEF RegistryInv, RegistryTypeOK, MakeSatisfies
<1>3. sat' \in [Ids -> 0..MaxSats] /\ \A k \in Ids : k # i => sat'[k] = sat[k]
  BY DemandAssumption DEF RegistryInv, RegistryTypeOK, MakeSatisfies
<1>4. RegistryTypeOK'
  BY <1>1, <1>3 DEF RegistryInv, RegistryTypeOK, MakeSatisfies, Changed
<1>5. SatisfiedListed'
  BY <1>1, <1>3, DemandAssumption DEF RegistryInv, SatisfiedListed, MakeSatisfies
<1>6. ASSUME NEW k \in elements' \ changed' PROVE priority'[k] = UpdatePriority(k)'
  <2>1. k \in elements \ changed /\ k \in Ids /\ k # i
    BY <1>6, DemandAssumption DEF RegistryInv, RegistryTypeOK, MakeSatisfies, Changed
  <2>2. NeedOf(k)' = NeedOf(k) BY DEF NeedOf, MakeSatisfies
  <2>3. bans'[k] = bans[k] \/ (bans[k] > 0 /\ bans'[k] > 0)
    BY <1>2, <1>6, <2>1 DEF RegistryInv, PrioritiesFollow, MakeSatisfies, Changed
  <2>4. UpdatePriority(k)' = UpdatePriority(k)
    BY <1>3, <2>1, <2>2, <2>3, SamePriority DEF MakeSatisfies
  <2> QED BY <2>1, <2>4 DEF RegistryInv, PrioritiesFollow, MakeSatisfies
<1>7. \A k \in Ids : bans'[k] > 0 <=> k \in ban'
  BY <1>2 DEF RegistryInv, PrioritiesFollow, MakeSatisfies
<1>8. PrioritiesFollow'
  BY <1>6, <1>7 DEF RegistryInv, RegistryTypeOK, PrioritiesFollow, MakeSatisfies, Changed
<1> QED BY <1>4, <1>5, <1>8 DEF RegistryInv


(* Satisfactions that are let go are changes of their elements.              *)
LEMMA ReleaseKeeps ==
  ASSUME RegistryInv, NEW held \in [Ids -> 0..MaxSats], \A k \in Ids : held[k] <= sat[k],
         Release(held), UNCHANGED <<elements, need, bans, ban, priority, ticking, life>>
  PROVE  RegistryInv'
<1>1. \A k \in Ids : sat[k] \in Nat /\ held[k] \in Nat
  BY DemandAssumption DEF RegistryInv, RegistryTypeOK
<1>2. \A k \in Ids : held[k] # sat[k] => k \in elements
  BY <1>1 DEF RegistryInv, SatisfiedListed
<1>3. RegistryTypeOK'
  BY <1>2 DEF RegistryInv, RegistryTypeOK, Release, Changed
<1>4. SatisfiedListed'
  BY <1>1 DEF RegistryInv, SatisfiedListed, Release
<1>5. ASSUME NEW k \in elements' \ changed' PROVE priority'[k] = UpdatePriority(k)'
  <2>1. k \in elements \ changed /\ k \in Ids /\ sat'[k] = sat[k]
    BY <1>5 DEF RegistryInv, RegistryTypeOK, Release, Changed
  <2>2. NeedOf(k)' = NeedOf(k) BY DEF NeedOf
  <2>3. UpdatePriority(k)' = UpdatePriority(k)
    BY <2>1, <2>2, SamePriority
  <2> QED BY <2>1, <2>3 DEF RegistryInv, PrioritiesFollow
<1>6. PrioritiesFollow'
  BY <1>5 DEF RegistryInv, RegistryTypeOK, PrioritiesFollow, Release, Changed
<1> QED BY <1>3, <1>4, <1>6 DEF RegistryInv

LEMMA RegistryStopKeeps ==
  ASSUME RegistryInv, Stop
  PROVE  RegistryInv'
<1>1. \A k \in Ids : sat[k] \in Nat
  BY DemandAssumption DEF RegistryInv, RegistryTypeOK
<1>2. RegistryTypeOK'
  <2>1. changed' \subseteq elements'
    BY DEF RegistryInv, RegistryTypeOK, SatisfiedListed, Stop
  <2>2. sat' \in [Ids -> 0..MaxSats]
    BY DemandAssumption DEF Stop
  <2>3. flush' \in BOOLEAN BY DEF Stop
  <2> QED BY <2>1, <2>2, <2>3 DEF RegistryInv, RegistryTypeOK, Stop
<1>3. SatisfiedListed'
  BY DEF SatisfiedListed, Stop
<1>4. ASSUME NEW k \in elements' \ changed' PROVE priority'[k] = UpdatePriority(k)'
  <2>1. k \in elements \ changed /\ k \in Ids /\ sat'[k] = sat[k]
    BY <1>1, <1>4 DEF RegistryInv, RegistryTypeOK, Stop
  <2>2. NeedOf(k)' = NeedOf(k) BY DEF NeedOf, Stop
  <2>3. UpdatePriority(k)' = UpdatePriority(k)
    BY <2>1, <2>2, SamePriority DEF Stop
  <2> QED BY <2>1, <2>3 DEF RegistryInv, PrioritiesFollow, Stop
<1>5. PrioritiesFollow'
  BY <1>4 DEF RegistryInv, PrioritiesFollow, Stop
<1> QED BY <1>2, <1>3, <1>5 DEF RegistryInv

LEMMA RegistryFrame ==
  ASSUME RegistryInv, UNCHANGED <<elements, need, sat, bans, ban, changed, priority, flush>>,
         ticking' \in {ticking, TRUE}, life' = life \/ (life' = "started" /\ life = "setup")
  PROVE  RegistryInv'
<1>1. RegistryTypeOK' /\ SatisfiedListed'
  BY DEF RegistryInv, RegistryTypeOK, SatisfiedListed
<1>2. ASSUME NEW k \in Ids PROVE UpdatePriority(k)' = UpdatePriority(k)
  <2>1. NeedOf(k)' = NeedOf(k) BY DEF NeedOf
  <2> QED BY <2>1, SamePriority
<1>3. PrioritiesFollow'
  BY <1>2 DEF RegistryInv, RegistryTypeOK, PrioritiesFollow
<1> QED BY <1>1, <1>3 DEF RegistryInv

-----------------------------------------------------------------------------
(* The sessions.                                                             *)

(* Listeners are told of a session exactly when its task begins, and then    *)
(* not that it is closed before the task and the link are through.           *)
TasksTold ==
  /\ \A w \in Sessions :
       /\ task[w] = "spawned" => w \notin opened
       /\ task[w] \in {"connecting", "shaking", "joined"} => w \in opened
       /\ task[w] # "none" => closings[w] = 0
       /\ closings[w] \in {0, 1}
       /\ w \in opened /\ task[w] = "none" /\ life = "started" => closings[w] = 1
  /\ life # "started" => \A w \in Sessions : task[w] = "none"
  /\ life = "setup" => opened = {}

(* A link is up only from the end of the handshake on, under a task that has *)
(* yet to hear of it or has passed it on.                                    *)
LinksHeld ==
  \A w \in Sessions :
    /\ link[w] # Down => task[w] = "joined" \/ (task[w] = "shaking" /\ future[w] = "ok")
    /\ task[w] = "joined" => link[w] # Down

(* An address is marked only while somebody connects to it: the worker that  *)
(* leaves because of the mark leaves those who wait to that one.             *)
MarksHeld ==
  \A i \in inProgress : \E w \in Sessions : expects[w] = i /\ task[w] = "connecting"

SessionsInv == NodeTypeOK /\ TasksTold /\ LinksHeld /\ MarksHeld

LEMMA SpawnedKeeps ==
  ASSUME SessionsInv, NEW w \in Sessions, NEW i \in Ids \cup {Anyone}, Spawned(w, i),
         joinWaiters' \in {joinWaiters, joinWaiters \cup ({i} \cap Ids)},
         life = "started", life' = life
  PROVE  SessionsInv'
<1>1. NodeTypeOK'
  BY DEF SessionsInv, NodeTypeOK, Spawned
<1>2. TasksTold'
  BY DEF SessionsInv, NodeTypeOK, TasksTold, Spawned
<1>3. LinksHeld'
  BY DEF SessionsInv, NodeTypeOK, LinksHeld, Spawned, Free
<1>4. MarksHeld'
  <2> SUFFICES ASSUME NEW k \in inProgress
               PROVE  \E v \in Sessions : expects'[v] = k /\ task'[v] = "connecting"
    BY DEF MarksHeld, Spawned
  <2>1. PICK v \in Sessions : expects[v] = k /\ task[v] = "connecting"
    BY DEF SessionsInv, MarksHeld
  <2>2. v # w BY <2>1 DEF Spawned, Free
  <2> QED BY <2>1, <2>2 DEF SessionsInv, NodeTypeOK, Spawned
<1> QED BY <1>1, <1>2, <1>3, <1>4 DEF SessionsInv

LEMMA BeginKeeps ==
  ASSUME SessionsInv, NEW w \in Sessions, Begin(w), life' = life
  PROVE  SessionsInv'
<1>1. NodeTypeOK'
  BY DEF SessionsInv, NodeTypeOK, Begin, Ends, Outgoing
<1>2. TasksTold'
  <2>1. task[w] = "spawned" /\ closings' = closings /\ \A v \in Sessions \ {w} : task'[v] = task[v]
    BY DEF SessionsInv, NodeTypeOK, Begin, Ends
  <2>2. \/ task'[w] = "none" /\ opened' = opened
        \/ task'[w] \in {"connecting", "shaking"} /\ opened' = opened \cup {w}
    BY DEF SessionsInv, NodeTypeOK, Begin, Ends
  <2>3. life = "started"
    BY <2>1 DEF SessionsInv, TasksTold
  <2> QED BY <2>1, <2>2, <2>3 DEF SessionsInv, TasksTold
<1>3. LinksHeld'
  BY DEF SessionsInv, NodeTypeOK, LinksHeld, Begin, Ends
<1>4. MarksHeld'
  <2> SUFFICES ASSUME NEW k \in inProgress'
               PROVE  \E v \in Sessions : expects'[v] = k /\ task'[v] = "connecting"
    BY DEF MarksHeld
  <2>1. CASE k \in inProgress
    <3>1. PICK v \in Sessions : expects[v] = k /\ task[v] = "connecting"
      BY <2>1 DEF SessionsInv, MarksHeld
    <3>2. v # w BY <3>1 DEF Begin
    <3> QED BY <3>1, <3>2 DEF SessionsInv, NodeTypeOK, Begin, Ends
  <2>2. CASE k \notin inProgress
    BY <2>2 DEF SessionsInv, NodeTypeOK, Begin
  <2> QED BY <2>1, <2>2
<1> QED BY <1>1, <1>2, <1>3, <1>4 DEF SessionsInv


LEMMA ResolvedKeeps ==
  ASSUME SessionsInv, NEW w \in Sessions, NEW r \in {"ok", "failed"}, Resolved(w, r), life' = life
  PROVE  SessionsInv'
<1>1. NodeTypeOK'
  BY DEF SessionsInv, NodeTypeOK, Resolved
<1>2. TasksTold' /\ MarksHeld'
  BY DEF SessionsInv, TasksTold, MarksHeld, Resolved
<1>3. LinksHeld'
  BY DEF SessionsInv, NodeTypeOK, LinksHeld, Resolved
<1> QED BY <1>1, <1>2, <1>3 DEF SessionsInv

LEMMA ConnectedKeeps ==
  ASSUME SessionsInv, NEW w \in Sessions, Connected(w), life' = life
  PROVE  SessionsInv'
<1>1. NodeTypeOK'
  BY DEF SessionsInv, NodeTypeOK, Connected
<1>2. TasksTold'
  BY DEF SessionsInv, NodeTypeOK, TasksTold, Connected
<1>3. LinksHeld'
  BY DEF SessionsInv, NodeTypeOK, LinksHeld, Connected
<1>4. MarksHeld'
  BY DEF SessionsInv, NodeTypeOK, MarksHeld, Connected
<1> QED BY <1>1, <1>2, <1>3, <1>4 DEF SessionsInv

LEMMA HandshakeKeeps ==
  ASSUME SessionsInv, NEW w \in Sessions, NEW i \in Peers, HandshakeCompleted(w, i), life' = life
  PROVE  SessionsInv'
<1>1. NodeTypeOK'
  BY DEF SessionsInv, NodeTypeOK, HandshakeCompleted
<1>2. TasksTold' /\ MarksHeld'
  BY DEF SessionsInv, TasksTold, MarksHeld, HandshakeCompleted
<1>3. LinksHeld'
  BY DEF SessionsInv, NodeTypeOK, LinksHeld, HandshakeCompleted
<1> QED BY <1>1, <1>2, <1>3 DEF SessionsInv

(* A task that is through ends once, and closed is told once with it.        *)
LEMMA ClosedTold ==
  ASSUME SessionsInv, NEW w \in Sessions, NEW i, Closed(w, i), life' = life,
         task[w] \in {"connecting", "shaking", "joined"}
  PROVE  /\ TasksTold'
         /\ task' \in [Sessions -> {"none", "spawned", "connecting", "shaking", "joined"}]
         /\ future' \in [Sessions -> {"pending", "ok", "failed"}]
         /\ expects' \in [Sessions -> Ids \cup {Anyone}]
         /\ opened' = opened /\ closings' \in [Sessions -> 0..2]
         /\ task'[w] = "none"
         /\ \A v \in Sessions \ {w} : /\ task'[v] = task[v] /\ future'[v] = future[v]
                                      /\ expects'[v] = expects[v]
<1>1. /\ closings[w] = 0 /\ closings'[w] = 1 /\ task'[w] = "none" /\ opened' = opened
      /\ closings' \in [Sessions -> 0..2]
      /\ \A v \in Sessions \ {w} : /\ task'[v] = task[v] /\ future'[v] = future[v]
                                   /\ expects'[v] = expects[v] /\ closings'[v] = closings[v]
  BY DEF SessionsInv, NodeTypeOK, TasksTold, Closed, Ends
<1>2. TasksTold'
  BY <1>1 DEF SessionsInv, TasksTold
<1>3. /\ task' \in [Sessions -> {"none", "spawned", "connecting", "shaking", "joined"}]
      /\ future' \in [Sessions -> {"pending", "ok", "failed"}]
      /\ expects' \in [Sessions -> Ids \cup {Anyone}]
  BY DEF SessionsInv, NodeTypeOK, Closed, Ends
<1> QED BY <1>1, <1>2, <1>3

LEMMA GiveUpKeeps ==
  ASSUME SessionsInv, NEW w \in Sessions, GiveUp(w), life' = life
  PROVE  SessionsInv'
<1>1. task[w] \in {"connecting", "shaking"} /\ Closed(w, expects[w])
  BY DEF GiveUp
<1>2. NodeTypeOK'
  BY <1>1, ClosedTold DEF SessionsInv, NodeTypeOK, GiveUp
<1>3. TasksTold'
  BY <1>1, ClosedTold
<1>4. LinksHeld'
  <2>1. link[w] = Down BY DEF SessionsInv, LinksHeld, GiveUp
  <2> QED BY <1>1, <2>1, ClosedTold DEF SessionsInv, LinksHeld, GiveUp
<1>5. MarksHeld'
  BY <1>1, ClosedTold DEF SessionsInv, MarksHeld, GiveUp
<1> QED BY <1>2, <1>3, <1>4, <1>5 DEF SessionsInv

LEMMA JoinKeeps ==
  ASSUME SessionsInv, NEW w \in Sessions, Join(w), life' = life
  PROVE  SessionsInv'
<1>1. NodeTypeOK'
  BY DEF SessionsInv, NodeTypeOK, Join
<1>2. TasksTold'
  BY DEF SessionsInv, NodeTypeOK, TasksTold, Join
<1>3. LinksHeld'
  BY DEF SessionsInv, NodeTypeOK, LinksHeld, Join
<1>4. MarksHeld'
  BY DEF SessionsInv, NodeTypeOK, MarksHeld, Join
<1> QED BY <1>1, <1>2, <1>3, <1>4 DEF SessionsInv

LEMMA LinkDownKeeps ==
  ASSUME SessionsInv, NEW w \in Sessions, LinkDown(w), life' = life
  PROVE  SessionsInv'
<1>1. CASE task[w] = "joined" /\ Closed(w, link[w])
  <2>1. NodeTypeOK'
    BY <1>1, ClosedTold DEF SessionsInv, NodeTypeOK, LinkDown
  <2>2. TasksTold'
    BY <1>1, ClosedTold
  <2>3. LinksHeld'
    BY <1>1, ClosedTold DEF SessionsInv, NodeTypeOK, LinksHeld, LinkDown
  <2>4. MarksHeld'
    BY <1>1, ClosedTold DEF SessionsInv, MarksHeld, LinkDown
  <2> QED BY <2>1, <2>2, <2>3, <2>4 DEF SessionsInv
<1>2. CASE task[w] # "joined" /\ UNCHANGED <<task, future, expects, opened, closings, rvars>>
  BY <1>2 DEF SessionsInv, NodeTypeOK, TasksTold, LinksHeld, MarksHeld, LinkDown
<1> QED BY <1>1, <1>2 DEF LinkDown

LEMMA NodeStopKeeps ==
  ASSUME SessionsInv, NodeStop, life' = "stopped"
  PROVE  SessionsInv'
<1>1. closings' \in [Sessions -> 0..2] /\ \A w \in Sessions : closings'[w] \in {0, 1}
  BY DEF SessionsInv, NodeTypeOK, TasksTold, NodeStop
<1>2. NodeTypeOK'
  BY <1>1 DEF SessionsInv, NodeTypeOK, NodeStop
<1>3. TasksTold' /\ LinksHeld' /\ MarksHeld'
  BY <1>1 DEF TasksTold, LinksHeld, MarksHeld, NodeStop
<1> QED BY <1>2, <1>3 DEF SessionsInv

LEMMA SessionsFrame ==
  ASSUME SessionsInv, UNCHANGED nvars, life' = life \/ (life' = "started" /\ life = "setup")
  PROVE  SessionsInv'
BY DEF SessionsInv, NodeTypeOK, TasksTold, LinksHeld, MarksHeld, nvars


-----------------------------------------------------------------------------
(* The instances.                                                            *)

(* Nothing is going on before the node has started and after it has stopped. *)
Quiet ==
  life # "started" => /\ ~ticking /\ inst = {}
                      /\ \A i \in Ids : worker[i] = "none" /\ sat[i] = 0

InstancesInv ==
  InstancesTypeOK /\ SatisfiedArePursued /\ OnlinesAreUp /\ JoinsAreServed /\ Quiet

JoiningInv == RegistryInv /\ ReestTypeOK /\ SessionsInv /\ InstancesInv

(* Who waits for a join keeps waiting for a session that is under way as     *)
(* long as no session ends without an answer.                                *)
LEMMA ServedKeeps ==
  ASSUME JoinsAreServed,
         \A i \in Ids : worker'[i] = "joining" /\ answer'[i] = Pending
                          => /\ worker[i] = "joining" /\ answer[i] = Pending
                             /\ i \in joinWaiters => i \in joinWaiters'
                             /\ \A v \in Sessions :
                                  expects[v] = i /\ task[v] \in {"spawned", "connecting", "shaking"}
                                    => \E u \in Sessions :
                                         expects'[u] = i /\ task'[u] \in {"spawned", "connecting", "shaking"}
  PROVE  JoinsAreServed'
BY DEF JoinsAreServed

LEMMA RegistryStep ==
  ASSUME JoiningInv, Registry, UNCHANGED <<ivars, rvars, nvars>>
  PROVE  JoiningInv'
<1>1. sat' = sat /\ \/ life' = life /\ ticking' = ticking
                    \/ life = "setup" /\ life' = "started" /\ ticking' = TRUE
  BY DEF Registry, Need, Reweight, DropNeed, Fail, FlushChanges, DemandStart
<1>2. RegistryInv'
  <2>1. CASE DemandStart
    BY <2>1, RegistryFrame DEF JoiningInv, DemandStart
  <2> QED BY <2>1, NeedKeeps, ReweightKeeps, DropNeedKeeps, FailKeeps, FlushKeeps
        DEF Registry, JoiningInv
<1>3. SessionsInv'
  BY <1>1, SessionsFrame DEF JoiningInv, nvars
<1>4. ReestTypeOK'
  BY DEF JoiningInv, ReestTypeOK, rvars
<1>5. InstancesTypeOK' /\ OnlinesAreUp' /\ JoinsAreServed'
  BY DEF JoiningInv, InstancesInv, InstancesTypeOK, OnlinesAreUp, JoinsAreServed, ivars, nvars
<1>6. SatisfiedArePursued' /\ Quiet'
  BY <1>1 DEF JoiningInv, InstancesInv, SatisfiedArePursued, Excused, Quiet, ivars
<1> QED BY <1>2, <1>3, <1>4, <1>5, <1>6 DEF JoiningInv, InstancesInv

LEMMA RecordsStep ==
  ASSUME JoiningInv, Records, UNCHANGED <<dvars, ivars, nvars>>
  PROVE  JoiningInv'
<1>1. RegistryInv'
  BY RegistryFrame DEF JoiningInv, dvars
<1>2. SessionsInv'
  BY SessionsFrame DEF JoiningInv, nvars, dvars
<1>3. ReestTypeOK'
  BY DEF JoiningInv, ReestTypeOK, Records, OnceFlush, RegularFlush
<1>4. InstancesInv'
  BY DEF JoiningInv, InstancesInv, InstancesTypeOK, OnlinesAreUp, JoinsAreServed,
         SatisfiedArePursued, Excused, Quiet, ivars, nvars, dvars
<1> QED BY <1>1, <1>2, <1>3, <1>4 DEF JoiningInv

(* What does not touch registry and instances leaves their agreement alone.  *)
LEMMA InstancesFrame ==
  ASSUME InstancesInv, UNCHANGED <<dvars, inst, hasAddress, worker, turnedAway, onlines>>
  PROVE  SatisfiedArePursued' /\ Quiet'
BY DEF InstancesInv, SatisfiedArePursued, Excused, Quiet, dvars

LEMMA SessionStepKeeps ==
  ASSUME JoiningInv, NEW w \in Sessions, SessionStep(w), UNCHANGED <<dvars, ivars>>
  PROVE  JoiningInv'
<1> USE DEF JoiningInv
<1>1. RegistryInv' /\ life' = life
  BY RegistryFrame DEF dvars
<1>2. SatisfiedArePursued' /\ Quiet' /\ InstancesTypeOK'
  BY InstancesFrame DEF InstancesInv, InstancesTypeOK, ivars
<1>3. ASSUME NEW i \in Ids \cup {Anyone}, Call(w, i) PROVE JoiningInv'
  <2>1. life = "started" /\ Spawned(w, i) /\ joinWaiters' = joinWaiters /\ UNCHANGED rvars
    BY <1>3 DEF Call
  <2>2. SessionsInv' BY <1>1, <2>1, SpawnedKeeps
  <2>3. ReestTypeOK' /\ OnlinesAreUp'
    BY <2>1 DEF ReestTypeOK, rvars, InstancesInv, OnlinesAreUp, Spawned, ivars
  <2>4. JoinsAreServed'
    <3>1. \A v \in Sessions : task[v] # "none" => expects'[v] = expects[v] /\ task'[v] = task[v]
      BY <2>1 DEF SessionsInv, NodeTypeOK, Spawned, Free
    <3> QED BY <2>1, <3>1, ServedKeeps DEF InstancesInv, ivars
  <2> QED BY <1>1, <1>2, <2>2, <2>3, <2>4 DEF InstancesInv
<1>4. CASE Begin(w)
  <2>1. SessionsInv' BY <1>1, <1>4, BeginKeeps
  <2>2. ReestTypeOK' /\ OnlinesAreUp'
    BY <1>4 DEF ReestTypeOK, Ratings, WithSession, SessionsInv, NodeTypeOK, Begin, Outgoing,
                InstancesInv, OnlinesAreUp, ivars
  <2>3. ASSUME NEW i \in Ids, NEW v \in Sessions,
               expects[v] = i, task[v] \in {"spawned", "connecting", "shaking"}
        PROVE  \E u \in Sessions : expects'[u] = i /\ task'[u] \in {"spawned", "connecting", "shaking"}
    <3>1. CASE v # w
      BY <1>4, <2>3, <3>1 DEF SessionsInv, NodeTypeOK, Begin, Ends
    <3>2. CASE v = w /\ i \in inProgress
      <4>1. PICK u \in Sessions : expects[u] = i /\ task[u] = "connecting"
        BY <3>2 DEF SessionsInv, MarksHeld
      <4>2. u # w BY <1>4, <4>1 DEF Begin
      <4> QED BY <1>4, <4>1, <4>2 DEF SessionsInv, NodeTypeOK, Begin, Ends
    <3>3. CASE v = w /\ i \notin inProgress
      BY <1>4, <2>3, <3>3 DEF SessionsInv, NodeTypeOK, Begin
    <3> QED BY <3>1, <3>2, <3>3
  <2>4. JoinsAreServed'
    BY <1>4, <2>3, ServedKeeps DEF InstancesInv, Begin, ivars
  <2> QED BY <1>1, <1>2, <2>1, <2>2, <2>4 DEF InstancesInv
<1>5. CASE Connected(w)
  <2>1. SessionsInv' BY <1>1, <1>5, ConnectedKeeps
  <2>2. ReestTypeOK' /\ OnlinesAreUp'
    BY <1>5 DEF ReestTypeOK, rvars, InstancesInv, OnlinesAreUp, Connected, ivars
  <2>3. \A v \in Sessions : /\ expects'[v] = expects[v]
                            /\ task'[v] \in {task[v], "shaking"}
    BY <1>5 DEF SessionsInv, NodeTypeOK, Connected
  <2>4. JoinsAreServed'
    BY <1>5, <2>3, ServedKeeps DEF InstancesInv, Connected, ivars
  <2> QED BY <1>1, <1>2, <2>1, <2>2, <2>4 DEF InstancesInv
<1>6. ASSUME NEW r \in {"ok", "failed"}, Resolved(w, r) PROVE JoiningInv'
  <2>1. SessionsInv' BY <1>1, <1>6, ResolvedKeeps
  <2>2. ReestTypeOK' /\ OnlinesAreUp' /\ JoinsAreServed'
    BY <1>6 DEF ReestTypeOK, rvars, InstancesInv, OnlinesAreUp, JoinsAreServed, Resolved, ivars
  <2> QED BY <1>1, <1>2, <2>1, <2>2 DEF InstancesInv
<1> QED BY <1>3, <1>4, <1>5, <1>6 DEF SessionStep


(* What a task's end leaves of the ratings.                                  *)
LEMMA RatedTyped ==
  ASSUME ReestTypeOK, NEW w \in Sessions, NEW i, Closed(w, i) PROVE ReestTypeOK'
<1>1. \A k : Rated(k, w) \subseteq Ratings
  BY DEF Rated, UpdateResult, Ratings
<1> QED BY <1>1 DEF ReestTypeOK, Closed, StatChanged

LEMMA AnswerKeeps ==
  ASSUME JoiningInv, NEW w \in Sessions, Answer(w)
  PROVE  JoiningInv'
<1> USE DEF JoiningInv
<1>1. RegistryInv' /\ life' = life
  BY RegistryFrame DEF Answer, dvars
<1>2. SatisfiedArePursued' /\ Quiet'
  BY InstancesFrame DEF Answer
<1>3. CASE GiveUp(w) /\ Answered(joinWaiters \ joinWaiters', Failed)
  <2>1. task[w] \in {"connecting", "shaking"} /\ Closed(w, expects[w])
    BY <1>3 DEF GiveUp
  <2>2. SessionsInv' BY <1>1, <1>3, GiveUpKeeps
  <2>3. ReestTypeOK' BY <2>1, RatedTyped
  <2>4. InstancesTypeOK' /\ OnlinesAreUp'
    BY <1>3 DEF InstancesInv, InstancesTypeOK, OnlinesAreUp, Answer, Answered, GiveUp
  <2>5. JoinsAreServed'
    <3>1. \A v \in Sessions \ {w} : task'[v] = task[v] /\ expects'[v] = expects[v]
      BY <1>1, <2>1, ClosedTold
    <3>2. \A i \in Ids : i \in joinWaiters /\ i = expects[w] => answer'[i] = Failed
      BY <1>3 DEF Answered, GiveUp, Flushed
    <3>3. \A i \in Ids : i # expects[w] => answer'[i] = answer[i]
                                           /\ (i \in joinWaiters => i \in joinWaiters')
      BY <1>3 DEF Answered, GiveUp, Flushed
    <3>4. \A i \in Ids : answer'[i] = Pending => answer[i] = Pending
      BY <1>3, AnswerAssumption DEF Answered
    <3> QED BY <3>1, <3>2, <3>3, <3>4, AnswerAssumption DEF InstancesInv, JoinsAreServed, Answer
  <2> QED BY <1>1, <1>2, <2>2, <2>3, <2>4, <2>5 DEF InstancesInv
<1>4. CASE Join(w) /\ Answered(joinWaiters \ joinWaiters', w)
  <2>1. SessionsInv' BY <1>1, <1>4, JoinKeeps
  <2>2. ReestTypeOK'
    <3>1. \A k : Rated(k, w) \subseteq Ratings
      BY DEF Rated, UpdateResult, Ratings
    <3>2. Outgoing(w) \/ expects[w] \notin Ids
      BY NodeAssumption DEF Outgoing
    <3> QED BY <1>4, <3>1, <3>2 DEF ReestTypeOK, Ratings, Join
  <2>3. InstancesTypeOK' /\ OnlinesAreUp'
    BY <1>4 DEF InstancesInv, InstancesTypeOK, OnlinesAreUp, Answer, Answered, Join
  <2>4. JoinsAreServed'
    <3>1. \A v \in Sessions \ {w} : task'[v] = task[v] /\ expects'[v] = expects[v]
      BY <1>4 DEF SessionsInv, NodeTypeOK, Join
    <3>2. \A i \in Ids : i \in joinWaiters /\ i = expects[w] => answer'[i] = w
      BY <1>4 DEF Answered, Join, Flushed
    <3>3. \A i \in Ids : i # expects[w] => answer'[i] = answer[i]
                                           /\ (i \in joinWaiters => i \in joinWaiters')
      BY <1>4 DEF Answered, Join, Flushed
    <3>4. \A i \in Ids : answer'[i] = Pending => answer[i] = Pending
      BY <1>4, AnswerAssumption DEF Answered
    <3> QED BY <3>1, <3>2, <3>3, <3>4, AnswerAssumption DEF InstancesInv, JoinsAreServed, Answer
  <2> QED BY <1>1, <1>2, <2>1, <2>2, <2>3, <2>4 DEF InstancesInv
<1> QED BY <1>3, <1>4 DEF Answer

LEMMA BreakKeeps ==
  ASSUME JoiningInv, NEW w \in Sessions, Break(w)
  PROVE  JoiningInv'
<1> USE DEF JoiningInv
<1>1. RegistryInv' /\ life' = life /\ LinkDown(w)
  BY RegistryFrame DEF Break, dvars
<1>2. SessionsInv' BY <1>1, LinkDownKeeps
<1>3. life = "started"
  BY <1>1 DEF SessionsInv, LinksHeld, TasksTold, LinkDown
<1>4. ReestTypeOK'
  <2>1. CASE Closed(w, link[w]) BY <2>1, RatedTyped
  <2>2. CASE UNCHANGED rvars BY <2>2 DEF ReestTypeOK, rvars
  <2> QED BY <1>1, <2>1, <2>2 DEF LinkDown
<1>5. InstancesTypeOK'
  BY DEF InstancesInv, InstancesTypeOK, Break, Activated
<1>6. SatisfiedArePursued'
  BY DEF InstancesInv, InstancesTypeOK, SatisfiedArePursued, Excused, Break, Activated, dvars
<1>7. OnlinesAreUp'
  BY DEF SessionsInv, NodeTypeOK, InstancesInv, InstancesTypeOK, OnlinesAreUp, Break, LinkDown
<1>8. JoinsAreServed'
  <2>1. \A v \in Sessions : task[v] \in {"spawned", "connecting", "shaking"}
                              => task'[v] = task[v] /\ expects'[v] = expects[v]
    <3>1. CASE task[w] = "joined" /\ Closed(w, link[w])
      BY <1>1, <3>1, ClosedTold
    <3> QED BY <1>1, <3>1 DEF LinkDown
  <2>2. \A i \in Ids : worker'[i] = "joining" => worker[i] = "joining"
    BY DEF Break, Activated
  <2> QED BY <1>1, <2>1, <2>2, ServedKeeps DEF InstancesInv, Break, LinkDown
<1>9. Quiet' BY <1>1, <1>3 DEF Quiet
<1> QED BY <1>1, <1>2, <1>4, <1>5, <1>6, <1>7, <1>8, <1>9 DEF InstancesInv

LEMMA ShakeKeeps ==
  ASSUME JoiningInv, NEW w \in Sessions, NEW i \in Peers, Shake(w, i)
  PROVE  JoiningInv'
<1> USE DEF JoiningInv
<1>1. RegistryInv' /\ life' = life /\ HandshakeCompleted(w, i)
  BY RegistryFrame DEF Shake, dvars
<1>2. SessionsInv' BY <1>1, HandshakeKeeps
<1>3. ReestTypeOK'
  BY <1>1 DEF ReestTypeOK, HandshakeCompleted, rvars
<1>4. InstancesTypeOK'
  BY DEF InstancesInv, InstancesTypeOK, Shake
<1>5. SatisfiedArePursued'
  BY DEF InstancesInv, InstancesTypeOK, SatisfiedArePursued, Excused, Shake, dvars
<1>6. OnlinesAreUp'
  <2>1. link[w] = Down
    BY <1>1 DEF SessionsInv, LinksHeld, HandshakeCompleted
  <2>2. \A k \in Ids : w \notin onlines[k]
    BY <2>1, NodeAssumption DEF InstancesInv, OnlinesAreUp, Peers
  <2> QED BY <1>1, <2>2 DEF SessionsInv, NodeTypeOK, InstancesInv, InstancesTypeOK, OnlinesAreUp,
                            Shake, HandshakeCompleted
<1>7. JoinsAreServed' /\ Quiet'
  BY <1>1 DEF InstancesInv, JoinsAreServed, Quiet, Shake, HandshakeCompleted, dvars
<1> QED BY <1>1, <1>2, <1>3, <1>4, <1>5, <1>6, <1>7 DEF InstancesInv

(* Nothing below the instances changes.                                      *)
LEMMA BelowFrame ==
  ASSUME JoiningInv, UNCHANGED <<rvars, nvars>>, life' = life
  PROVE  ReestTypeOK' /\ SessionsInv'
<1>1. ReestTypeOK' BY DEF JoiningInv, ReestTypeOK, rvars
<1>2. SessionsInv' BY SessionsFrame DEF JoiningInv, nvars
<1> QED BY <1>1, <1>2


LEMMA OfferKeeps ==
  ASSUME JoiningInv, NEW i \in Ids, Offer(i)
  PROVE  JoiningInv'
<1> USE DEF JoiningInv
<1>1. PICK left \in [Ids -> 0..MaxBans] : MakeSatisfies(i, left)
  BY DEF Offer
<1>2. life' = life /\ life = "started" /\ ticking' = ticking
  BY <1>1 DEF MakeSatisfies, InstancesInv, Quiet
<1>3. RegistryInv' BY <1>1, MakeSatisfiesKeeps
<1>4. ReestTypeOK' /\ SessionsInv' BY <1>2, BelowFrame DEF Offer
<1>5. InstancesTypeOK'
  BY DEF InstancesInv, InstancesTypeOK, Offer, Activated
<1>6. SatisfiedArePursued'
  <2>1. /\ \A k \in Ids : k # i => sat'[k] = sat[k]
        /\ sat'[i] > 0
    BY <1>1, DemandAssumption DEF MakeSatisfies, RegistryInv, RegistryTypeOK
  <2>2. life' = "started" => \A k \in Ids : sat'[k] > 0 <=> k \in inst'
    BY <1>2, <2>1 DEF InstancesInv, SatisfiedArePursued, Offer
  <2>3. ASSUME NEW k \in inst', worker'[k] = "none" PROVE Excused(k)'
    <3>1. k \in inst /\ k \in Ids /\ k # i /\ worker[k] = "none"
      BY <2>3 DEF InstancesInv, InstancesTypeOK, Offer, Activated
    <3> QED BY <3>1 DEF InstancesInv, InstancesTypeOK, SatisfiedArePursued, Excused, Offer
  <2> QED BY <2>2, <2>3 DEF SatisfiedArePursued
<1>7. OnlinesAreUp'
  BY DEF InstancesInv, OnlinesAreUp, Offer, nvars
<1>8. JoinsAreServed'
  BY DEF InstancesInv, JoinsAreServed, Offer, Activated, nvars
<1>9. Quiet' BY <1>2 DEF Quiet
<1> QED BY <1>3, <1>4, <1>5, <1>6, <1>7, <1>8, <1>9 DEF InstancesInv

LEMMA IdleKeeps ==
  ASSUME JoiningInv, NEW left \in [Ids -> 0..MaxBans], Idle(left)
  PROVE  JoiningInv'
<1> USE DEF JoiningInv
<1>1. MakeSatisfies(Nobody, left) BY DEF Idle
<1>2. life' = life /\ ticking' = ticking /\ \A k \in Ids : sat'[k] = sat[k]
  BY <1>1, DemandAssumption DEF MakeSatisfies
<1>3. RegistryInv' BY <1>1, MakeSatisfiesKeeps
<1>4. ReestTypeOK' /\ SessionsInv' BY <1>2, BelowFrame DEF Idle
<1>5. InstancesTypeOK' /\ OnlinesAreUp' /\ JoinsAreServed'
  BY DEF InstancesInv, InstancesTypeOK, OnlinesAreUp, JoinsAreServed, Idle, ivars, nvars
<1>6. SatisfiedArePursued' /\ Quiet'
  BY <1>2 DEF InstancesInv, SatisfiedArePursued, Excused, Quiet, Idle, ivars
<1> QED BY <1>3, <1>4, <1>5, <1>6 DEF InstancesInv

LEMMA WorkKeeps ==
  ASSUME JoiningInv, NEW i \in Ids, Work(i)
  PROVE  JoiningInv'
<1> USE DEF JoiningInv
<1>1. RegistryInv' /\ life' = life
  BY RegistryFrame DEF Work, dvars
<1>2. life = "started"
  BY DEF InstancesInv, Quiet, Work
<1>3. ReestTypeOK' BY DEF ReestTypeOK, Work, rvars
<1>4. Quiet' BY <1>1, <1>2 DEF Quiet
<1>5. CASE /\ Ended(i) /\ UNCHANGED <<answer, turnedAway, nvars>>
           /\ \/ onlines' = onlines /\ hasAddress' = hasAddress /\ (onlines[i] # {} \/ ~hasAddress[i])
              \/ hasAddress' = hasAddress /\ \E l \in Remotes(i) : onlines' = [onlines EXCEPT ![i] = {l}]
              \/ onlines' = onlines /\ hasAddress' = [hasAddress EXCEPT ![i] = FALSE]
  <2>1. SessionsInv' BY <1>1, <1>5, SessionsFrame
  <2>2. InstancesTypeOK'
    <3>1. inst' = inst /\ Remotes(i) \subseteq Sessions
      BY DEF Work, Remotes
    <3>2. onlines' \in [Ids -> SUBSET Sessions] /\ hasAddress' \in [Ids -> BOOLEAN]
      BY <1>5, <3>1 DEF InstancesInv, InstancesTypeOK
    <3> QED BY <1>5, <3>1, <3>2 DEF InstancesInv, InstancesTypeOK, Ended
  <2>3. Excused(i)'
    BY <1>5 DEF InstancesInv, InstancesTypeOK, Excused
  <2>4. ASSUME NEW k \in Ids, k # i
        PROVE  /\ onlines'[k] = onlines[k] /\ hasAddress'[k] = hasAddress[k]
               /\ worker'[k] = worker[k] /\ turnedAway'[k] = turnedAway[k]
    BY <1>5, <2>4 DEF InstancesInv, InstancesTypeOK, Ended
  <2>5. SatisfiedArePursued'
    BY <2>3, <2>4 DEF InstancesInv, InstancesTypeOK, SatisfiedArePursued, Excused, Work, dvars
  <2>6. OnlinesAreUp'
    <3>1. \A l \in onlines'[i] : link[l] = i
      BY <1>5 DEF InstancesInv, InstancesTypeOK, OnlinesAreUp, Remotes
    <3> QED BY <1>5, <2>4, <3>1 DEF InstancesInv, OnlinesAreUp, nvars
  <2>7. JoinsAreServed'
    <3>1. worker'[i] = "none" BY <1>5 DEF InstancesInv, InstancesTypeOK, Ended
    <3> QED BY <1>5, <2>4, <3>1 DEF InstancesInv, JoinsAreServed, nvars
  <2> QED BY <1>1, <1>3, <1>4, <2>1, <2>2, <2>5, <2>6, <2>7 DEF InstancesInv
<1>6. ASSUME NEW w \in Sessions, JoinAt(w, i), worker' = [worker EXCEPT ![i] = "joining"],
             turnedAway' = [turnedAway EXCEPT ![i] = FALSE], UNCHANGED <<hasAddress, onlines, answer>>
      PROVE  JoiningInv'
  <2>1. Spawned(w, i) /\ joinWaiters' = joinWaiters \cup {i}
    BY <1>6 DEF JoinAt
  <2>2. SessionsInv' BY <1>1, <1>2, <2>1, SpawnedKeeps
  <2>3. InstancesTypeOK'
    BY <1>6 DEF InstancesInv, InstancesTypeOK, Work
  <2>4. SatisfiedArePursued'
    BY <1>6 DEF InstancesInv, InstancesTypeOK, SatisfiedArePursued, Excused, Work, dvars
  <2>5. OnlinesAreUp'
    BY <1>6, <2>1 DEF InstancesInv, OnlinesAreUp, Spawned
  <2>6. JoinsAreServed'
    <3>1. expects'[w] = i /\ task'[w] = "spawned"
      BY <2>1 DEF SessionsInv, NodeTypeOK, Spawned
    <3>2. \A v \in Sessions : task[v] # "none" => expects'[v] = expects[v] /\ task'[v] = task[v]
      BY <2>1 DEF SessionsInv, NodeTypeOK, Spawned, Free
    <3>3. \A k \in Ids : k # i => worker'[k] = worker[k]
      BY <1>6 DEF InstancesInv, InstancesTypeOK
    <3> QED BY <1>6, <2>1, <3>1, <3>2, <3>3 DEF InstancesInv, JoinsAreServed
  <2> QED BY <1>1, <1>3, <1>4, <2>2, <2>3, <2>4, <2>5, <2>6 DEF InstancesInv
<1> QED BY <1>5, <1>6 DEF Work

LEMMA ResumeKeeps ==
  ASSUME JoiningInv, NEW i \in Ids, Resume(i)
  PROVE  JoiningInv'
<1> USE DEF JoiningInv
<1>1. life' = life /\ life = "started"
  BY DEF Resume, InstancesInv, Quiet
<1>2. ReestTypeOK' /\ SessionsInv' BY <1>1, BelowFrame DEF Resume
<1>3. Quiet' BY <1>1 DEF Quiet
<1>4. worker'[i] = "none" /\ \A k \in Ids : k # i => /\ worker'[k] = worker[k] /\ answer'[k] = answer[k]
                                                     /\ turnedAway'[k] = turnedAway[k]
                                                     /\ onlines'[k] = onlines[k]
  BY DEF InstancesInv, InstancesTypeOK, Resume, Ended, Dropped
<1>5. InstancesTypeOK'
  <2>1. onlines' \in [Ids -> SUBSET Sessions]
    BY DEF InstancesInv, InstancesTypeOK, Resume, Dropped, Reaches
  <2>2. inst' \subseteq Ids /\ turnedAway' \in [Ids -> BOOLEAN]
    BY DEF InstancesInv, InstancesTypeOK, Resume, Dropped
  <2>3. /\ worker' \in [Ids -> {"none", "spawned", "joining"}]
        /\ answer' \in [Ids -> Sessions \cup {Pending, Failed}] /\ hasAddress' = hasAddress
    BY DEF InstancesInv, InstancesTypeOK, Resume, Ended, Dropped
  <2> QED BY <2>1, <2>2, <2>3 DEF InstancesInv, InstancesTypeOK
<1>6. JoinsAreServed'
  BY <1>4 DEF InstancesInv, JoinsAreServed, Resume, nvars
<1>7. OnlinesAreUp'
  <2>1. \A l \in onlines'[i] : link[l] = i
    BY DEF InstancesInv, InstancesTypeOK, OnlinesAreUp, Resume, Dropped, Reaches
  <2> QED BY <1>4, <2>1 DEF InstancesInv, OnlinesAreUp, Resume, nvars
<1>8. CASE Throws(i) /\ onlines[i] = {} /\ Dropped(i)
  <2>1. /\ [sat EXCEPT ![i] = 0] \in [Ids -> 0..MaxSats]
        /\ \A k \in Ids : [sat EXCEPT ![i] = 0][k] <= sat[k]
    BY DemandAssumption DEF RegistryInv, RegistryTypeOK
  <2>2. RegistryInv'
    BY <1>8, <2>1, ReleaseKeeps DEF Dropped, Resume
  <2>3. SatisfiedArePursued'
    <3>1. sat'[i] = 0 /\ \A k \in Ids : k # i => sat'[k] = sat[k]
      BY <1>8 DEF RegistryInv, RegistryTypeOK, Dropped, Release
    <3> QED BY <1>4, <1>8, <3>1 DEF InstancesInv, InstancesTypeOK, SatisfiedArePursued, Excused,
                                    Dropped, Resume
  <2> QED BY <1>2, <1>3, <1>5, <1>6, <1>7, <2>2, <2>3 DEF InstancesInv
<1>9. CASE UNCHANGED <<inst, sat, changed, flush>> /\ Excused(i)'
  <2>1. RegistryInv'
    BY <1>9, RegistryFrame DEF Resume
  <2>2. SatisfiedArePursued'
    BY <1>4, <1>9 DEF InstancesInv, InstancesTypeOK, SatisfiedArePursued, Excused, Resume
  <2> QED BY <1>2, <1>3, <1>5, <1>6, <1>7, <2>1, <2>2 DEF InstancesInv
<1> QED BY <1>8, <1>9 DEF InstancesInv, InstancesTypeOK, Resume, Excused

LEMMA DiscoveredKeeps ==
  ASSUME JoiningInv, NEW i \in Ids, Discovered(i)
  PROVE  JoiningInv'
<1> USE DEF JoiningInv
<1>1. RegistryInv' /\ life' = life /\ life = "started"
  BY RegistryFrame DEF Discovered, dvars
<1>2. SessionsInv' BY <1>1, SessionsFrame DEF Discovered, nvars
<1>3. ReestTypeOK'
  BY DEF ReestTypeOK, Ratings, Discovered, AfterDiscovery, StatChanged
<1>4. InstancesTypeOK'
  BY DEF InstancesInv, InstancesTypeOK, Discovered, Activated
<1>5. SatisfiedArePursued'
  <2>1. ASSUME NEW k \in inst', worker'[k] = "none" PROVE Excused(k)'
    <3>1. k \in inst /\ k \in Ids /\ worker[k] = "none" /\ hasAddress'[k] = hasAddress[k]
      BY <2>1 DEF InstancesInv, InstancesTypeOK, Discovered, Activated
    <3> QED BY <3>1 DEF InstancesInv, SatisfiedArePursued, Excused, Discovered
  <2> QED BY <2>1 DEF InstancesInv, SatisfiedArePursued, Discovered, dvars
<1>6. OnlinesAreUp' /\ JoinsAreServed'
  BY DEF InstancesInv, OnlinesAreUp, JoinsAreServed, Discovered, Activated, nvars
<1>7. Quiet' BY <1>1 DEF Quiet
<1> QED BY <1>1, <1>2, <1>3, <1>4, <1>5, <1>6, <1>7 DEF InstancesInv

LEMMA StopKeeps ==
  ASSUME JoiningInv, Stop
  PROVE  JoiningInv'
<1> USE DEF JoiningInv
<1>1. RegistryInv' BY RegistryStopKeeps
<1>2. SessionsInv' BY NodeStopKeeps DEF Stop
<1>3. ReestTypeOK' BY DEF ReestTypeOK, Stop, NodeStop
<1>4. InstancesInv'
  BY DEF InstancesInv, InstancesTypeOK, SatisfiedArePursued, OnlinesAreUp, JoinsAreServed, Quiet, Stop
<1> QED BY <1>1, <1>2, <1>3, <1>4


-----------------------------------------------------------------------------
(* All together.                                                             *)

LEMMA InitJoining ==
  ASSUME JoiningInit PROVE JoiningInv
<1> USE DEF JoiningInit
<1>1. RegistryInv
  <2>1. RegistryTypeOK
    <3>1. sat \in [Ids -> 0..MaxSats] /\ bans \in [Ids -> 0..MaxBans]
      BY DemandAssumption DEF DemandInit
    <3>2. need \in [Needers -> [id : elements, weight : Weights] \cup {NoNeed}]
      BY DEF DemandInit
    <3> QED BY <3>1, <3>2 DEF DemandInit, RegistryTypeOK
  <2>2. SatisfiedListed BY DEF DemandInit, SatisfiedListed
  <2>3. PrioritiesFollow BY DEF DemandInit, PrioritiesFollow
  <2> QED BY <2>1, <2>2, <2>3 DEF RegistryInv
<1>2. ReestTypeOK BY DEF ReestInit, ReestTypeOK, Ratings
<1>3. SessionsInv
  BY DEF NodeInit, DemandInit, SessionsInv, NodeTypeOK, TasksTold, LinksHeld, MarksHeld
<1>4. InstancesInv
  BY DEF DemandInit, InstancesInv, InstancesTypeOK, SatisfiedArePursued, OnlinesAreUp,
         JoinsAreServed, Quiet
<1> QED BY <1>1, <1>2, <1>3, <1>4 DEF JoiningInv

LEMMA StepJoining ==
  ASSUME JoiningInv, [JoiningNext]_jvars PROVE JoiningInv'
<1>1. CASE UNCHANGED jvars
  <2>1. UNCHANGED dvars /\ UNCHANGED rvars /\ UNCHANGED nvars /\ UNCHANGED ivars
    BY <1>1 DEF jvars
  <2>2. RegistryInv' /\ life' = life
    BY <2>1, RegistryFrame DEF JoiningInv, dvars
  <2>3. ReestTypeOK' /\ SessionsInv' BY <2>1, <2>2, BelowFrame
  <2>4. InstancesInv'
    BY <2>1 DEF JoiningInv, InstancesInv, InstancesTypeOK, OnlinesAreUp, JoinsAreServed,
                SatisfiedArePursued, Excused, Quiet, ivars, nvars, dvars
  <2> QED BY <2>2, <2>3, <2>4 DEF JoiningInv
<1>2. CASE JoiningNext
  BY <1>2, RegistryStep, RecordsStep, SessionStepKeeps, AnswerKeeps, BreakKeeps, ShakeKeeps,
     OfferKeeps, WorkKeeps, ResumeKeeps, DiscoveredKeeps, StopKeeps, IdleKeeps DEF JoiningNext
<1> QED BY <1>1, <1>2

LEMMA AlwaysJoining == JoiningSpec => []JoiningInv
<1>1. JoiningInv /\ [JoiningNext]_jvars => JoiningInv' BY StepJoining
<1> QED BY <1>1, InitJoining, PTL DEF JoiningSpec

(* Whatever the order of needs, offers, failures, bans and flushes, no       *)
(* element keeps a priority that its needs, satisfactions and bans do not    *)
(* call for without a recomputation being due.                               *)
THEOREM PrioritiesAlwaysFollow == JoiningSpec => []PrioritiesFollow
<1>1. JoiningInv => PrioritiesFollow BY DEF JoiningInv, RegistryInv
<1> QED BY <1>1, AlwaysJoining, PTL

(* Every session that listeners know of is told closed once: by the worker's *)
(* scope exit or by its link, whichever of them ends it.                     *)
THEOREM AlwaysToldClosedOnce == JoiningSpec => []ToldClosedOnce
<1>1. JoiningInv => ToldClosedOnce
  BY DEF JoiningInv, SessionsInv, NodeTypeOK, TasksTold, ToldClosedOnce
<1> QED BY <1>1, AlwaysJoining, PTL

(* Registry and Joining agree on who is satisfied, and no instance sleeps    *)
(* without a reason.                                                         *)
THEOREM SatisfiedAreAlwaysPursued == JoiningSpec => []SatisfiedArePursued
<1>1. JoiningInv => SatisfiedArePursued BY DEF JoiningInv, InstancesInv
<1> QED BY <1>1, AlwaysJoining, PTL

(* An instance never counts a link that is down or leads to another peer.    *)
THEOREM OnlinesAreAlwaysUp == JoiningSpec => []OnlinesAreUp
<1>1. JoiningInv => OnlinesAreUp BY DEF JoiningInv, InstancesInv
<1> QED BY <1>1, AlwaysJoining, PTL

(* Whoever has asked to join and has no answer is served by a session that   *)
(* is still under way to the address.                                        *)
THEOREM JoinsAreAlwaysServed == JoiningSpec => []JoinsAreServed
<1>1. JoiningInv => JoinsAreServed BY DEF JoiningInv, InstancesInv
<1> QED BY <1>1, AlwaysJoining, PTL

(* Every variable keeps the values that the member it models can hold (of    *)
(* priorities, sums over the holders of needs, only that they follow).       *)
THEOREM JoiningTypeCorrect ==
  JoiningSpec => [](RegistryTypeOK /\ ReestTypeOK /\ NodeTypeOK /\ InstancesTypeOK)
<1>1. JoiningInv => RegistryTypeOK /\ ReestTypeOK /\ NodeTypeOK /\ InstancesTypeOK
  BY DEF JoiningInv, RegistryInv, SessionsInv, InstancesInv
<1> QED BY <1>1, AlwaysJoining, PTL

==============================================================================
