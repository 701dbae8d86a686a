-------------------------------- MODULE Bytes --------------------------------
(***************************************************************************)
(* core/bytes: a Bytes object (Container) refers to a Buffer, which copies *)
(* share until one of them is altered.  A Buffer is a doubly linked list   *)
(* of Chunks; a chunk uses a part of its memory, so that it can grow at    *)
(* both ends.  Cursor and Alter (User) point into the list and keep their  *)
(* position; the container knows its users, to send them away when its     *)
(* contents change.                                                        *)
(*                                                                         *)
(* The operations nest: removeTo removes from one object and writes to     *)
(* another, and each write may copy a shared buffer first.  They are       *)
(* written as functions of a state, the record Now, and an action installs *)
(* the result.                                                             *)
(*                                                                         *)
(* An operator named Bad<Definition> is that definition with a slip a      *)
(* maintainer could make; nothing uses it but the mutation checks.         *)
(***************************************************************************)
EXTENDS Integers, Sequences, SequencesExt, FiniteSetsExt

CONSTANTS
  Conts, NoCont,  (* the Bytes objects, and null Container*                  *)
  Users,          (* the Cursor and Alter objects                            *)
  Payloads,       (* the byte sequences that the program writes              *)
  Byte, Junk,     (* the bytes, and what memory holds before it is written   *)
  Counts,         (* the sizes that are asked for                            *)
  Cap,            (* Chunk::bufferSize                                       *)
  MaxSize,        (* bound: no object grows longer than this                 *)
  MaxChunks,      (* bound: the chunks that exist                            *)
  Slips           (* what the program does although the code gets it wrong,  *)
                  (* see May                                                 *)

ASSUME BytesAssumption ==
  /\ NoCont \notin Conts /\ Junk \in Byte
  /\ Payloads \subseteq Seq(Byte) /\ Counts \subseteq Nat \ {0}
  /\ Cap \in Nat \ {0} /\ MaxSize \in Nat
  /\ Slips \subseteq {"cutInside", "spliceInside", "moveUpTo", "moveOver", "removeOver",
                      "writeShared", "staleEnd", "leaveUsers"}

VARIABLES
  chunk,   (* the chunks that exist: _next, _prev, _begin and the bytes from *)
           (* _begin to _end                                                 *)
  buffer,  (* the buffers that exist: _firstChunk, _lastChunk, _size         *)
  bufOf,   (* Container::_buffer                                             *)
  user     (* User::_container, _chunk, _chunkPos, _pos                      *)

vars == <<chunk, buffer, bufOf, user>>

Null   == 0
NoUser == [on |-> NoCont, chunk |-> Null, chunkPos |-> 0, pos |-> 0]

Now == [chunk |-> chunk, buffer |-> buffer, bufOf |-> bufOf, user |-> user]

(* new: the first m numbers that are free in f.                              *)
FreeIds(f, m) ==
  LET free == (1..(Cardinality(DOMAIN f) + m)) \ DOMAIN f
  IN  [i \in 1..m |-> CHOOSE x \in free : Cardinality({y \in free : y < x}) = i - 1]
Without(f, S) == [x \in DOMAIN f \ S |-> f[x]]
With(f, x, v) == [y \in DOMAIN f \union {x} |-> IF y = x THEN v ELSE f[y]]

-----------------------------------------------------------------------------
(* Chunks and buffers.                                                       *)
Size(k, c) == Len(k[c].data)
Room(k, c) == Cap - k[c].begin - Size(k, c)

(* The chunks from c on, in the order of _next; a list that closes on itself *)
(* is cut off.                                                               *)
Chain(k, c) ==
  LET f[d \in Nat, n \in Nat] ==
        IF d = Null \/ n = 0 THEN <<>>
        ELSE <<d>> \o IF d \in DOMAIN k THEN f[k[d].next, n - 1] ELSE <<>>
  IN  f[c, Cardinality(DOMAIN k) + 1]

Contents(k, ids) ==
  LET f[n \in Nat] == IF n = 0 THEN <<>> ELSE f[n - 1] \o k[ids[n]].data
  IN  f[Len(ids)]
Sizes(k, ids, m) == Len(Contents(k, SubSeq(ids, 1, m)))

(* The buffer of container c, and its length.                                *)
Buf(s, c)    == s.buffer[s.bufOf[c]]
Share(s, b)  == Cardinality({c \in Conts : s.bufOf[c] = b})
IsEmpty(s, c) == IF s.bufOf[c] = Null THEN TRUE ELSE Buf(s, c).first = Null
SizeOf(s, c) == IF s.bufOf[c] = Null THEN 0 ELSE Buf(s, c).size
Value(s, c)  == IF s.bufOf[c] = Null THEN <<>>
                ELSE Contents(s.chunk, Chain(s.chunk, Buf(s, c).first))

(* The end of an operation.                                                  *)
Fits(s) == Cardinality(DOMAIN s.chunk) <= MaxChunks /\ \A c \in Conts : SizeOf(s, c) <= MaxSize
Becomes(s) ==
  \E t \in {s} : Fits(t) /\ chunk' = t.chunk /\ buffer' = t.buffer /\ bufOf' = t.bufOf /\ user' = t.user

(* New chunks for the bytes d, full but for the last, linked behind p.       *)
Chunked(k, d, p) ==
  LET m   == (Len(d) + Cap - 1) \div Cap
      ids == FreeIds(k, m)
      rec(i) == [next  |-> IF i < m THEN ids[i + 1] ELSE Null,
                 prev  |-> IF i > 1 THEN ids[i - 1] ELSE p,
                 begin |-> 0,
                 data  |-> SubSeq(d, (i - 1) * Cap + 1, Min({i * Cap, Len(d)}))]
      at(c)  == CHOOSE i \in 1..m : ids[i] = c
  IN  [chunk |-> [c \in DOMAIN k \union Range(ids) |-> IF c \in DOMAIN k THEN k[c] ELSE rec(at(c))],
       ids   |-> ids]

(* Container::setBuffer, with a new buffer unless an empty one is there.     *)
SetBuffer(s, c, k, first, last, size) ==
  LET b == IF s.bufOf[c] = Null THEN FreeIds(s.buffer, 1)[1] ELSE s.bufOf[c]
  IN  [s EXCEPT !.chunk = k, !.bufOf[c] = b,
                !.buffer = With(@, b, [first |-> first, last |-> last, size |-> size])]

(* intrusive_ptr_release: the last container to let go deletes the buffer    *)
(* with its chunks.                                                          *)
Released(s, c) ==
  LET b == s.bufOf[c]
  IN  IF b = Null THEN s
      ELSE IF Share(s, b) > 1 THEN [s EXCEPT !.bufOf[c] = Null]
      ELSE [s EXCEPT !.bufOf[c] = Null, !.buffer = Without(@, {b}),
                     !.chunk = Without(@, Range(Chain(@, Buf(s, c).first)))]

-----------------------------------------------------------------------------
(* Users.                                                                    *)

(* User::reset of the users of c but u.                                      *)
Dismissed(s, c, S) ==
  [s EXCEPT !.user = [v \in Users |-> IF v \notin S /\ @[v].on = c THEN NoUser ELSE @[v]]]

(* Cursor::advance, both directions: how far it comes in the list.           *)
RECURSIVE Forward(_, _, _)
Forward(k, r, n) ==
  LET can  == Size(k, r.chunk) - r.chunkPos
      next == k[r.chunk].next
  IN  IF can > n THEN [r EXCEPT !.chunkPos = @ + n, !.pos = @ + n]
      ELSE IF next = Null THEN [r EXCEPT !.chunkPos = @ + can, !.pos = @ + can]
      ELSE Forward(k, [r EXCEPT !.chunk = next, !.chunkPos = 0, !.pos = @ + can], n - can)

RECURSIVE Backward(_, _, _)
Backward(k, r, n) ==
  LET prev == k[r.chunk].prev
  IN  IF r.chunkPos >= n THEN [r EXCEPT !.chunkPos = @ - n, !.pos = @ - n]
      ELSE IF prev = Null THEN [r EXCEPT !.chunkPos = 0, !.pos = @ - r.chunkPos]
      ELSE Backward(k, [r EXCEPT !.chunk = prev, !.chunkPos = Size(k, prev), !.pos = @ - r.chunkPos],
                    n - r.chunkPos)

Moved(k, r, n) == CASE r.chunk = Null \/ n = 0 -> r
                    [] r.chunk # Null /\ n > 0 -> Forward(k, r, n)
                    [] r.chunk # Null /\ n < 0 -> Backward(k, r, -n)

(* User::User: at the beginning, or at the end.                              *)
AtBegin(s, c) == [NoUser EXCEPT !.on = c, !.chunk = IF s.bufOf[c] = Null THEN Null ELSE Buf(s, c).first]
AtEnd(s, c) ==
  IF IsEmpty(s, c) THEN [NoUser EXCEPT !.on = c]
  ELSE [on |-> c, chunk |-> Buf(s, c).last, chunkPos |-> Size(s.chunk, Buf(s, c).last),
        pos |-> Buf(s, c).size]
At(s, c, p) == Moved(s.chunk, AtBegin(s, c), p)

Begun(s, u) == [s EXCEPT !.user[u] = AtBegin(s, @.on)]
Ended(s, u) == [s EXCEPT !.user[u] = AtEnd(s, @.on)]

(* The user stands behind the last byte of a chunk that is not the last.     *)
Stale(s, r) == r.chunk # Null /\ r.chunkPos >= Size(s.chunk, r.chunk) /\ s.chunk[r.chunk].next # Null

-----------------------------------------------------------------------------
(* Alter::copyBufferBecauseOfWrite: the other users of the container lose    *)
(* their place; a shared buffer is copied into full chunks.                  *)
BadOwned(s, u) == Dismissed(s, s.user[u].on, {u})
CopiedBuffer(s, c, n) ==
  LET b == FreeIds(s.buffer, 1)[1]
  IN  [s EXCEPT !.chunk = n.chunk, !.bufOf[c] = b,
                !.buffer = With(@, b, [first |-> n.ids[1], last |-> Last(n.ids), size |-> SizeOf(s, c)])]
Found(s, u) == [s EXCEPT !.user[u] = At(s, @.on, @.pos)]
Owned(s, u) ==
  LET c == s.user[u].on
      t == Dismissed(s, c, {u})
  IN  IF s.bufOf[c] = Null \/ Share(s, s.bufOf[c]) = 1 THEN t
      ELSE Found(CopiedBuffer(t, c, Chunked(s.chunk, Value(s, c), Null)), u)

(* The copy of an empty buffer is no buffer, and is dereferenced: the        *)
(* program does not alter an object that shares one.                         *)
Copyable(s, u) == LET c == s.user[u].on IN ~ (s.bufOf[c] # Null /\ IsEmpty(s, c) /\ Share(s, s.bufOf[c]) > 1)

(* The bytes d behind the last one: the last chunk is filled, the rest is in *)
(* the new chunks n.                                                         *)
Filled(k, l, d) == [k EXCEPT ![l].data = @ \o SubSeq(d, 1, Min({Len(d), Room(k, l)}))]
Linked(s, c, n, size) ==
  LET b == Buf(s, c)
  IN  IF n.ids = <<>> THEN SetBuffer(s, c, n.chunk, b.first, b.last, b.size + size)
      ELSE SetBuffer(s, c, [n.chunk EXCEPT ![b.last].next = n.ids[1]], b.first, Last(n.ids), b.size + size)
Started(s, c, n, size) == SetBuffer(s, c, n.chunk, n.ids[1], Last(n.ids), size)
Extended(s, c, d) ==
  LET l == Buf(s, c).last
  IN  IF d = <<>> THEN s
      ELSE IF IsEmpty(s, c) THEN Started(s, c, Chunked(s.chunk, d, Null), Len(d))
      ELSE Linked(s, c, Chunked(Filled(s.chunk, l, d), SubSeq(d, Room(s.chunk, l) + 1, Len(d)), l), Len(d))

(* n bytes in front of the first one: the first chunk f is filled to its     *)
(* beginning, the rest is in the new chunks w, full but for the first.       *)
JunkOf(n) == [i \in 1..n |-> Junk]
Lowered(k, f, g) == [k EXCEPT ![f].begin = @ - g, ![f].data = JunkOf(g) \o @]
Topped(w, a) == [w.chunk EXCEPT ![w.ids[1]].begin = Cap - a, ![w.ids[1]].data = JunkOf(a)]
Headed(s, c, f, w, n, a) ==
  LET b == Buf(s, c)
  IN  IF f = Null THEN SetBuffer(s, c, Topped(w, a), w.ids[1], Last(w.ids), n)
      ELSE IF w.ids = <<>> THEN SetBuffer(s, c, w.chunk, f, b.last, b.size + n)
      ELSE SetBuffer(s, c, [Topped(w, a) EXCEPT ![Last(w.ids)].next = f, ![f].prev = Last(w.ids)],
                     w.ids[1], b.last, b.size + n)
Prepended(s, c, n) ==
  LET f == IF IsEmpty(s, c) THEN Null ELSE Buf(s, c).first
      g == IF f = Null THEN 0 ELSE Min({n, s.chunk[f].begin})
      m == (n - g + Cap - 1) \div Cap
  IN  Headed(s, c, f, Chunked(IF f = Null THEN s.chunk ELSE Lowered(s.chunk, f, g), JunkOf(m * Cap), Null),
             n, n - g - (m - 1) * Cap)

(* The chunks from r on, with the bytes d over those that follow r.          *)
Replaced(k, r, d, ids) ==
  LET new(i) == LET o == Sizes(k, ids, i - 1) - r.chunkPos
                IN  [j \in 1..Size(k, ids[i]) |->
                       IF j + o \in DOMAIN d THEN d[j + o] ELSE k[ids[i]].data[j]]
  IN  [c \in DOMAIN k |->
         IF c \in Range(ids) THEN [k[c] EXCEPT !.data = new(CHOOSE i \in DOMAIN ids : ids[i] = c)] ELSE k[c]]

(* The bytes d at the place of u, over what is there and then behind it.     *)
Overlaid(s, u, d) ==
  LET r == s.user[u]
  IN  Extended([s EXCEPT !.chunk = Replaced(@, r, d, Chain(@, r.chunk))],
               r.on, SubSeq(d, SizeOf(s, r.on) - r.pos + 1, Len(d)))

(* performing::execute with an AlterPromotor: prepareWriteBuffer and commit  *)
(* until the source has ended; the last prepareWriteBuffer leaves u at the   *)
(* beginning of the next chunk if there is one.                              *)
Passed(s, u, n) ==
  LET r == s.user[u]
  IN  [s EXCEPT !.user[u] = IF r.chunk # Null THEN Forward(s.chunk, r, n) ELSE At(s, r.on, n)]
Written(s, u, d) == Passed(Overlaid(s, u, d), u, Len(d))

(* Alter::prepareWriteBuffer: where it gives memory, and how much.           *)
PreparedAt(s, u) == LET r == s.user[u] IN IF r.chunk = Null THEN r ELSE Forward(s.chunk, r, 0)
PreparedSize(s, r) ==
  LET free == Cap - s.chunk[r.chunk].begin - r.chunkPos
  IN  CASE r.chunk = Null -> Cap
        [] r.chunk # Null /\ s.chunk[r.chunk].next # Null -> Size(s.chunk, r.chunk) - r.chunkPos
        [] r.chunk # Null /\ s.chunk[r.chunk].next = Null -> IF free > 0 THEN free ELSE Cap

(* Alter::commitWriteBuffer of d: in the chunk, beyond its end, or as a new  *)
(* chunk.                                                                    *)
Behind(s, u, r, n) ==
  [s EXCEPT !.user[u] =
     IF r.chunk # Null /\ r.chunkPos + n <= Size(s.chunk, r.chunk)
     THEN [r EXCEPT !.chunkPos = @ + n, !.pos = @ + n]
     ELSE AtEnd(s, r.on)]
Committed(s, u, d, r) == Behind(Overlaid([s EXCEPT !.user[u] = r], u, d), u, r, Len(d))

-----------------------------------------------------------------------------
(* slip: the chunk in front of what was removed keeps its _next.             *)
BadRelinked(k, front, tail) == IF tail = Null THEN k ELSE [k EXCEPT ![tail].prev = front]
(* The list without what was between front and tail.                         *)
Relinked(k, front, tail) ==
  LET k1 == IF tail = Null THEN k ELSE [k EXCEPT ![tail].prev = front]
  IN  IF front = Null THEN k1 ELSE [k1 EXCEPT ![front].next = tail]

(* Alter::removeImpl, its end: from r on the chunks gone are taken out, and  *)
(* the first rest bytes of the chunk tail that follows.                      *)
Shortened(k, c, n) ==
  IF n = 0 THEN k ELSE [k EXCEPT ![c].begin = @ + n, ![c].data = SubSeq(@, n + 1, Len(@))]
Bypassed(s, u, r, k, gone, front, tail) ==
  LET b == s.bufOf[r.on]
  IN  IF gone = <<>> THEN [s EXCEPT !.chunk = k, !.user[u] = r]
      ELSE [s EXCEPT
              !.chunk = [Relinked(k, front, tail) EXCEPT ![gone[1]].prev = Null, ![Last(gone)].next = Null],
              !.buffer[b].first = IF front = Null THEN tail ELSE @,
              !.buffer[b].last  = IF tail = Null THEN front ELSE @,
              !.user[u] = IF tail # Null THEN [r EXCEPT !.chunk = tail, !.chunkPos = 0]
                          ELSE [r EXCEPT !.chunk = front,
                                         !.chunkPos = IF front = Null THEN 0 ELSE Size(k, front)]]
Split(s, u, r, head, gone, tail, rest) ==
  [st   |-> Bypassed(s, u, r, Shortened(s.chunk, tail, rest), gone, s.chunk[r.chunk].prev, tail),
   head |-> head, gone |-> gone,
   tail |-> IF rest = 0 THEN <<>> ELSE SubSeq(s.chunk[tail].data, 1, rest)]

(* ids are the chunks from r on, todo the bytes to remove from there, and m  *)
(* the number of whole chunks among them.                                    *)
Whole(k, ids, todo) == Max({j \in 0..Len(ids) : Sizes(k, ids, j) <= todo})
TakenFrom(s, u, r, todo, head, ids, m) ==
  Split(s, u, r, head, SubSeq(ids, 1, m), IF m < Len(ids) THEN ids[m + 1] ELSE Null,
        todo - Sizes(s.chunk, ids, m))
TakenBy(s, u, r, todo, head, ids) == TakenFrom(s, u, r, todo, head, ids, Whole(s.chunk, ids, todo))
TakenOut(s, u, r, todo, head) == TakenBy(s, u, r, todo, head, Chain(s.chunk, r.chunk))

(* Alter::removeImpl.  Where it begins in the middle of a chunk it takes the *)
(* chunk's end, or moves the end down; _end stays in that case.              *)
Removal(s, u, n) ==
  LET r      == s.user[u]
      b      == s.bufOf[r.on]
      data   == s.chunk[r.chunk].data
      size   == Min({n, s.buffer[b].size - r.pos})
      inside == r.chunkPos > 0 /\ r.chunkPos < Len(data)
      left   == Len(data) - r.chunkPos
      next   == s.chunk[r.chunk].next
      t      == [s EXCEPT !.buffer[b].size = @ - size]
  IN  CASE b = Null \/ r.chunk = Null -> [st |-> s, head |-> <<>>, gone |-> <<>>, tail |-> <<>>]
        [] b # Null /\ r.chunk # Null /\ inside /\ left > size ->
             [st   |-> [t EXCEPT !.chunk[r.chunk].data =
                          SubSeq(@, 1, r.chunkPos) \o SubSeq(@, r.chunkPos + size + 1, Len(@))
                            \o SubSeq(@, Len(@) - size + 1, Len(@))],
              head |-> SubSeq(data, r.chunkPos + 1, r.chunkPos + size), gone |-> <<>>, tail |-> <<>>]
        [] b # Null /\ r.chunk # Null /\ inside /\ left <= size ->
             TakenOut([t EXCEPT !.chunk[r.chunk].data = SubSeq(@, 1, r.chunkPos)], u,
                      IF next = Null THEN r ELSE [r EXCEPT !.chunk = next, !.chunkPos = 0],
                      size - left, SubSeq(data, r.chunkPos + 1, Len(data)))
        [] b # Null /\ r.chunk # Null /\ ~inside -> TakenOut(t, u, r, size, <<>>)

(* Alter::write of the chunks ids, size bytes.  In the middle of a chunk it  *)
(* is torn first, with the links of the new half the wrong way round.        *)
Torn(k, r, x) ==
  [With(k, x, [next |-> r.chunk, prev |-> k[r.chunk].next, begin |-> 0,
               data |-> SubSeq(k[r.chunk].data, r.chunkPos + 1, Len(k[r.chunk].data))])
     EXCEPT ![r.chunk].prev = x, ![r.chunk].next = x, ![r.chunk].data = SubSeq(@, 1, r.chunkPos)]
Inserted(s, u, k, f, l, size) ==
  LET r == s.user[u]
      n == k[r.chunk].next
      p == k[r.chunk].prev
      b == Buf(s, r.on)
  IN  IF r.chunkPos >= Size(k, r.chunk)
      THEN [SetBuffer(s, r.on, [Relinked(k, l, n) EXCEPT ![r.chunk].next = f, ![f].prev = r.chunk],
                      b.first, IF n = Null THEN l ELSE b.last, b.size + size)
              EXCEPT !.user[u] = [r EXCEPT !.pos = @ + size, !.chunk = IF n = Null THEN l ELSE n,
                                           !.chunkPos = IF n = Null THEN Size(k, l) ELSE 0]]
      ELSE [SetBuffer(s, r.on, [Relinked(k, p, f) EXCEPT ![r.chunk].prev = l, ![l].next = r.chunk],
                      IF p = Null THEN f ELSE b.first, b.last, b.size + size)
              EXCEPT !.user[u].pos = @ + size]
Spliced(s, u, ids, size) ==
  LET r == s.user[u]
      inside == r.chunkPos > 0 /\ r.chunkPos < Size(s.chunk, r.chunk)
  IN  IF IsEmpty(s, r.on) THEN Ended(SetBuffer(s, r.on, s.chunk, ids[1], Last(ids), size), u)
      ELSE Inserted(s, u, IF inside THEN Torn(s.chunk, r, FreeIds(s.chunk, 1)[1]) ELSE s.chunk,
                    ids[1], Last(ids), size)

-----------------------------------------------------------------------------
(* A call that the code gets wrong is made only where Slips names it:        *)
(*   cutInside     remove in the middle of a chunk, not up to its end        *)
(*   spliceInside  chunks put into the middle of a chunk                     *)
(*   moveUpTo      write(Bytes&&, maxSize) of a longer object                *)
(*   moveOver      write(Bytes&&) of an object whose buffer is shared, not   *)
(*                 at the end: it overwrites instead of inserting            *)
(*   removeOver    removeTo an Alter that is not at the end: it overwrites   *)
(*                 with parts of chunks and inserts whole ones               *)
(*   writeShared   prepareWriteBuffer, or read to an Alter, in a buffer that *)
(*                 is shared or has other users                              *)
(*   staleEnd      remove or read after a commit that ended with a chunk     *)
(*   leaveUsers    the source of a moving write, or the target of a move     *)
(*                 assignment, has users                                     *)
May(slip, wrong) == wrong => slip \in Slips

Placed(u) == user[u].on # NoCont
Alters(u) == Placed(u) /\ Copyable(Now, u)
Ends(u)   == user[u].pos = SizeOf(Now, user[u].on)
Used(c, S) == \E v \in Users \ S : user[v].on = c
Exclusive(u) == ~ Used(user[u].on, {u}) /\ (bufOf[user[u].on] # Null => Share(Now, bufOf[user[u].on]) = 1)

(* The bytes that a read of n finds behind user r, and the user behind them. *)
Ahead(s, r, n) == IF r.chunk = Null \/ Stale(s, r) THEN r ELSE Moved(s.chunk, r, n)
Between(s, r, r1) == IF r.on = NoCont THEN <<>> ELSE SubSeq(Value(s, r.on), r.pos + 1, r1.pos)

(* Bytes::begin and end, assignment and destruction of a user.               *)
Place(u, c, begin) == Becomes([Now EXCEPT !.user[u] = IF begin THEN AtBegin(Now, c) ELSE AtEnd(Now, c)])
CopyUser(u, v)     == Becomes([Now EXCEPT !.user[u] = user[v]])
Leave(u)           == Becomes([Now EXCEPT !.user[u] = NoUser])

(* Cursor::advance.                                                          *)
CursorAdvance(u, n) == Placed(u) /\ Becomes([Now EXCEPT !.user[u] = Moved(chunk, @, n)])

(* Cursor::advanceChunks by one chunk, which more are repetitions of.        *)
AdvanceChunks(u, n) ==
  LET r == user[u]
      k == chunk[r.chunk]
      start == r.pos - r.chunkPos
  IN  /\ Placed(u) /\ r.chunk # Null
      /\ Becomes([Now EXCEPT !.user[u] =
           IF n > 0
           THEN [r EXCEPT !.pos = start + Len(k.data), !.chunk = IF k.next = Null THEN @ ELSE k.next,
                          !.chunkPos = IF k.next = Null THEN Len(k.data) ELSE 0]
           ELSE [r EXCEPT !.chunkPos = 0, !.chunk = IF k.prev = Null THEN @ ELSE k.prev,
                          !.pos = IF k.prev = Null THEN start ELSE start - Size(chunk, k.prev)]])

(* Cursor::read into memory.                                                 *)
Read(u, n) ==
  /\ Placed(u) /\ May("staleEnd", Stale(Now, user[u]))
  /\ Becomes([Now EXCEPT !.user[u] = Ahead(Now, @, n)])

(* Alter::advance: what Cursor::advance could not do is added to the object. *)
Grown(s, u, rest) ==
  IF rest > 0 THEN Ended(Extended(s, s.user[u].on, JunkOf(rest)), u)
  ELSE Begun(Prepended(s, s.user[u].on, -rest), u)
Advance(u, n) ==
  \E s \in {[Now EXCEPT !.user[u] = Moved(chunk, @, n)]} :
    LET rest == n - (s.user[u].pos - user[u].pos)
    IN  /\ Placed(u)
        /\ \/ rest = 0 /\ Becomes(s)
           \/ rest # 0 /\ Copyable(Now, u) /\ Becomes(Grown(Owned(s, u), u, rest))

(* Alter::continuousData4Write, and a byte that the caller puts there.       *)
Poke(u, x) ==
  LET t == Owned(Now, u)
      r == t.user[u]
  IN  /\ Alters(u) /\ user[u].chunk # Null /\ user[u].chunkPos < Size(chunk, user[u].chunk)
      /\ Becomes([t EXCEPT !.chunk[r.chunk].data[r.chunkPos + 1] = x])

(* Alter::prepareWriteBuffer and commitWriteBuffer, with what the caller     *)
(* writes in between.                                                        *)
Fill(u, d) ==
  LET r == PreparedAt(Now, u)
  IN  /\ Placed(u) /\ Len(d) <= PreparedSize(Now, r)
      /\ May("writeShared", ~ Exclusive(u))
      /\ Becomes(Committed(Now, u, d, r))

(* Alter::write from memory.                                                 *)
Write(u, d) ==
  Alters(u) /\ Becomes(Written(Owned(Now, u), u, d))

(* Alter::write from a cursor, which loses its place if it is in the object  *)
(* that is written to.                                                       *)
Transferred(s, v, u, r) == [Written(s, u, Between(s, s.user[v], r)) EXCEPT !.user[v] = r]
WriteFrom(u, v, n) ==
  /\ Alters(u) /\ u # v /\ May("staleEnd", Stale(Now, user[v]))
  /\ \E t \in {Owned(Now, u)} : Becomes(Transferred(t, v, u, Ahead(t, t.user[v], n)))

(* Cursor::read to an Alter: the same, without copyBufferBecauseOfWrite.     *)
ReadTo(v, u, n) ==
  /\ Placed(u) /\ Placed(v) /\ user[u].on # user[v].on
  /\ May("writeShared", ~ Exclusive(u)) /\ May("staleEnd", Stale(Now, user[v]))
  /\ Becomes(Transferred(Now, v, u, Ahead(Now, user[v], n)))

CutsInside(s, u, n) ==
  LET r == s.user[u]
  IN  r.chunk # Null /\ r.chunkPos > 0 /\ r.chunkPos + n < Size(s.chunk, r.chunk)

(* Alter::remove, and removeTo with memory for what is removed.              *)
MayRemove(s, u, n) == May("cutInside", CutsInside(s, u, n)) /\ May("staleEnd", Stale(s, s.user[u]))
RemoveOut(u, n) ==
  /\ Alters(u)
  /\ \E t \in {Owned(Now, u)} :
       /\ MayRemove(t, u, n)
       /\ \E x \in {Removal(t, u, n)} : Becomes([x.st EXCEPT !.chunk = Without(@, Range(x.gone))])

(* Alter::removeTo with an Alter: parts of chunks are written to it, whole   *)
(* chunks change hands.                                                      *)
PutBytes(s, u, d)    == IF d = <<>> THEN s ELSE Written(Owned(s, u), u, d)
PutChunks(s, u, ids) == IF ids = <<>> THEN s ELSE Spliced(Owned(s, u), u, ids, Len(Contents(s.chunk, ids)))
RemoveTo(u, v, n) ==
  /\ Alters(u) /\ Alters(v) /\ user[u].on # user[v].on
  /\ May("removeOver", ~ Ends(v))
  /\ \E t \in {Owned(Now, u)} :
       /\ MayRemove(t, u, n)
       /\ \E x \in {Removal(t, u, n)} :
            Becomes(PutBytes(PutChunks(PutBytes(x.st, v, x.head), v, x.gone), v, x.tail))

(* Buffer::detachData of c, and the chunks beyond the first m deleted; over  *)
(* bytes are cut off at the end of the last one.                             *)
Detached(s, c, ids, m, over) ==
  LET k == Without(s.chunk, Range(SubSeq(ids, m + 1, Len(ids))))
  IN  [s EXCEPT !.chunk = IF over <= 0 THEN k ELSE [k EXCEPT ![ids[m]].data = SubSeq(@, 1, Len(@) - over)],
                !.buffer[s.bufOf[c]] = [first |-> Null, last |-> Null, size |-> 0]]

(* Alter::write(Bytes&&, maxSize).  A source whose buffer is shared is       *)
(* copied; else its chunks change hands, without those beyond maxSize.  The  *)
(* size stays what it was before the last of them was cut.                   *)
MoveIn(u, c, max) ==
  LET r == user[u]
  IN  /\ Alters(u) /\ c # r.on /\ ~ IsEmpty(Now, c)
      /\ \/ /\ Share(Now, bufOf[c]) > 1
            /\ May("moveOver", ~ Ends(u))
            /\ Becomes(Written(Owned(Now, u), u, SubSeq(Value(Now, c), 1, Min({max, SizeOf(Now, c)}))))
         \/ /\ Share(Now, bufOf[c]) = 1
            /\ May("moveUpTo", max < SizeOf(Now, c))
            /\ May("leaveUsers", Used(c, {}))
            /\ May("spliceInside", r.chunkPos > 0 /\ r.chunkPos < Size(chunk, r.chunk))
            /\ \E ids \in {Chain(chunk, Buf(Now, c).first)} :
               \E m \in {Max({j \in 1..Len(ids) : j = 1 \/ Sizes(chunk, ids, j - 1) < max})} :
                 LET size == Sizes(chunk, ids, m)
                 IN  Becomes(Spliced(Detached(Owned(Now, u), c, ids, m, size - max), u, SubSeq(ids, 1, m), size))

-----------------------------------------------------------------------------
(* Container::operator=(const Container&).                                   *)
Copy(c, d) ==
  Becomes(IF bufOf[c] = bufOf[d] THEN Now
          ELSE Dismissed([Released(Now, c) EXCEPT !.bufOf[c] = bufOf[d]], c, {}))

(* Container::operator=(Container&&): the users of the source go with the    *)
(* buffer; of two that share one the source is cleared.                      *)
MoveTo(c, d) ==
  LET t == [Released(Now, c) EXCEPT !.bufOf[c] = bufOf[d], !.bufOf[d] = Null]
  IN  /\ May("leaveUsers", Used(c, {}))
      /\ Becomes(IF bufOf[c] = bufOf[d] THEN Dismissed(Released(Now, d), d, {})
                 ELSE [t EXCEPT !.user = [u \in Users |-> IF @[u].on = d THEN [@[u] EXCEPT !.on = c] ELSE @[u]]])

(* Bytes::clear and ~Container.                                              *)
Clear(c) == Becomes(Released(Dismissed(Now, c, {}), c))

NoChunks  == [c \in {} |-> NoUser]
Init == /\ chunk = NoChunks /\ buffer = NoChunks
        /\ bufOf = [c \in Conts |-> Null]
        /\ user = [u \in Users |-> NoUser]

Signed == Counts \union {-n : n \in Counts}
Next ==
  \/ \E u \in Users :
       \/ \E c \in Conts, begin \in BOOLEAN : Place(u, c, begin)
       \/ Leave(u)
       \/ \E n \in Signed : CursorAdvance(u, n) \/ Advance(u, n)
       \/ \E n \in {-1, 1} : AdvanceChunks(u, n)
       \/ \E n \in Counts : Read(u, n) \/ RemoveOut(u, n)
       \/ \E x \in Byte \ {Junk} : Poke(u, x)
       \/ \E d \in Payloads : Fill(u, d) \/ Write(u, d)
       \/ \E c \in Conts, max \in Counts \union {MaxSize} : MoveIn(u, c, max)
  \/ \E u, v \in Users :
       \/ CopyUser(u, v)
       \/ \E n \in Counts : WriteFrom(u, v, n) \/ ReadTo(u, v, n) \/ RemoveTo(u, v, n)
  \/ \E c \in Conts : Clear(c)
  \/ \E c, d \in Conts : c # d /\ (Copy(c, d) \/ MoveTo(c, d))

Spec == Init /\ [][Next]_vars

-----------------------------------------------------------------------------
(* Chunk::consistent, Buffer::consistent and User::consistent.               *)
ChunkConsistent(c) ==
  LET k == chunk[c]
  IN  /\ k.data # <<>> /\ k.begin >= 0 /\ k.begin + Len(k.data) <= Cap
      /\ k.prev # Null => k.prev \in DOMAIN chunk /\ chunk[k.prev].next = c
      /\ k.next # Null => k.next \in DOMAIN chunk /\ chunk[k.next].prev = c

ChainOf(b) == Chain(chunk, buffer[b].first)
BufferConsistent(b) ==
  LET ids == ChainOf(b)
  IN  /\ Range(ids) \subseteq DOMAIN chunk
      /\ \A c \in Range(ids) : ChunkConsistent(c)
      /\ ids = <<>> => buffer[b].last = Null
      /\ ids # <<>> => chunk[ids[1]].prev = Null /\ Last(ids) = buffer[b].last /\ chunk[Last(ids)].next = Null
      /\ buffer[b].size = Len(Contents(chunk, ids))

UserConsistent(r) ==
  IF r.on = NoCont \/ r.chunk = Null THEN r.chunk = Null /\ r.chunkPos = 0 /\ r.pos = 0
  ELSE /\ bufOf[r.on] # Null
       /\ \E i \in DOMAIN ChainOf(bufOf[r.on]) :
            /\ r.chunk = ChainOf(bufOf[r.on])[i]
            /\ r.chunkPos <= Size(chunk, r.chunk)
            /\ r.pos = Sizes(chunk, ChainOf(bufOf[r.on]), i - 1) + r.chunkPos

(* The asserts of core/bytes: lists are linked in both directions, sizes are *)
(* what the chunks hold, and a user points into the buffer of its object, at *)
(* its position.  No chunk is in two buffers, and none is left in no buffer. *)
Consistent ==
  /\ \A c \in Conts : bufOf[c] # Null => bufOf[c] \in DOMAIN buffer
  /\ \A b \in DOMAIN buffer : Share(Now, b) > 0 /\ BufferConsistent(b)
  /\ \A u \in Users : UserConsistent(user[u])
  /\ \A c \in DOMAIN chunk : Cardinality({b \in DOMAIN buffer : c \in Range(ChainOf(b))}) = 1

(* Shared buffers, chunks and links are invisible: objects behave as values, *)
(* and users as positions in them.                                           *)
Flat == INSTANCE FlatBytes WITH
  val <- [c \in Conts |-> Value(Now, c)],
  at  <- [u \in Users |-> [on |-> user[u].on, pos |-> user[u].pos]]
ImplementsFlat == Flat!Spec
==============================================================================
