------------------------------ MODULE Clocking ------------------------------
(***************************************************************************)
(* The timer wheel of core/poll (Clocking and clocking::Bucket), as one    *)
(* record and the operators on it:                                         *)
(*   now      _now, the time up to which the wheel has been rolled         *)
(*   nearest  _nearestPoint, what the loop sleeps until                    *)
(*   point    BucketElement::_point of each timer                          *)
(*   bucket   _buckets: bucket i covers 2^i instants from its start        *)
(*   ready    the list of _readyBucket                                     *)
(*   prev     _readyAmountPrev                                             *)
(*   raise    needExecInFiber was called (taken over by the caller)        *)
(* The amounts that the code counts are the lengths of the lists.          *)
(*                                                                         *)
(* An operator named Bad<Definition> is that definition with a slip a      *)
(* maintainer could make; nothing uses it but the mutation checks.         *)
(***************************************************************************)
EXTENDS Integers, Sequences, SequencesExt, FiniteSetsExt

CONSTANTS
  Timers,  (* the timers                                                     *)
  Orders   (* bound: the number of buckets (63 in the code)                  *)

ASSUME ClockingAssumption == Orders \in Nat \ {0}

Order == 0 .. Orders - 1
(* Point::max(), later than every point.                                     *)
Never == 2 ^ Orders
Null  == [start |-> -1, els |-> <<>>]

NewWheel == [now |-> 0, nearest |-> 0, point |-> [t \in Timers |-> 0],
             bucket |-> [i \in Order |-> Null], ready |-> <<>>, prev |-> 0, raise |-> FALSE]

(* The position of the highest bit in which two points differ.               *)
bucketIndexFor(now, target) == Max({i \in Order : target \div 2^i # now \div 2^i})
calculateBucketStart(now, i) == (now \div 2^i) * 2^i + 2^i

(* The list that holds timer t, its _bucket.                                 *)
Lists(w, t) == {i \in Order : Contains(w.bucket[i].els, t)}
InReady(w, t) == Contains(w.ready, t)

-----------------------------------------------------------------------------
FlushReady(w) == [w EXCEPT !.prev = Len(w.ready), !.raise = @ \/ w.prev # Len(w.ready)]

(* Bucket::insert through getOrMakeBucket.                                   *)
Insert(w, i, start, t) ==
  [w EXCEPT !.bucket[i] = [start |-> IF @ = Null THEN start ELSE @.start,
                           els |-> Append(@.els, t)]]

(* start, of a timer whose next point is p.                                  *)
Start(w, t, p) ==
  LET v == [w EXCEPT !.point[t] = p]
      i == bucketIndexFor(w.now, p)
  IN  IF p <= w.now
      THEN FlushReady([v EXCEPT !.ready = Append(@, t)])
      ELSE Insert([v EXCEPT !.nearest = Min({@, p})], i, calculateBucketStart(w.now, i), t)

(* stop: the timer leaves the list it is in, if any.                         *)
Stop(w, t) ==
  [w EXCEPT !.ready = Remove(@, t),
            !.bucket = [i \in Order |-> [w.bucket[i] EXCEPT !.els = Remove(@, t)]]]

-----------------------------------------------------------------------------
(* Bucket::separateChildren, for one element of the bucket that starts at s: *)
(* it is due at s, or goes down to the child that covers its offset.         *)
Separate(w, t, s, time) ==
  LET p == w.point[t]
      i == Max({j \in Order : 2^j <= p - s})
  IN  IF p = s
      THEN [w EXCEPT !.ready = Append(@, t)]
      ELSE Insert([w EXCEPT !.nearest = IF time < p /\ p < @ THEN p ELSE @], i, s + 2^i, t)

(* slip: what lies below the bound bucket is kept.                           *)
BadRollOnce(w, time) ==
  LET b     == bucketIndexFor(w.now, time)
      bound == w.bucket[b]
      s     == IF bound = Null THEN calculateBucketStart(w.now, b) ELSE bound.start
  IN  FoldLeft(LAMBDA v, t : Separate(v, t, s, time),
               [w EXCEPT !.now = s, !.bucket[b] = Null], bound.els)

(* One iteration of rollBucketsTo: all that lies below the bound bucket is   *)
(* due, and the bound bucket is taken apart (FoldLeft: in list order).       *)
RollOnce(w, time) ==
  LET b     == bucketIndexFor(w.now, time)
      below == FoldLeft(LAMBDA l, i : l \o w.bucket[i - 1].els, <<>>, [i \in 1..b |-> i])
      bound == w.bucket[b]
      s     == IF bound = Null THEN calculateBucketStart(w.now, b) ELSE bound.start
      v     == [w EXCEPT !.now = s, !.ready = @ \o below,
                         !.bucket = [i \in Order |-> IF i <= b THEN Null ELSE w.bucket[i]]]
  IN  FoldLeft(LAMBDA x, t : Separate(x, t, s, time), v, bound.els)

(* Bucket::getNearestPoint of the first bucket that is not empty.            *)
NearestOf(w) ==
  LET full == {i \in Order : w.bucket[i].els # <<>>}
  IN  IF full = {} THEN Never ELSE Min({w.point[t] : t \in Range(w.bucket[Min(full)].els)})

(* fireTicks and rollBucketsTo.  Each iteration goes down at least one       *)
(* order, so there are at most Orders of them.                               *)
RollBucketsTo(w, time) ==
  LET v == [w EXCEPT !.nearest = IF time >= @ THEN Never ELSE @]
      r == FoldLeft(LAMBDA x, i : IF x.now < time THEN RollOnce(x, time) ELSE x,
                    v, [i \in 1..Orders |-> i])
  IN  FlushReady([r EXCEPT !.nearest = IF @ = Never THEN NearestOf(r) ELSE @])

(* distance2NextPoint.                                                       *)
Distance2NextPoint(w) == IF w.ready # <<>> THEN 0 ELSE w.nearest - w.now

-----------------------------------------------------------------------------
(* The wheel is sound: a timer is in one list at most, once; a bucket starts *)
(* where the current time says it does, and holds only points in its range   *)
(* (the asserts of Bucket), so that all of a lower bucket is due before any  *)
(* of a higher one; what is in _readyBucket is due; and the loop never       *)
(* sleeps past a point.                                                      *)
WheelSound(w) ==
  /\ w.now < Never
  /\ IsInjective(w.ready)
  /\ \A t \in Timers : Cardinality(Lists(w, t)) + (IF InReady(w, t) THEN 1 ELSE 0) <= 1
  /\ \A t \in Range(w.ready) : w.point[t] <= w.now
  /\ \A i \in Order : w.bucket[i] # Null =>
       /\ IsInjective(w.bucket[i].els)
       /\ w.bucket[i].start = calculateBucketStart(w.now, i)
       /\ \A t \in Range(w.bucket[i].els) :
            /\ w.point[t] \in w.bucket[i].start .. w.bucket[i].start + 2^i - 1
            /\ w.nearest <= w.point[t]
            /\ i = bucketIndexFor(w.now, w.point[t])
==============================================================================
