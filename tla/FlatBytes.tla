------------------------------ MODULE FlatBytes ------------------------------
(***************************************************************************)
(* What core/bytes promises: a Bytes object is a value, a sequence of      *)
(* bytes that no operation on another object changes, and a Cursor or      *)
(* Alter is a position in it.  Whatever alters a Bytes through one Alter   *)
(* takes the positions of all the others away.                             *)
(*                                                                         *)
(* An operation is the set of the states that it may lead to from state s. *)
(***************************************************************************)
EXTENDS Integers, Sequences

CONSTANTS
  Conts, NoCont,  (* the Bytes objects, and none                             *)
  Users,          (* the Cursor and Alter objects                            *)
  Payloads,       (* the byte sequences that the program writes              *)
  Byte, Junk,     (* the bytes, and the one that memory holds before that    *)
  Counts          (* the sizes that are asked for                            *)

VARIABLES
  val,  (* [Conts -> Seq(Byte)]                                              *)
  at    (* [Users -> [on, pos]]: the object and the position in it           *)

vars == <<val, at>>

Nowhere == [on |-> NoCont, pos |-> 0]

First(w, n)  == SubSeq(w, 1, IF n < Len(w) THEN n ELSE Len(w))
Rest(w, n)   == SubSeq(w, n + 1, Len(w))
JunkOf(n)    == [i \in 1..n |-> Junk]

(* The object of u, and the two parts of its value.                          *)
Of(s, u)     == s.at[u].on
Before(s, u) == First(s.val[Of(s, u)], s.at[u].pos)
After(s, u)  == Rest(s.val[Of(s, u)], s.at[u].pos)

(* The users of c but those in S are sent away.                              *)
Dismiss(s, c, S) ==
  [s EXCEPT !.at = [v \in Users |-> IF v \notin S /\ @[v].on = c THEN Nowhere ELSE @[v]]]

(* The object of u gets value w, and u stands at p.                          *)
Alter(s, u, w, p) == [Dismiss(s, Of(s, u), {u}) EXCEPT !.val[Of(s, u)] = w, !.at[u].pos = p]

-----------------------------------------------------------------------------
(* Positions.                                                                *)
Place(s, u)    == {[s EXCEPT !.at[u] = [on |-> c, pos |-> p]] : <<c, p>> \in
                     {<<c, 0>> : c \in Conts} \union {<<c, Len(s.val[c])>> : c \in Conts}}
CopyUser(s, u) == {[s EXCEPT !.at[u] = s.at[v]] : v \in Users}
Leave(s, u)    == {[s EXCEPT !.at[u] = Nowhere]}
Move(s, u)     == {[s EXCEPT !.at[u].pos = p] : p \in 0..Len(s.val[Of(s, u)])}

-----------------------------------------------------------------------------
(* Alterations.  w replaces what follows u, as far as it goes.               *)
Overwrite(s, u, w) ==
  Alter(s, u, Before(s, u) \o w \o Rest(After(s, u), Len(w)), s.at[u].pos + Len(w))
Write(s, u) == {Overwrite(s, u, w) : w \in Payloads}

(* The same with what follows v in another object.                           *)
WriteFrom(s, u) ==
  {LET t == Dismiss(s, Of(s, u), {u})
       w == IF Of(t, v) = NoCont THEN <<>> ELSE First(After(t, v), n)
   IN  IF w = <<>> THEN t ELSE [Overwrite(t, u, w) EXCEPT !.at[v].pos = @ + Len(w)]
   : v \in Users \ {u}, n \in Counts}

(* A move by n beyond the end, or in front of the beginning, makes the       *)
(* object that much longer.                                                  *)
Extend(s, u) ==
  {Alter(s, u, s.val[Of(s, u)] \o JunkOf(n - Len(After(s, u))), s.at[u].pos + n) :
     n \in {m \in Counts : m > Len(After(s, u))}}
  \union
  {Alter(s, u, JunkOf(n - s.at[u].pos) \o s.val[Of(s, u)], 0) :
     n \in {m \in Counts : m > s.at[u].pos}}

Poke(s, u) ==
  {Alter(s, u, [s.val[Of(s, u)] EXCEPT ![s.at[u].pos + 1] = x], s.at[u].pos) :
     x \in IF After(s, u) = <<>> THEN {} ELSE Byte}

Cut(s, u, n) == Alter(s, u, Before(s, u) \o Rest(After(s, u), n), s.at[u].pos)
Remove(s, u) == {Cut(s, u, n) : n \in Counts}

(* What is removed behind u is put at the end of another object.             *)
RemoveTo(s, u) ==
  {LET w == First(After(s, u), n)
   IN  IF w = <<>> THEN Cut(s, u, n) ELSE Overwrite(Cut(s, u, n), v, w)
   : n \in Counts, v \in {x \in Users : Of(s, x) \notin {NoCont, Of(s, u)} /\ After(s, x) = <<>>}}

(* An object is put in before u and is left empty; or, where u stands at the *)
(* end, a part of it is added and it keeps its value.                        *)
Insert(s, u) ==
  UNION {LET w == s.val[c]
         IN  {[Alter(s, u, Before(s, u) \o w \o After(s, u), s.at[u].pos + Len(w)) EXCEPT !.val[c] = <<>>]}
               \union IF After(s, u) # <<>> THEN {}
                      ELSE {Overwrite(s, u, First(w, n)) : n \in Counts \union {Len(w)}}
         : c \in Conts \ {Of(s, u)}}

-----------------------------------------------------------------------------
(* Whole objects.  Assigning what an object holds already may leave the      *)
(* positions alone.                                                          *)
Copy(s, c) ==
  UNION {{Dismiss([s EXCEPT !.val[c] = s.val[d]], c, {})}
           \union (IF s.val[c] = s.val[d] THEN {s} ELSE {}) : d \in Conts}

(* The positions move along, or, between equal objects, are lost.            *)
MoveTo(s, c) ==
  UNION {LET t == [s EXCEPT !.val[c] = s.val[d], !.val[d] = <<>>]
         IN  {[t EXCEPT !.at = [u \in Users |-> IF @[u].on = d THEN [@[u] EXCEPT !.on = c] ELSE @[u]]]}
               \union (IF s.val[c] = s.val[d] THEN {Dismiss(t, d, {})} ELSE {})
         : d \in Conts \ {c}}

Clear(s, c) == {Dismiss([s EXCEPT !.val[c] = <<>>], c, {})}

-----------------------------------------------------------------------------
Init == /\ val = [c \in Conts |-> <<>>]
        /\ at = [u \in Users |-> Nowhere]

State == [val |-> val, at |-> at]

Next ==
  \E s \in {State}, t \in {State'} :
    \/ \E u \in Users :
         \/ t \in Place(s, u) \/ t \in CopyUser(s, u) \/ t \in Leave(s, u)
         \/ /\ Of(s, u) # NoCont
            /\ \/ t \in Move(s, u) \/ t \in Poke(s, u) \/ t \in Write(s, u) \/ t \in WriteFrom(s, u)
               \/ t \in Extend(s, u) \/ t \in Remove(s, u) \/ t \in RemoveTo(s, u) \/ t \in Insert(s, u)
    \/ \E c \in Conts : t \in Copy(s, c) \/ t \in MoveTo(s, c) \/ t \in Clear(s, c)

Spec == Init /\ [][Next]_vars
==============================================================================
