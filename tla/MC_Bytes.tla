------------------------------- MODULE MC_Bytes -------------------------------
(* Two objects and two users; no payload begins another.                       *)
EXTENDS Bytes

CONSTANTS alpha, beta

Strings  == {<<alpha>>, <<beta, alpha, beta>>}
Symmetry == Permutations(Conts) \union Permutations(Users)

(* The state with places in a list for addresses, which are never compared.    *)
PlaceIn(ids, d) == {i \in DOMAIN ids : ids[i] = d}
Cell(ids, d) == IF d \notin DOMAIN chunk THEN <<>>
                ELSE <<chunk[d].begin, chunk[d].data, PlaceIn(ids, chunk[d].prev)>>
Lists == [c \in Conts |->
            IF bufOf[c] = Null THEN <<>>
            ELSE LET ids == ChainOf(bufOf[c])
                 IN  <<{d \in Conts : bufOf[d] = bufOf[c]}, buffer[bufOf[c]].size,
                       PlaceIn(ids, buffer[bufOf[c]].last), [i \in DOMAIN ids |-> Cell(ids, ids[i])]>>]
View == <<Lists, Cardinality(DOMAIN buffer), Cardinality(DOMAIN chunk),
          [u \in Users |->
             <<user[u].on, user[u].pos, user[u].chunkPos,
               IF user[u].on = NoCont THEN {} ELSE
               IF bufOf[user[u].on] = Null THEN {} ELSE
               PlaceIn(ChainOf(bufOf[user[u].on]), user[u].chunk)>>]>>
==============================================================================
