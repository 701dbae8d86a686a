-------------------------------- MODULE Stiac --------------------------------
(* Remote calls: two LocalEdges, one at each end of an ordered transport, and  *)
(* the links between them.  A link is an object at each end under one number:  *)
(* the edge that made it keeps it in _localLinks, the other in _remoteLinks.   *)
(* Passing an interface makes an interface link; a call with a result makes a  *)
(* promise link at the caller and a future link at the callee.  A number may   *)
(* be taken again only when both ends have let go of it, so removal is a       *)
(* conversation: the end that is done first keeps the link as a zombie.        *)
(* Definitions that start with Bad are slips the properties have to notice;    *)
(* no specification uses them.                                                 *)
EXTENDS Naturals, Sequences, FiniteSets, FiniteSetsExt

CONSTANTS Edges,    \* the two ends
          Quota     \* Quota[e][op]: how often end e puts, calls, cancels, uses

ASSUME TwoEdges == \E x, y \in Edges : x # y /\ Edges = {x, y}
ASSUME QuotaNat == Quota \in [Edges -> [{"put", "call", "cancel", "use"} -> Nat]]

VARIABLES
  state,   \* apil::State of each LocalEdge: work, fail, or null when destroyed
  links,   \* links[e][s][id]: _localLinks and _remoteLinks
  zombies, \* zombies[e][s]: their _zombieList
  wire,    \* what is on its way to each edge, from the peer's output on
  done     \* done[e][op]: quota used so far

vars == <<state, links, zombies, wire, done>>

-----------------------------------------------------------------------------
Sides   == {"local", "remote"}
Flip(s) == IF s = "local" THEN "remote" ELSE "local"
Peer(e) == CHOOSE p \in Edges : p # e

(* Numbers are taken lowest first: there is one for every link ever made.    *)
Ids == 1..Max({Quota[e]["put"] + Quota[e]["call"] : e \in Edges})

None == [kind |-> "none"]
(* A link of the n-th put or call of its maker.  open: the link still        *)
(* listens to its interface, promise or future.                              *)
Link(kind, n) == [kind |-> kind, n |-> n, open |-> TRUE]

(* A message names the link by the side it has at the receiver               *)
(* (linkIdCast of a MirroredId, and methods 5 to 8 of Duty).  n is not on    *)
(* the wire: it tells which link the sender meant.  What is sent to an edge  *)
(* that is no longer there, or no longer reads, is lost.                     *)
Msg(op, s, id, n) == [op |-> op, side |-> s, id |-> id, n |-> n]
Sent(e, msgs) == IF state[Peer(e)] = "work" THEN [wire EXCEPT ![Peer(e)] = @ \o msgs] ELSE wire

(* get, remove, beginRemove and endRemove of LocalLinks and RemoteLinks: the *)
(* condition under which each returns true, and what it leaves.              *)
Has(e, s, id)       == links[e][s][id] # None
CanRemove(e, s, id) == Has(e, s, id) /\ id \notin zombies[e][s]
CanEnd(e, s, id)    == Has(e, s, id) /\ id \in zombies[e][s]
Gone(e, s, id) ==
  /\ links' = [links EXCEPT ![e][s][id] = None]
  /\ zombies' = [zombies EXCEPT ![e][s] = @ \ {id}]
Begun(e, s, id) ==
  /\ links' = [links EXCEPT ![e][s][id].open = FALSE]
  /\ zombies' = [zombies EXCEPT ![e][s] = @ \union {id}]

(* LocalLinks::emplace takes the lowest free number.                         *)
FreeId(e) == Min({id \in Ids : ~ Has(e, "local", id)})

-----------------------------------------------------------------------------
(* What the program does at one end.                                         *)
May(e, op) == state[e] = "work" /\ done[e][op] < Quota[e][op]
Uses(e, op) == done' = [done EXCEPT ![e][op] = @ + 1]

(* put and call: the new link is emplaced, then the message goes out.        *)
Makes(e, op, kind) ==
  LET id == FreeId(e)
      n  == <<op, done[e][op] + 1>>
  IN  /\ May(e, op) /\ Uses(e, op)
      /\ links' = [links EXCEPT ![e]["local"][id] = Link(kind, n)]
      /\ wire' = Sent(e, <<Msg(op, "remote", id, n)>>)
      /\ UNCHANGED <<state, zombies>>

(* optimisticPutInterface, or an interface among the arguments of a call.    *)
Put(e) == Makes(e, "put", "interface")
(* call2Bin of a method with a result.                                       *)
Call(e) == Makes(e, "call", "promise")

(* call2Bin of a method without result of an interface that came through.    *)
Use(e, s, id) ==
  /\ May(e, "use") /\ Uses(e, "use")
  /\ links[e][s][id].kind = "interface" /\ links[e][s][id].open
  /\ wire' = Sent(e, <<Msg("use", Flip(s), id, links[e][s][id].n)>>)
  /\ UNCHANGED <<state, links, zombies>>

(* The interface has no other user at this end: uf_beginRemove|uf_sendBegin. *)
Uninvolve(e, s, id) ==
  /\ state[e] = "work"
  /\ links[e][s][id].kind = "interface" /\ links[e][s][id].open
  /\ Begun(e, s, id)
  /\ wire' = Sent(e, <<Msg("begin", Flip(s), id, links[e][s][id].n)>>)
  /\ UNCHANGED <<state, done>>

(* The caller cancels, or drops, the future of its call.                     *)
Cancel(e, id) ==
  LET l == links[e]["local"][id]
  IN  /\ May(e, "cancel") /\ Uses(e, "cancel")
      /\ l.kind = "promise" /\ l.open
      /\ Begun(e, "local", id)
      /\ wire' = Sent(e, <<Msg("cancel", "remote", id, l.n)>>)
      /\ UNCHANGED state

(* slip: the future link goes away with its answer.                          *)
BadResolve(e, id) ==
  LET l == links[e]["remote"][id]
  IN  /\ state[e] = "work"
      /\ l.kind = "future" /\ l.open
      /\ Gone(e, "remote", id)
      /\ wire' = Sent(e, <<Msg("answer", "local", id, l.n)>>)
      /\ UNCHANGED <<state, done>>

(* The callee's future is resolved: a value, an exception or a cancel.       *)
Resolve(e, id) ==
  LET l == links[e]["remote"][id]
  IN  /\ state[e] = "work"
      /\ l.kind = "future" /\ l.open
      /\ Begun(e, "remote", id)
      /\ wire' = Sent(e, <<Msg("answer", "local", id, l.n)>>)
      /\ UNCHANGED <<state, done>>

(* The edge is dropped: its links are deinitialised and destroyed, which     *)
(* cancels what is pending; the peer is not told.                            *)
Destroy(e) ==
  /\ state[e] = "work"
  /\ state' = [state EXCEPT ![e] = "null"]
  /\ links' = [links EXCEPT ![e] = [s \in Sides |-> [id \in Ids |-> None]]]
  /\ zombies' = [zombies EXCEPT ![e] = [s \in Sides |-> {}]]
  /\ wire' = [wire EXCEPT ![e] = <<>>]
  /\ UNCHANGED done

-----------------------------------------------------------------------------
(* LocalEdge::input, the next message.  A link that is not there ("bad link  *)
(* requested") or cannot be made sense of fails the edge and its protocol;   *)
(* so does, here, a message for another kind of link.                        *)
Fails(e) ==
  /\ state' = [state EXCEPT ![e] = "fail"]
  /\ UNCHANGED <<links, zombies>>

(* slip: the future link is not subscribed to its future.                    *)
BadLoaded(kind, n) == [Link(kind, n) EXCEPT !.open = FALSE]
Loaded(kind, n)    == Link(kind, n)

(* put and call: RemoteLinks::emplace under the number the peer has chosen.  *)
InputNew(e, m) ==
  LET kind == IF m.op = "put" THEN "interface" ELSE "future"
  IN  /\ IF Has(e, "remote", m.id)
         THEN Fails(e)
         ELSE /\ links' = [links EXCEPT ![e]["remote"][m.id] = Loaded(kind, m.n)]
              /\ UNCHANGED <<state, zombies>>
      /\ wire' = [wire EXCEPT ![e] = Tail(@)]

(* A method call: the link hands it to the interface.                        *)
InputUse(e, m) ==
  /\ IF links[e][m.side][m.id].kind = "interface" THEN UNCHANGED <<state, links, zombies>>
     ELSE Fails(e)
  /\ wire' = [wire EXCEPT ![e] = Tail(@)]

(* Impl<Promise>::input and Impl<Future>::input, the last message of a call: *)
(* uf_remove | uf_endRemove | uf_sendEnd.                                    *)
InputLast(e, m) ==
  LET kind == IF m.op = "answer" THEN "promise" ELSE "future"
  IN  IF links[e][m.side][m.id].kind = kind
      THEN /\ Gone(e, m.side, m.id)
           /\ wire' = [Sent(e, <<Msg("end", Flip(m.side), m.id, m.n)>>) EXCEPT ![e] = Tail(@)]
           /\ UNCHANGED state
      ELSE /\ Fails(e)
           /\ wire' = [wire EXCEPT ![e] = Tail(@)]

(* slip: a begin that meets a zombie is not expected.                        *)
BadInputBegin(e, m) ==
  /\ IF CanRemove(e, m.side, m.id) THEN Gone(e, m.side, m.id) /\ UNCHANGED state
     ELSE Fails(e)
  /\ wire' = [Sent(e, IF CanRemove(e, m.side, m.id)
                      THEN <<Msg("end", Flip(m.side), m.id, m.n)>> ELSE <<>>)
                EXCEPT ![e] = Tail(@)]

(* oppositeLinkBeginRemove.  When both ends began, each takes the other's    *)
(* begin for the end.                                                        *)
InputBegin(e, m) ==
  /\ IF Has(e, m.side, m.id) THEN Gone(e, m.side, m.id) /\ UNCHANGED state
     ELSE Fails(e)
  /\ wire' = [Sent(e, IF CanRemove(e, m.side, m.id)
                      THEN <<Msg("end", Flip(m.side), m.id, m.n)>> ELSE <<>>)
                EXCEPT ![e] = Tail(@)]

(* oppositeLinkEndRemove: nothing to be done is not an error.                *)
InputEnd(e, m) ==
  /\ IF CanEnd(e, m.side, m.id) THEN Gone(e, m.side, m.id)
     ELSE UNCHANGED <<links, zombies>>
  /\ wire' = [wire EXCEPT ![e] = Tail(@)]
  /\ UNCHANGED state

Input(e) ==
  /\ state[e] = "work" /\ wire[e] # <<>>
  /\ LET m == Head(wire[e])
     IN  CASE m.op \in {"put", "call"}      -> InputNew(e, m)
           [] m.op = "use"                  -> InputUse(e, m)
           [] m.op \in {"answer", "cancel"} -> InputLast(e, m)
           [] m.op = "begin"                -> InputBegin(e, m)
           [] m.op = "end"                  -> InputEnd(e, m)
  /\ UNCHANGED done

-----------------------------------------------------------------------------
Init ==
  /\ state = [e \in Edges |-> "work"]
  /\ links = [e \in Edges |-> [s \in Sides |-> [id \in Ids |-> None]]]
  /\ zombies = [e \in Edges |-> [s \in Sides |-> {}]]
  /\ wire = [e \in Edges |-> <<>>]
  /\ done = [e \in Edges |-> [op \in {"put", "call", "cancel", "use"} |-> 0]]

Next ==
  \E e \in Edges :
    \/ Put(e) \/ Call(e) \/ Destroy(e) \/ Input(e)
    \/ \E id \in Ids : Cancel(e, id) \/ Resolve(e, id)
    \/ \E s \in Sides, id \in Ids : Use(e, s, id) \/ Uninvolve(e, s, id)

(* The transport delivers and the callee answers in the end.                 *)
Fairness ==
  /\ \A e \in Edges : WF_vars(Input(e))
  /\ \A e \in Edges, id \in Ids : WF_vars(Resolve(e, id))

Spec     == Init /\ [][Next]_vars
FairSpec == Spec /\ Fairness

-----------------------------------------------------------------------------
TypeOK ==
  /\ state \in [Edges -> {"work", "fail", "null"}]
  /\ \A e \in Edges, s \in Sides :
       /\ zombies[e][s] \subseteq {id \in Ids : Has(e, s, id)}
       /\ \A id \in Ids : links[e][s][id].kind \in
            {"none", "interface"} \union (IF s = "local" THEN {"promise"} ELSE {"future"})

(* Two edges that keep to the protocol never make each other fail, however   *)
(* the removals, answers and cancels of the two ends cross: localEdge.cpp    *)
(* fails on a link it does not have, on one it has already, and on a removal *)
(* of nothing.                                                               *)
NoFails == \A e \in Edges : state[e] # "fail"

(* A message is handled by the link it was sent for: numbers are taken again *)
(* only when nothing that names the old link can still arrive, except an end *)
(* that does nothing.                                                        *)
RightLink(e) ==
  state[e] = "work" /\ wire[e] # <<>> =>
    LET m == Head(wire[e])
    IN  \/ m.op \in {"put", "call"}
        \/ m.op = "end" /\ ~ CanEnd(e, m.side, m.id)
        \/ Has(e, m.side, m.id) /\ links[e][m.side][m.id].n = m.n

(* When nothing is on its way, the two ends have the same links and nothing  *)
(* waits to be removed: no number is lost, none is held by one end alone.    *)
NothingLeaks ==
  (\A e \in Edges : state[e] = "work" /\ wire[e] = <<>>) =>
    \A e \in Edges, id \in Ids :
      /\ zombies[e]["local"] = {} /\ zombies[e]["remote"] = {}
      /\ Has(e, "local", id) <=> Has(Peer(e), "remote", id)
      /\ Has(e, "local", id) => links[e]["local"][id].n = links[Peer(e)]["remote"][id].n

(* An end that cancels calls does so once, and passes no interface.  (With   *)
(* less, a late end of one link meets another that has taken its number.)    *)
Restrained ==
  \A e \in Edges : Quota[e]["cancel"] = 0 \/ (Quota[e]["cancel"] = 1 /\ Quota[e]["put"] = 0)

(* The two ends mean the same link by a number: both while messages are      *)
(* under way, which each meet the link they were sent for, and after.        *)
LinksPair == NothingLeaks /\ \A e \in Edges : RightLink(e)

(* Every call comes to an end, by its answer or by its cancel, as long as    *)
(* both edges work and the callee resolves its future.                       *)
Pending(e, n) == \E id \in Ids : Has(e, "local", id) /\ links[e]["local"][id].n = n
Answered ==
  \A e \in Edges : \A k \in 1..Quota[e]["call"] :
    Pending(e, <<"call", k>>) ~> ~ Pending(e, <<"call", k>>) \/ \E x \in Edges : state[x] # "work"
=============================================================================
