-------------------------------- MODULE Node --------------------------------
(***************************************************************************)
(* The sessions of a node (module/ppn-node, and module/ppn-node-link for   *)
(* what a channel goes through until it is a link).  Each session has a    *)
(* task.  The task of an outgoing one connects, unless a connect to that   *)
(* address is in progress, shakes hands and then tells: those who have     *)
(* asked to join at that address get the link or the error, the session's  *)
(* listeners (Reest is the one that matters) that it is joined or failed   *)
(* and, when all is over, closed.  The task of an incoming session has     *)
(* only the handshake and nobody that waits.                               *)
(*                                                                         *)
(* A future is resolved some time before the task that waits for it goes   *)
(* on, and the link may break in between.  The transport and the peer are  *)
(* external.  A peer has one address, so that the peer stands for it.      *)
(***************************************************************************)
EXTENDS Demand, Reest

CONSTANTS
  Sessions,   (* the sessions, with the task and the link of each            *)
  Strangers,  (* peers that nobody demands                                   *)
  Anyone,     (* whom an incoming session expects                            *)
  Down        (* the other end of a link that is not up                      *)

VARIABLES
  task,        (* where the task of a session is                             *)
  future,      (* the future that it waits for: "pending", "ok" or "failed"  *)
  expects,     (* the id and, with it, the address of a session              *)
  link,        (* who is at the other end of its link: Local::_remotes       *)
  opened,      (* the sessions that listeners have been told of              *)
  closings,    (* how often they have been told that it is closed            *)
  inProgress,  (* _connectionsInProgress                                     *)
  joinWaiters  (* _joinWaiters                                               *)

nvars == <<task, future, expects, link, opened, closings, inProgress, joinWaiters>>

Peers == Ids \cup Strangers
ASSUME NodeAssumption == Anyone \notin Ids /\ Down \notin Peers
Free  == {w \in Sessions : task[w] = "none" /\ link[w] = Down}

NodeTypeOK ==
  /\ task \in [Sessions -> {"none", "spawned", "connecting", "shaking", "joined"}]
  /\ future \in [Sessions -> {"pending", "ok", "failed"}]
  /\ expects \in [Sessions -> Ids \cup {Anyone}]
  /\ link \in [Sessions -> Peers \cup {Down}]
  /\ opened \subseteq Sessions
  /\ closings \in [Sessions -> 0..2]
  /\ inProgress \subseteq Ids /\ joinWaiters \subseteq Ids

NodeInit ==
  /\ task = [w \in Sessions |-> "none"] /\ future = [w \in Sessions |-> "pending"]
  /\ expects = [w \in Sessions |-> Anyone] /\ link = [w \in Sessions |-> Down]
  /\ opened = {} /\ closings = [w \in Sessions |-> 0]
  /\ inProgress = {} /\ joinWaiters = {}

-----------------------------------------------------------------------------
(* The outgoing sessions that Reest follows for a peer, and those of them    *)
(* that are joined.                                                          *)
Outgoing(w)  == expects[w] # Anyone
Following(i) == {w \in Sessions : Outgoing(w) /\
                   \/ task[w] \in {"connecting", "shaking"} /\ expects[w] = i
                   \/ task[w] = "joined" /\ link[w] = i}
Online(i)    == {w \in Following(i) : task[w] = "joined"}
Rated(i, w)  == UpdateResult(Following(i) \ {w} # {}, Online(i) \ {w} # {})

(* Who is answered when w is through: flushJoinWaiters.                      *)
Flushed(w) == joinWaiters \cap {expects[w]}

(* A task is spawned for a new session.                                      *)
Spawned(w, i) ==
  /\ w \in Free
  /\ task' = [task EXCEPT ![w] = "spawned"]
  /\ expects' = [expects EXCEPT ![w] = i]
  /\ opened' = opened \ {w} /\ closings' = [closings EXCEPT ![w] = 0]
  /\ UNCHANGED <<future, link, inProgress>>

(* join() of the feature service.                                            *)
JoinAt(w, i) == Spawned(w, i) /\ joinWaiters' = joinWaiters \cup {i}

(* connect() of the feature service, and accepted() of the acceptors; one    *)
(* session is kept free for those who join.                                  *)
Call(w, i) ==
  /\ life = "started" /\ Free # {w}
  /\ Spawned(w, i) /\ UNCHANGED <<joinWaiters, rvars>>

(* A task ends, and what it has kept on its stack is gone.                   *)
Ends(w) ==
  /\ task' = [task EXCEPT ![w] = "none"]
  /\ future' = [future EXCEPT ![w] = "pending"]
  /\ expects' = [expects EXCEPT ![w] = Anyone]

(* csessionWorker up to its connect, asessionWorker up to its handshake.     *)
Begin(w) ==
  /\ task[w] = "spawned"
  /\ \/ /\ expects[w] \in inProgress
        /\ Ends(w)
        /\ UNCHANGED <<opened, inProgress, stat>>
     \/ /\ Outgoing(w) /\ expects[w] \notin inProgress
        /\ task' = [task EXCEPT ![w] = "connecting"]
        /\ opened' = opened \cup {w}
        /\ inProgress' = inProgress \cup {expects[w]}
        /\ stat' = WithSession(expects[w])
        /\ UNCHANGED <<future, expects>>
     \/ /\ ~Outgoing(w)
        /\ task' = [task EXCEPT ![w] = "shaking"]
        /\ opened' = opened \cup {w}
        /\ UNCHANGED <<future, expects, inProgress, stat>>
  /\ UNCHANGED <<link, closings, joinWaiters, known, dirty>>

(* external: the connect is through or has failed; the handshake has failed. *)
Resolved(w, r) ==
  /\ future[w] = "pending"
  /\ task[w] = "connecting" \/ (task[w] = "shaking" /\ r = "failed")
  /\ future' = [future EXCEPT ![w] = r]
  /\ UNCHANGED <<task, expects, link, opened, closings, inProgress, joinWaiters, rvars>>

(* csessionWorker from connect to joinByConnect.                             *)
Connected(w) ==
  /\ task[w] = "connecting" /\ future[w] = "ok"
  /\ inProgress' = inProgress \ {expects[w]}
  /\ task' = [task EXCEPT ![w] = "shaking"]
  /\ future' = [future EXCEPT ![w] = "pending"]
  /\ UNCHANGED <<expects, link, opened, closings, joinWaiters, rvars>>

(* Local::handshakeCompleted: the link is up.                                *)
HandshakeCompleted(w, i) ==
  /\ task[w] = "shaking" /\ future[w] = "pending"
  /\ link' = [link EXCEPT ![w] = i]
  /\ future' = [future EXCEPT ![w] = "ok"]
  /\ UNCHANGED <<task, expects, opened, closings, inProgress, joinWaiters, rvars>>

(* slip: the worker keeps the session, so that its scope exit tells closed.  *)
BadJoin(w) ==
  /\ task[w] = "shaking" /\ future[w] = "ok" /\ link[w] # Down
  /\ task' = [task EXCEPT ![w] = "joined"]
  /\ closings' = [closings EXCEPT ![w] = @ + 1]
  /\ joinWaiters' = joinWaiters \ Flushed(w)
  /\ inProgress' = inProgress \ {expects[w]}
  /\ UNCHANGED <<future, expects, link, opened, rvars>>

(* The session is told closed and let go; if outgoing, Reest is told.        *)
Closed(w, i) ==
  /\ Ends(w)
  /\ closings' = [closings EXCEPT ![w] = @ + 1]
  /\ IF Outgoing(w) /\ i \in Ids THEN \E s \in Rated(i, w) : StatChanged(i, s)
     ELSE UNCHANGED <<stat, dirty>>
  /\ UNCHANGED <<opened, known>>

(* slip: those who wait are told only of success.                            *)
BadGiveUp(w) ==
  /\ task[w] \in {"connecting", "shaking"}
  /\ future[w] = "failed" \/ (future[w] = "ok" /\ task[w] = "shaking" /\ link[w] = Down)
  /\ Closed(w, expects[w])
  /\ inProgress' = inProgress \ {expects[w]}
  /\ UNCHANGED <<link, joinWaiters>>
(* The catch clauses of the workers, and their scope exits: the future is an *)
(* exception, or the link is down already and its id() throws.               *)
GiveUp(w) ==
  /\ task[w] \in {"connecting", "shaking"}
  /\ future[w] = "failed" \/ (future[w] = "ok" /\ task[w] = "shaking" /\ link[w] = Down)
  /\ Closed(w, expects[w])
  /\ joinWaiters' = joinWaiters \ Flushed(w)
  /\ inProgress' = inProgress \ {expects[w]}
  /\ UNCHANGED link

(* The workers from the handshake on; the scope exit of csessionWorker takes *)
(* the mark of the address away, whoever has set it since.                   *)
Join(w) ==
  /\ task[w] = "shaking" /\ future[w] = "ok" /\ link[w] # Down
  /\ task' = [task EXCEPT ![w] = "joined"]
  /\ joinWaiters' = joinWaiters \ Flushed(w)
  /\ inProgress' = inProgress \ {expects[w]}
  /\ \E s \in IF Outgoing(w) THEN Rated(expects[w], w) ELSE {"none"} :
       LET new == [i \in Ids |-> IF Outgoing(w) /\ i = link[w] THEN "good"
                                 ELSE IF i = expects[w] THEN s ELSE stat[i]]
       IN  stat' = new /\ dirty' = dirty \cup (IF Outgoing(w) THEN Ids \cap {link[w], expects[w]} ELSE {})
  /\ UNCHANGED <<future, expects, link, opened, closings, known>>

(* Remote::doClose: the link breaks.  A joined session hears of it from the  *)
(* link's closed; one whose task has not gone on yet does not.               *)
LinkDown(w) ==
  /\ link[w] # Down
  /\ link' = [link EXCEPT ![w] = Down]
  /\ \/ task[w] = "joined" /\ Closed(w, link[w])
     \/ task[w] # "joined" /\ UNCHANGED <<task, future, expects, opened, closings, rvars>>
  /\ UNCHANGED <<inProgress, joinWaiters>>

(* Node::stop.  Tasks that have not begun are not called; the others throw   *)
(* out of their waits, and their sessions are told failed and closed.  The   *)
(* subscriptions to the closed of the links are gone already, so that Reest  *)
(* goes on to take the joined ones for joined; of the others it is told.     *)
Cut(i) == {w \in Following(i) : task[w] # "joined"}
NodeStop ==
  /\ task' = [w \in Sessions |-> "none"] /\ future' = [w \in Sessions |-> "pending"]
  /\ expects' = [w \in Sessions |-> Anyone]
  /\ closings' = [w \in Sessions |-> IF task[w] \in {"connecting", "shaking"} THEN closings[w] + 1
                                     ELSE closings[w]]
  /\ link' = [w \in Sessions |-> Down]
  /\ inProgress' = {} /\ joinWaiters' = {}
  /\ stat' \in [Ids -> Ratings]
  /\ \A i \in Ids : stat'[i] \in IF Cut(i) = {} THEN {stat[i]}
                                ELSE UpdateResult(Online(i) # {}, Online(i) # {})
  /\ dirty' = dirty \cup {i \in Ids : Cut(i) # {}}
  /\ UNCHANGED <<opened, known>>

-----------------------------------------------------------------------------
(* Whoever is told of a session is told once that it is closed, and then     *)
(* only when neither a task nor a link of it is left: by the scope exit of   *)
(* the worker or by the link, never by both or by none (s.reset() passes the *)
(* duty on).  A stop of the node spares the joined ones.                     *)
ToldClosedOnce ==
  \A w \in opened :
    /\ closings[w] <= 1
    /\ life = "started" => (closings[w] = 1 <=> task[w] = "none")
==============================================================================
