------------------------------ MODULE Joining -------------------------------
(***************************************************************************)
(* Peers are joined on demand (module/ppn-connectivity-joining), and how   *)
(* the parts of the node that see to it play together.  Joining takes      *)
(* every offer of the registry (module Demand): it keeps an Instance per   *)
(* peer which holds the satisfactions, and whose one task looks the peer's *)
(* address up in its record (module Reest), joins it through the node      *)
(* (module Node) and then waits for the link to break.  When joining fails *)
(* the instance is dropped, the satisfactions with it, and the registry    *)
(* offers the peer anew.                                                   *)
(*                                                                         *)
(* The demands of an instance are the satisfactions of the registry, seen  *)
(* from the other side, so `sat' stands for both.  A rating in the record  *)
(* is positive, as Reest writes no other.                                  *)
(***************************************************************************)
EXTENDS Demand, Reest, Node

CONSTANTS Pending, Failed   (* answers to a join that are no link            *)

ASSUME AnswerAssumption == Pending # Failed /\ Pending \notin Sessions /\ Failed \notin Sessions

VARIABLES
  inst,        (* _instances                                                 *)
  hasAddress,  (* Instance::_hasAddress                                      *)
  onlines,     (* Instance::_onlines                                         *)
  worker,      (* the task of _taskOwner: "none", "spawned" or "joining"     *)
  answer,      (* what the task's join came to                               *)
  turnedAway   (* has its last join led to another peer?                     *)

ivars == <<inst, hasAddress, onlines, worker, answer, turnedAway>>
jvars == <<dvars, rvars, nvars, ivars>>

InstancesTypeOK ==
  /\ inst \subseteq Ids
  /\ hasAddress \in [Ids -> BOOLEAN] /\ turnedAway \in [Ids -> BOOLEAN]
  /\ onlines \in [Ids -> SUBSET Sessions]
  /\ worker \in [Ids -> {"none", "spawned", "joining"}]
  /\ answer \in [Ids -> Sessions \cup {Pending, Failed}]

JoiningTypeOK == DemandTypeOK /\ ReestTypeOK /\ NodeTypeOK /\ InstancesTypeOK

JoiningInit ==
  /\ DemandInit /\ ReestInit /\ NodeInit
  /\ inst = {}
  /\ hasAddress = [i \in Ids |-> TRUE] /\ turnedAway = [i \in Ids |-> FALSE]
  /\ onlines = [i \in Ids |-> {}]
  /\ worker = [i \in Ids |-> "none"]
  /\ answer = [i \in Ids |-> Pending]

-----------------------------------------------------------------------------
(* activate of the instances es: nothing if the last task has not ended yet. *)
Activated(es) ==
  [i \in Ids |-> IF i \in es /\ worker[i] = "none" THEN "spawned" ELSE worker[i]]

(* A session is taken up again only when no answer names it any more.        *)
Unnamed(w) == \A i \in Ids : answer[i] # w

(* The registry offers, satisfyDemand takes.                                 *)
Offer(i) ==
  /\ i # Nobody /\ \E left \in [Ids -> 0..MaxBans] : MakeSatisfies(i, left)
  /\ inst' = inst \cup {i}
  /\ worker' = Activated({i})
  /\ hasAddress' = [hasAddress EXCEPT ![i] = @ \/ i \notin inst]
  /\ UNCHANGED <<onlines, answer, turnedAway, rvars, nvars>>

(* The registry has nobody to offer.                                         *)
Idle(left) == MakeSatisfies(Nobody, left) /\ UNCHANGED <<ivars, rvars, nvars>>

(* slip: the satisfactions of an instance that is dropped are not let go.    *)
BadDropped(i) ==
  /\ inst' = inst \ {i}
  /\ worker' = [worker EXCEPT ![i] = "none"]
  /\ onlines' = [onlines EXCEPT ![i] = {}]
  /\ turnedAway' = [turnedAway EXCEPT ![i] = FALSE]
  /\ UNCHANGED <<sat, changed, flush>>
(* The instance is destroyed: instanceEmpty, ~Instance.                      *)
Dropped(i) ==
  /\ inst' = inst \ {i}
  /\ Release([sat EXCEPT ![i] = 0])
  /\ worker' = [worker EXCEPT ![i] = "none"]
  /\ onlines' = [onlines EXCEPT ![i] = {}]
  /\ turnedAway' = [turnedAway EXCEPT ![i] = FALSE]

(* The links that the peer's record has: the worker of a session adds its    *)
(* link, and the closed of the link takes it out.                            *)
Remotes(i) == {l \in Sessions : task[l] = "joined" /\ link[l] = i}

(* worker, up to the answer to its join.                                     *)
Ended(i) == worker' = [worker EXCEPT ![i] = "none"]
Work(i) ==
  /\ worker[i] = "spawned"
  /\ \/ /\ onlines[i] # {} \/ ~hasAddress[i]
        /\ Ended(i) /\ UNCHANGED <<hasAddress, onlines, answer, turnedAway, nvars>>
     \/ /\ onlines[i] = {} /\ hasAddress[i]
        /\ \/ /\ \E l \in Remotes(i) : onlines' = [onlines EXCEPT ![i] = {l}]
              /\ Ended(i) /\ UNCHANGED <<hasAddress, answer, turnedAway, nvars>>
           \/ /\ Remotes(i) = {} /\ i \notin known
              /\ hasAddress' = [hasAddress EXCEPT ![i] = FALSE]
              /\ Ended(i) /\ UNCHANGED <<onlines, answer, turnedAway, nvars>>
           \/ /\ Remotes(i) = {} /\ i \in known
              /\ \E w \in Sessions : Unnamed(w) /\ JoinAt(w, i)
              /\ worker' = [worker EXCEPT ![i] = "joining"]
              /\ turnedAway' = [turnedAway EXCEPT ![i] = FALSE]
              /\ UNCHANGED <<hasAddress, onlines, answer>>
  /\ UNCHANGED <<dvars, rvars, inst>>

(* slip: the link is taken as it was answered, up or not.                    *)
BadReaches(i) == answer[i] \in {l \in Sessions : link[l] \in {i, Down}}
(* remote->id() answers, and with the peer's id; on a link that has gone     *)
(* down it throws.                                                           *)
Reaches(i) == answer[i] \in {l \in Sessions : link[l] = i}
Throws(i)  == answer[i] \notin {l \in Sessions : link[l] # Down}

(* worker from the answer on, and the catch clause of the task.              *)
Resume(i) ==
  /\ worker[i] = "joining" /\ answer[i] # Pending
  /\ \/ /\ Reaches(i)
        /\ onlines' = [onlines EXCEPT ![i] = @ \cup {answer[i]}]
        /\ Ended(i) /\ UNCHANGED <<inst, sat, changed, flush, turnedAway>>
     \/ /\ ~Reaches(i) /\ ~Throws(i)
        /\ turnedAway' = [turnedAway EXCEPT ![i] = TRUE]
        /\ Ended(i) /\ UNCHANGED <<inst, sat, changed, flush, onlines>>
     \/ /\ Throws(i) /\ onlines[i] = {}
        /\ Dropped(i)
     \/ /\ Throws(i) /\ onlines[i] # {}
        /\ Ended(i) /\ UNCHANGED <<inst, sat, changed, flush, onlines, turnedAway>>
  /\ answer' = [answer EXCEPT ![i] = Pending]
  /\ UNCHANGED <<elements, need, bans, ban, priority, ticking, life, hasAddress, rvars, nvars>>

(* slip: a discovery does not wake the instance that waits for it.           *)
BadDiscovered(i) ==
  /\ life = "started"
  /\ \E s \in AfterDiscovery(i) : StatChanged(i, s)
  /\ hasAddress' = [hasAddress EXCEPT ![i] = TRUE]
  /\ UNCHANGED <<dvars, nvars, known, inst, onlines, answer, turnedAway, worker>>

(* The peer's address is discovered: Reest writes it down, to be flushed     *)
(* into the record, and the instance that waits for it is activated at once. *)
Discovered(i) ==
  /\ life = "started"
  /\ \E s \in AfterDiscovery(i) : StatChanged(i, s)
  /\ LET waits == {k \in inst \cap {i} : ~hasAddress[k]}
     IN  /\ hasAddress' = [k \in Ids |-> hasAddress[k] \/ k \in waits]
         /\ worker' = Activated(waits)
  /\ UNCHANGED <<dvars, nvars, known, inst, onlines, answer, turnedAway>>

-----------------------------------------------------------------------------
(* What the node does, with what Joining hears of it.                        *)

(* joinedByConnect and joinedByAccept: joined.                               *)
Shake(w, i) ==
  /\ HandshakeCompleted(w, i)
  /\ onlines' = [k \in Ids |-> IF k = i /\ k \in inst THEN onlines[k] \cup {w} ELSE onlines[k]]
  /\ UNCHANGED <<dvars, inst, hasAddress, worker, answer, turnedAway>>

Answered(who, a) == answer' = [i \in Ids |-> IF i \in who THEN a ELSE answer[i]]
Answer(w) ==
  /\ \/ GiveUp(w) /\ Answered(joinWaiters \ joinWaiters', Failed)
     \/ Join(w) /\ Answered(joinWaiters \ joinWaiters', w)
  /\ UNCHANGED <<dvars, inst, hasAddress, onlines, worker, turnedAway>>

(* The closed of a link, or that it is no longer involved.                   *)
Break(w) ==
  /\ LinkDown(w)
  /\ onlines' = [i \in Ids |-> onlines[i] \ {w}]
  /\ worker' = Activated({i \in Ids : w \in onlines[i]})
  /\ UNCHANGED <<dvars, inst, hasAddress, answer, turnedAway>>

(* The node stops; the registry's handler runs before or after this one, so  *)
(* that what is let go starts the flush timer once more or not.              *)
Stop ==
  /\ life = "started" /\ life' = "stopped" /\ ticking' = FALSE
  /\ NodeStop
  /\ inst' = {}
  /\ sat' = [i \in Ids |-> 0]
  /\ changed' = changed \cup {i \in Ids : sat[i] > 0}
  /\ flush' \in {FALSE, changed' # changed}
  /\ worker' = [i \in Ids |-> "none"] /\ onlines' = [i \in Ids |-> {}]
  /\ answer' = [i \in Ids |-> Pending] /\ turnedAway' = [i \in Ids |-> FALSE]
  /\ UNCHANGED <<elements, need, bans, ban, priority, hasAddress>>

-----------------------------------------------------------------------------
Registry ==
  \/ \E h \in Needers, w \in Weights : Reweight(h, w) \/ \E i \in Ids : Need(h, i, w)
  \/ \E h \in Needers : DropNeed(h)
  \/ \E i \in Ids : Fail(i)
  \/ FlushChanges \/ DemandStart

(* regularFlush, the repeated timer: every StatIA takes stock of itself.     *)
RegularFlush(new) ==
  /\ \A i \in Ids : new[i] \in IF stat[i] = "none" THEN {"none"}
                               ELSE UpdateResult(Following(i) # {}, Online(i) # {})
  /\ stat' = new
  /\ dirty' = dirty \cup {i \in Ids : stat[i] # "none"}
  /\ UNCHANGED known

Records == /\ life = "started"
           /\ OnceFlush \/ \E new \in [Ids -> Ratings] : RegularFlush(new)

SessionStep(w) ==
  \/ Unnamed(w) /\ \E i \in Ids \cup {Anyone} : Call(w, i)
  \/ Begin(w) \/ Connected(w) \/ \E r \in {"ok", "failed"} : Resolved(w, r)

JoiningNext ==
  \/ Registry /\ UNCHANGED <<ivars, rvars, nvars>>
  \/ Records /\ UNCHANGED <<dvars, ivars, nvars>>
  \/ \E w \in Sessions : SessionStep(w) /\ UNCHANGED <<dvars, ivars>>
  \/ \E w \in Sessions : Answer(w) \/ Break(w) \/ \E i \in Peers : Shake(w, i)
  \/ \E i \in Ids : Offer(i) \/ Work(i) \/ Resume(i) \/ Discovered(i)
  \/ Stop \/ \E left \in [Ids -> 0..MaxBans] : Idle(left)

(* The timers and the tasks that are ready run, the draw is random and every *)
(* ban is over at last.                                                      *)
JoiningFairness ==
  /\ WF_jvars(Idle([i \in Ids |-> 0]))
  /\ WF_jvars(FlushChanges /\ UNCHANGED <<ivars, rvars, nvars>>)
  /\ \A i \in Ids : SF_jvars(Offer(i)) /\ WF_jvars(Work(i)) /\ WF_jvars(Resume(i))

JoiningSpec == JoiningInit /\ [][JoiningNext]_jvars /\ JoiningFairness

-----------------------------------------------------------------------------
(* The registry and Joining agree: while the node runs, a peer is satisfied  *)
(* exactly as long as there is an instance for it, so that who is no longer  *)
(* pursued can be offered again.  And an instance that does nothing has a    *)
(* reason: it is online, or it has found no address and waits for a          *)
(* discovery, or its peer's address has led to somebody else (activate is    *)
(* dropped while a task is there, so each end of the task must do).          *)
Excused(i) == onlines[i] # {} \/ ~hasAddress[i] \/ turnedAway[i]
SatisfiedArePursued ==
  /\ life = "started" => \A i \in Ids : sat[i] > 0 <=> i \in inst
  /\ \A i \in inst : worker[i] = "none" => Excused(i)

(* Nobody waits for a link that is gone: an instance counts a link as its    *)
(* peer's only while it is up and leads to that peer (the closed of a link   *)
(* that is already down would never come).                                   *)
OnlinesAreUp == \A i \in Ids : \A l \in onlines[i] : link[l] = i

(* Nobody waits for an answer that will not come: whoever has asked to join  *)
(* is among the waiters of the node, and a session is under way to that      *)
(* address whose task has yet to answer them, be it another's (the worker    *)
(* that finds a connect in progress leaves without a word).                  *)
JoinsAreServed ==
  \A i \in Ids : worker[i] = "joining" /\ answer[i] = Pending =>
    /\ i \in joinWaiters
    /\ \E w \in Sessions : expects[w] = i /\ task[w] \in {"spawned", "connecting", "shaking"}

(* Who is wanted, has an address and is discovered again and again is        *)
(* pursued: a join is on its way, or has led to another peer, sooner or      *)
(* later, after whatever failures (fail, drop, draw, offer and join again).  *)
(* One discovery is not enough: it wakes the instance before the record has  *)
(* the address, and what is written into the record wakes nobody.            *)
Reachable(i) == Wanted(i) /\ i \in known
Pursued == \A i \in Ids :
  []<><<Discovered(i)>>_jvars =>
    (Reachable(i) ~> (~Reachable(i) \/ onlines[i] # {} \/ worker[i] = "joining" \/ turnedAway[i]))
==============================================================================
