------------------------------- MODULE Reest --------------------------------
(***************************************************************************)
(* How good a peer's address is (module/ppn-connectivity-reest): every     *)
(* discovery and every event of a session that connects to the address is  *)
(* written down, the sum of it is a rating, and fifty milliseconds after a *)
(* rating has changed the peer's record gets the best address whose rating *)
(* is positive, or none.                                                   *)
(*                                                                         *)
(* A peer has one address here.  Of the rating, a moving average of real   *)
(* numbers over eight periods, the sign is left, and it is free wherever   *)
(* it depends on what has been written down before, and when.              *)
(***************************************************************************)
EXTENDS Demand

VARIABLES
  stat,    (* the StatIA of a peer: "none", or is its rating "good" or "bad" *)
  known,   (* the peers whose record has an address                          *)
  dirty    (* _onceFlushStats; _onceFlushTicker runs when there are any      *)

rvars == <<stat, known, dirty>>

Ratings == {"none", "bad", "good"}

ReestTypeOK == stat \in [Ids -> Ratings] /\ known \subseteq Ids /\ dirty \subseteq Ids

ReestInit == stat = [i \in Ids |-> "none"] /\ known = {} /\ dirty = {}

(* updateResult: what the rating of a peer can come to, given whether there  *)
(* are sessions and whether one of them is joined; a StatIA without sessions *)
(* is dead, and erased, when nothing speaks for it.                          *)
UpdateResult(sessions, joined) ==
  IF joined THEN {"good"} ELSE IF sessions THEN {"good", "bad"} ELSE Ratings

(* The StatIA of i comes to s: statChanged, wantOnceFlush.                   *)
StatChanged(i, s) ==
  /\ stat' = [stat EXCEPT ![i] = s]
  /\ dirty' = dirty \cup {i}

(* StatIA::discovered: nothing but good of a peer that nothing is known of.  *)
AfterDiscovery(i) == {"good"} \cup ({stat[i]} \ {"none"})

(* StatIA::newSession, rekeyed: a new StatIA has the rating zero.            *)
WithSession(i) == [stat EXCEPT ![i] = IF @ = "none" THEN "bad" ELSE @]

(* onceFlush of Reest and of each StatI, which updates the record.           *)
OnceFlush ==
  /\ dirty # {} /\ dirty' = {}
  /\ known' = (known \ dirty) \cup {i \in dirty : stat[i] = "good"}
  /\ stat' = stat
==============================================================================
