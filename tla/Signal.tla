-------------------------------- MODULE Signal --------------------------------
(***************************************************************************)
(* What a signal of core/sbs promises.  An activation calls the handlers   *)
(* that were connected when it began, in order, without those that are     *)
(* disconnected before their turn and without those connected later.  The  *)
(* last call of an activation is marked: its handler may move the          *)
(* arguments away.  A disconnected handler is destroyed when no activation *)
(* is inside it, and not before.                                           *)
(***************************************************************************)
EXTENDS Sequences, SequencesExt

CONSTANTS Subs,  (* the handlers that can be connected                       *)
          Acts,  (* the activations that can be in progress at a time        *)
          Null

VARIABLES conn,    (* the connected handlers                                 *)
          call,    (* of an activation: its place                            *)
          status   (* of a handler: unborn, connected, closing, destroyed    *)

vars == <<conn, call, status>>

Quiet == [at |-> "none", cur |-> Null, todo |-> <<>>, final |-> FALSE]

Inside(s) == {a \in Acts : call[a].at = "in" /\ call[a].cur = s}

(* Handler s is disconnected; it outlives the activations in it.             *)
Dropped(s, inside) == [status EXCEPT ![s] = IF inside = {} THEN "destroyed" ELSE "closing"]

Connect(s) ==
  /\ status[s] = "unborn"
  /\ conn' = Append(conn, s)
  /\ status' = [status EXCEPT ![s] = "connected"]
  /\ UNCHANGED call

(* An activation calls handler s, with `rest' to come.                       *)
Calls(a, s, rest) == [at |-> "in", cur |-> s, todo |-> rest, final |-> rest = <<>>]

(* Activations that disconnect what they call differ from the others only in *)
(* that.                                                                     *)
Enter(a, s, rest, del) ==
  /\ IF del
     THEN /\ conn' = RemoveFirst(conn, s)
          /\ call' = [b \in Acts |-> IF b = a THEN Calls(a, s, rest)
                                     ELSE [call[b] EXCEPT !.todo = RemoveFirst(@, s)]]
          /\ status' = [status EXCEPT ![s] = "closing"]
     ELSE /\ call' = [call EXCEPT ![a] = Calls(a, s, rest)]
          /\ UNCHANGED <<conn, status>>

Begin(a, del) == /\ call[a] = Quiet /\ conn # <<>>
                 /\ Enter(a, Head(conn), Tail(conn), del)

Continue(a, del) == /\ call[a].at = "between" /\ call[a].todo # <<>>
                    /\ Enter(a, Head(call[a].todo), Tail(call[a].todo), del)

(* The handler returns, or throws, which ends the activation.                *)
Leave(a, throws) ==
  LET s == call[a].cur
  IN  /\ call[a].at = "in"
      /\ call' = [call EXCEPT ![a] = IF throws \/ @.final THEN Quiet
                                     ELSE [@ EXCEPT !.at = "between", !.cur = Null]]
      /\ status' = IF status[s] = "closing" THEN Dropped(s, Inside(s) \ {a}) ELSE status
      /\ UNCHANGED conn

(* Everybody that was left has been disconnected meanwhile.                  *)
Finish(a) == /\ call[a].at = "between" /\ call[a].todo = <<>>
             /\ call' = [call EXCEPT ![a] = Quiet]
             /\ UNCHANGED <<conn, status>>

Disconnect(s) ==
  /\ s \in Range(conn)
  /\ conn' = RemoveFirst(conn, s)
  /\ call' = [b \in Acts |-> [call[b] EXCEPT !.todo = RemoveFirst(@, s)]]
  /\ status' = Dropped(s, Inside(s))

Init == /\ conn = <<>>
        /\ call = [a \in Acts |-> Quiet]
        /\ status = [s \in Subs |-> "unborn"]

Next ==
  \/ \E s \in Subs : Connect(s) \/ Disconnect(s)
  \/ \E a \in Acts, b \in BOOLEAN : Begin(a, b) \/ Continue(a, b) \/ Leave(a, b)
  \/ \E a \in Acts : Finish(a)

Spec == Init /\ [][Next]_vars
==============================================================================
