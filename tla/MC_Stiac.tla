------------------------------- MODULE MC_Stiac -------------------------------
(* Instances of Stiac.                                                          *)
EXTENDS Stiac

CONSTANTS a, b

Ops(put, call, cancel, use) ==
  [op \in {"put", "call", "cancel", "use"} |->
     CASE op = "put" -> put [] op = "call" -> call [] op = "cancel" -> cancel [] op = "use" -> use]

(* One end calls and may cancel once, the other passes interfaces.              *)
OneCancel == [e \in Edges |-> IF e = a THEN Ops(0, 2, 1, 1) ELSE Ops(2, 0, 0, 0)]
(* Two calls from one end, both cancelled.                                      *)
Collision == [e \in Edges |-> IF e = a THEN Ops(0, 2, 2, 0) ELSE Ops(0, 0, 0, 0)]
===============================================================================
