------------------------------ MODULE MC_Future ------------------------------
(* Three states, the second the result of a chain on the first and the third *)
(* the result of a chain on the second; continuations of then and canceled   *)
(* on the first.                                                             *)
EXTENDS Future, TLC

CONSTANTS a, b, c, chain1, chain2, then1, cancel1

SrcOf == (chain1 :> a) @@ (chain2 :> b) @@ (then1 :> a) @@ (cancel1 :> a)
DstOf == (chain1 :> b) @@ (chain2 :> c) @@ (then1 :> NoState)
==============================================================================
