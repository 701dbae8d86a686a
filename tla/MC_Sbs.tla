-------------------------------- MODULE MC_Sbs --------------------------------
(* Three subscriptions, two activations at a time, one owner.                  *)
EXTENDS Sbs, TLC

Symmetry == Permutations(Subs) \union Permutations(Acts)
==============================================================================
