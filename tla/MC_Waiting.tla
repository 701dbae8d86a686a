------------------------------ MODULE MC_Waiting ------------------------------
(* Two programs over Waiting: one of locks, with stopped tasks and a dying     *)
(* mutex, and one of signals and a recursive mutex.                            *)
EXTENDS Waiting, TLC

CONSTANTS m, r, s, e, f, n, p

WaitAll(over)       == [mode |-> "all", over |-> over, sat |-> {}]
WaitAny(over)       == [mode |-> "any", over |-> over, sat |-> {}]
WaitExpr(over, sat) == [mode |-> "expr", over |-> over, sat |-> sat]

KindOf == (m :> "mutex") @@ (r :> "recursive") @@ (s :> "semaphore") @@ (e :> "event") @@ (f :> "event")
          @@ (n :> "notifierOne") @@ (p :> "pulserAll")

Locks   == [has |-> {m, s, e}, stops |-> Tasks, dies |-> {m}]
Signals == [has |-> {e, f, n, p, r}, stops |-> {}, dies |-> {}]
Programs == {Locks, Signals}

(* The expression is e && !f.                                                  *)
SignalWaits == {WaitAll(<<e, n>>), WaitAny(<<n, e>>), WaitAll(<<p>>), WaitAll(<<r>>),
                WaitExpr(<<e, f>>, {{1}})}
MixedWaits  == {WaitAll(<<m>>), WaitAll(<<s>>), WaitAll(<<m, s>>), WaitAll(<<m, e>>), WaitAny(<<s, m>>)}
AllWaits    == SignalWaits \union MixedWaits

(* The run is within what the theorems speak of.                               *)
ASSUME PlainAssumption == PlainWaits

Symmetry == Permutations(Tasks)
==============================================================================
