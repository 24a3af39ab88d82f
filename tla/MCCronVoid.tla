----------------------------- MODULE MCCronVoid -----------------------------
(***************************************************************************)
(* Instance for TLC: a confirmed transaction has two outputs; t spends     *)
(* one of its outputs, u a change of t, and v, which has nothing to do     *)
(* with t, the other one.                                                  *)
(***************************************************************************)
EXTENDS CronVoid, TLC

CONSTANTS f, t, u, v, A, B, C, f1, f2, t1, t2, u1, v1

MCTxOf == f1 :> f @@ f2 :> f @@ t1 :> t @@ t2 :> t @@ u1 :> u @@ v1 :> v
MCInputs == f :> {} @@ t :> {f1} @@ u :> {t1} @@ v :> {f2}
MCAddressOf == f1 :> A @@ f2 :> B @@ t1 :> B @@ t2 :> C @@ u1 :> A @@ v1 :> B
MCValue == f1 :> 3 @@ f2 :> 4 @@ t1 :> 2 @@ t2 :> 1 @@ u1 :> 2 @@ v1 :> 4
=============================================================================
