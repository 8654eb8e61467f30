---------------------- MODULE MCFiberConditionVariable ----------------------
(***************************************************************************)
(* Model values for FiberConditionVariable: two waiters, a producer, and   *)
(* an interrupt handler in the runs that have one.                         *)
(***************************************************************************)
EXTENDS FiberConditionVariable, TLC

CONSTANTS f1, f2, f3, irq

MCFibers == {f1, f2, f3}
MCWaiters == {f1, f2}
MCProducers == {f3}
MCSuccessor == f1 :> f2 @@ f2 :> f3 @@ f3 :> f1
=============================================================================
