-------------------------- MODULE MCFiberCounting ---------------------------
(***************************************************************************)
(* Model values for FiberCounting: three fibers and an interrupt handler,  *)
(* a semaphore with four values and a latch that waits for three.          *)
(***************************************************************************)
EXTENDS FiberCounting, TLC

CONSTANTS f1, f2, f3, irq

MCFibers == {f1, f2, f3}
MCIsrs == {irq}
MCSuccessor == f1 :> f2 @@ f2 :> f3 @@ f3 :> f1
MCSteps == {1, 2}
=============================================================================
