----------------------- MODULE MCFiberRecursiveMutex ------------------------
(***************************************************************************)
(* Model values for FiberRecursiveMutex: three fibers in a ring and one    *)
(* interrupt handler.                                                      *)
(***************************************************************************)
EXTENDS FiberRecursiveMutex, TLC

CONSTANTS f1, f2, f3, irq

MCFibers == {f1, f2, f3}
MCIsrs == {irq}
MCSuccessor == f1 :> f2 @@ f2 :> f3 @@ f3 :> f1
=============================================================================
