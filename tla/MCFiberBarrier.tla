--------------------------- MODULE MCFiberBarrier ---------------------------
(***************************************************************************)
(* Model values for FiberBarrier: three fibers in a ring.                  *)
(***************************************************************************)
EXTENDS FiberBarrier, TLC

CONSTANTS f1, f2, f3

MCFibers == {f1, f2, f3}
MCSuccessor == f1 :> f2 @@ f2 :> f3 @@ f3 :> f1
=============================================================================
