------------------------- MODULE MCFiberSharedMutex -------------------------
(***************************************************************************)
(* Model values for FiberSharedMutex: three fibers in a ring and one       *)
(* interrupt handler, with one reader or with several.                     *)
(***************************************************************************)
EXTENDS FiberSharedMutex, TLC

CONSTANTS f1, f2, f3, irq

MCFibers == {f1, f2, f3}
MCIsrs == {irq}
MCSuccessor == f1 :> f2 @@ f2 :> f3 @@ f3 :> f1
MCOneReader == {{f1}, {irq}}
MCTwoReaders == {{f1, f2}}
=============================================================================
