-------------------------- MODULE MCFiberScheduler --------------------------
(***************************************************************************)
(* Model values for FiberScheduler: three tasks, of which one polls its    *)
(* stop token.                                                             *)
(***************************************************************************)
EXTENDS FiberScheduler

CONSTANTS t1, t2, t3

MCTasks == {t1, t2, t3}
MCServers == {t3}
=============================================================================
