----------------------------- MODULE RoundRobin -----------------------------
(***************************************************************************)
(* What modm::fiber::Scheduler promises: "executes fibers in a simple      *)
(* round-robin fashion" (scheduler.hpp.in).  The run queue is a sequence   *)
(* whose head executes while the scheduler runs.  A fiber that yields goes *)
(* to the back, a fiber that is added joins at the back, and a fiber that  *)
(* returns leaves.  When the last one leaves, the scheduler stops.         *)
(*                                                                         *)
(* This is an abstract specification.  FiberScheduler implements it with   *)
(* an intrusive ring of pointers.                                          *)
(***************************************************************************)
EXTENDS Naturals, Sequences

CONSTANT Tasks      \* the fibers

VARIABLES
  queue,            \* the run queue, head first
  running           \* is Scheduler::run() executing?

rrVars == << queue, running >>

Queued == { queue[i] : i \in DOMAIN queue }

RRTypeOK ==
  /\ queue \in Seq(Tasks)
  /\ running \in BOOLEAN

RRInit ==
  /\ queue = << >>
  /\ running = FALSE

(* A fiber that is not queued joins at the back. *)
Add(t) ==
  /\ t \notin Queued
  /\ queue' = Append(queue, t)
  /\ UNCHANGED running

(* The main context enters the fiber at the head. *)
Enter ==
  /\ ~running
  /\ queue # << >>
  /\ running' = TRUE
  /\ UNCHANGED queue

(* The executing fiber goes to the back and the next one resumes. *)
Rotate ==
  /\ running
  /\ queue' = Append(Tail(queue), Head(queue))
  /\ UNCHANGED running

(* The executing fiber ends. *)
Leave ==
  /\ running
  /\ queue' = Tail(queue)
  /\ running' = (Tail(queue) # << >>)

RRNext ==
  \/ \E t \in Tasks : Add(t)
  \/ Enter
  \/ Rotate
  \/ Leave

(* Fibers cooperate: one that executes while others wait eventually yields  *)
(* or returns.  A fiber that is alone may execute for ever.                 *)
Switch == Len(queue) > 1 /\ (Rotate \/ Leave)

RRSpec == RRInit /\ [][RRNext]_rrVars /\ WF_rrVars(Switch)
=============================================================================
