----------------------------- MODULE IdealTimer -----------------------------
(***************************************************************************)
(* What software timers promise, on a clock that never wraps around: a     *)
(* timeout fires once, not before its time; a periodic timer keeps its     *)
(* phase however late it is looked at, and says how many periods ended     *)
(* before the look.                                                        *)
(***************************************************************************)
EXTENDS Integers, FiniteSets

CONSTANTS
  Intervals,  \* the durations in use
  Never       \* the deadline of a timer that does not run

VARIABLES
  kind,      \* "Timeout" or "PeriodicTimer"
  time,
  deadline,
  interval,
  returned   \* what the last execute() has returned

idealVars == << kind, time, deadline, interval, returned >>

IdealInit ==
  /\ kind \in {"Timeout", "PeriodicTimer"}
  /\ time = 0
  /\ deadline = Never
  /\ interval = 0
  /\ returned = 0

Pass ==
  /\ time' = time + 1
  /\ UNCHANGED << kind, deadline, interval, returned >>

Set(i) ==
  /\ deadline' = time + i
  /\ interval' = i
  /\ UNCHANGED << kind, time, returned >>

Cancel ==
  /\ deadline' = Never
  /\ interval' = 0
  /\ UNCHANGED << kind, time, returned >>

Due == deadline # Never /\ deadline <= time

TooEarly ==
  /\ ~Due
  /\ returned' = 0
  /\ UNCHANGED << kind, time, deadline, interval >>

FireOnce ==
  /\ kind = "Timeout" /\ Due
  /\ returned' = 1
  /\ deadline' = Never
  /\ UNCHANGED << kind, time, interval >>

(* The deadlines before this moment; the next one is after it, on the grid. *)
Ended == {k \in 0..time : deadline + k * interval < time}

FirePeriod ==
  /\ kind = "PeriodicTimer" /\ Due
  /\ IF interval = 0
       THEN returned' = 1 /\ deadline' = time
       ELSE /\ returned' = IF Ended = {} THEN 1 ELSE Cardinality(Ended)
            /\ \E k \in 1..(time + 1) :
                 /\ deadline' = deadline + k * interval
                 /\ time < deadline' /\ deadline' <= time + interval
  /\ UNCHANGED << kind, time, interval >>

IdealNext ==
  \/ Pass
  \/ \E i \in Intervals \cup {interval} : Set(i)
  \/ Cancel
  \/ TooEarly
  \/ FireOnce
  \/ FirePeriod

IdealSpec == IdealInit /\ [][IdealNext]_idealVars
=============================================================================
