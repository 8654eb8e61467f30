--------------------------- MODULE FiberScheduler ---------------------------
(***************************************************************************)
(* modm::fiber::Scheduler and modm::fiber::Task: the cooperative scheduler *)
(* of one core, with its intrusive ring of tasks, and the life of a task:  *)
(* start, yield, return, join, stop request and destruction.               *)
(*                                                                         *)
(* Control changes hands only in yield() and unschedule(), so everything a *)
(* fiber does between two of these calls is one step.  Interrupts may only *)
(* call request_stop() among the operations modelled here.                 *)
(***************************************************************************)
EXTENDS FiniteSets, Integers

CONSTANTS
  Tasks,      \* the Task objects
  Servers,    \* tasks whose closure is `while(not stop_requested()) yield();'
  NoTask,     \* nullptr
  Wild        \* the value of a pointer that was never initialised

ASSUME TasksAssumption ==
  /\ Servers \subseteq Tasks
  /\ NoTask \notin Tasks
  /\ Wild \notin Tasks
  /\ Wild # NoTask

VARIABLES
  last,           \* Scheduler::last, the task at the end of the ring
  current,        \* Scheduler::current, NoTask when run() is not executing
  autoWatermark,  \* Scheduler::options & AutoWatermark
  next,           \* Task::next of every task
  attached,       \* the tasks with Task::scheduler # nullptr
  ctx,            \* what the saved context of a task resumes
  stop,           \* the tasks with stop_state::requested set
  joins,          \* the task whose join() a fiber is blocked in, or NoTask
  object,         \* the lifetime of the Task object
  marked          \* the tasks whose stack was watermarked for this start

ringVars == << last, current, next, attached, ctx >>
vars == << ringVars, autoWatermark, stop, joins, object, marked >>

Pointers == Tasks \cup {NoTask, Wild}

(* A context is `fresh' after the constructor, `reset' by start(), `live'   *)
(* once it was jumped to, and `dead' when its function has returned.        *)
Contexts == {"fresh", "reset", "live", "dead"}

(* A Task is `dying' while its destructor waits in join().                  *)
Lifetimes == {"alive", "dying", "gone"}

TypeOK ==
  /\ last \in Tasks \cup {NoTask}
  /\ current \in Tasks \cup {NoTask}
  /\ autoWatermark \in BOOLEAN
  /\ next \in [Tasks -> Pointers]
  /\ attached \in SUBSET Tasks
  /\ ctx \in [Tasks -> Contexts]
  /\ stop \in SUBSET Tasks
  /\ joins \in [Tasks -> Tasks \cup {NoTask}]
  /\ object \in [Tasks -> Lifetimes]
  /\ marked \in SUBSET Tasks

Init ==
  /\ last = NoTask
  /\ current = NoTask
  /\ autoWatermark = FALSE
  /\ next = [t \in Tasks |-> Wild]
  /\ attached = {}
  /\ ctx = [t \in Tasks |-> "fresh"]
  /\ stop = {}
  /\ joins = [t \in Tasks |-> NoTask]
  /\ object = [t \in Tasks |-> "alive"]
  /\ marked = {}

-----------------------------------------------------------------------------
(* The scheduler.                                                          *)

Running == current # NoTask

Empty == last = NoTask

(* jump(): the context that is entered executes from now on.                *)
Jump(t) ==
  /\ current' = t
  /\ ctx' = [ctx EXCEPT ![t] = "live"]

(* Mutants of SwitchToNext: the end of the ring is forgotten, and the wrong  *)
(* neighbour is entered.                                                    *)
SwitchKeepingLast(f) ==
  /\ Jump(next[f])
  /\ UNCHANGED << last, next, attached >>

SwitchToPrevious(f) ==
  /\ last' = f
  /\ Jump(last)
  /\ UNCHANGED << next, attached >>

(* yield() of the executing fiber f.  `last = current' moves the end of the *)
(* ring, which makes f the last one to run again.                           *)
SwitchToNext(f) ==
  /\ last' = f
  /\ Jump(next[f])
  /\ UNCHANGED << next, attached >>

(* removeCurrent(), as the new values of the pointers.                      *)
LastWithout(f) == IF f = last THEN NoTask ELSE last

NextNotRepaired(f) == [next EXCEPT ![f] = NoTask]  \* mutant of NextWithout

NextWithout(f) ==
  IF f = last
    THEN [next EXCEPT ![f] = NoTask]
    ELSE [next EXCEPT ![last] = next[f], ![f] = NoTask]

(* A mutant of AddLast: runNext() in the place of runLast().                *)
AddNext(t) ==
  IF Empty
    THEN next' = [next EXCEPT ![t] = t] /\ last' = t
    ELSE /\ next' = [next EXCEPT ![t] = next[next[last]], ![next[last]] = t]
         /\ UNCHANGED last

(* add() and runLast(): t closes the ring.                                  *)
AddLast(t) ==
  /\ next' = IF Empty
               THEN [next EXCEPT ![t] = t]
               ELSE [next EXCEPT ![t] = next[last], ![last] = t]
  /\ last' = t

(* The tasks that the watermarking loop of start() visits: those that the   *)
(* pointers reach from last->next.                                          *)
Follow(p) == IF p \in Tasks THEN next[p] ELSE p

VisitsFirst == {next[last]}  \* mutant of Visited

Visited ==
  { t \in Tasks : \A S \in SUBSET Pointers :
      (next[last] \in S /\ \A p \in S : Follow(p) \in S) => t \in S }

(* Scheduler::run() on a ring with tasks, called by the main context.       *)
Run(watermark) ==
  /\ ~Running
  /\ ~Empty
  /\ autoWatermark' = watermark
  /\ marked' = IF watermark THEN marked \cup Visited ELSE marked
  /\ Jump(next[last])
  /\ UNCHANGED << last, next, attached, stop, joins, object >>

(* Scheduler::run() on an empty ring returns at once, and keeps the options *)
(* that it was given.                                                       *)
RunEmpty(watermark) ==
  /\ ~Running
  /\ Empty
  /\ autoWatermark' = watermark
  /\ UNCHANGED << ringVars, stop, joins, object, marked >>

-----------------------------------------------------------------------------
(* Tasks.                                                                  *)

(* The Task may be used by its owner: its destructor has not begun.         *)
Usable(t) == object[t] = "alive"

(* Fiber f executes its own closure: it is current and not inside join().   *)
Executing(f) == current = f /\ joins[f] = NoTask

(* The main context before run(), or a fiber, can call a Task's operations. *)
CanCall == \A f \in Tasks : current = f => joins[f] = NoTask

Yield(f) ==
  /\ Executing(f)
  /\ f \in Servers => f \notin stop
  /\ SwitchToNext(f)
  /\ UNCHANGED << autoWatermark, stop, joins, object, marked >>

(* The closure of f returns and its wrapper calls unschedule().  After the  *)
(* last fiber, modm_context_end() returns into start(), which clears the    *)
(* options.                                                                 *)
Return(f) ==
  /\ Executing(f)
  /\ f \in Servers => f \in stop
  /\ next' = NextWithout(f)
  /\ last' = LastWithout(f)
  /\ attached' = attached \ {f}
  /\ IF f = last
       THEN /\ current' = NoTask
            /\ ctx' = [ctx EXCEPT ![f] = "dead"]
            /\ autoWatermark' = FALSE
       ELSE /\ current' = next[f]
            /\ ctx' = [ctx EXCEPT ![f] = "dead", ![next[f]] = "live"]
            /\ UNCHANGED autoWatermark
  /\ UNCHANGED << stop, joins, object, marked >>

(* modm_context_reset(): the function starts from its beginning.            *)
ContextNotReset(t) == ctx' = [ctx EXCEPT ![t] = @]  \* mutant of ResetContext

ResetContext(t) == ctx' = [ctx EXCEPT ![t] = "reset"]

(* Task::start() of a task that is not running.  A stop request that was    *)
(* made earlier stays set.                                                  *)
StartTask(t) ==
  /\ CanCall
  /\ Usable(t)
  /\ t \notin attached
  /\ ResetContext(t)
  /\ marked' = IF autoWatermark THEN marked \cup {t} ELSE marked \ {t}
  /\ attached' = attached \cup {t}
  /\ AddLast(t)
  /\ UNCHANGED << current, autoWatermark, stop, joins, object >>

(* stop_state::request_stop(): sets the flag, whatever it was.              *)
StopExchanged(t) == stop \ {t}  \* mutant of StopWith

StopWith(t) == stop \cup {t}

(* Task::request_stop(), by anyone and from interrupts.                     *)
RequestStop(t) ==
  /\ Usable(t)
  /\ stop' = StopWith(t)
  /\ UNCHANGED << ringVars, autoWatermark, joins, object, marked >>

(* joinable(): the task is attached, and is not the fiber that asks.        *)
JoinableSelf(f, t) == t \in attached /\ t = f  \* mutant of Joinable

Joinable(f, t) == t \in attached /\ t # f

(* Task::join() by fiber f, when it has to wait.                            *)
JoinCall(f, t) ==
  /\ Executing(f)
  /\ f \notin Servers
  /\ Usable(t)
  /\ Joinable(f, t)
  /\ joins' = [joins EXCEPT ![f] = t]
  /\ SwitchToNext(f)
  /\ UNCHANGED << autoWatermark, stop, object, marked >>

(* Task::~Task() by fiber f: request_stop() and join().  No fiber may use a *)
(* Task while it is destroyed, so nobody else waits in its join(), and its  *)
(* own fiber does not destroy it.                                           *)
Destroy(f, t) ==
  /\ Executing(f)
  /\ f \notin Servers
  /\ Usable(t)
  /\ t # f
  /\ \A g \in Tasks : joins[g] # t
  /\ stop' = StopWith(t)
  /\ IF Joinable(f, t)
       THEN /\ joins' = [joins EXCEPT ![f] = t]
            /\ object' = [object EXCEPT ![t] = "dying"]
            /\ SwitchToNext(f)
       ELSE /\ object' = [object EXCEPT ![t] = "gone"]
            /\ UNCHANGED << ringVars, joins >>
  /\ UNCHANGED << autoWatermark, marked >>

(* Task::~Task() by the main context, before run() or after it has returned. *)
(* Of a task that is attached the destructor would never end: yield() has no *)
(* effect there (see the README).                                           *)
DestroyIdle(t) ==
  /\ ~Running
  /\ Usable(t)
  /\ t \notin attached
  /\ \A g \in Tasks : joins[g] # t
  /\ stop' = StopWith(t)
  /\ object' = [object EXCEPT ![t] = "gone"]
  /\ UNCHANGED << ringVars, autoWatermark, joins, marked >>

(* `while(isRunning())' of join(), and a mutant that reads it only once.     *)
AwaitedStale(f) == joins[f] # NoTask

Awaited(f) == joins[f] \in attached

(* The loop of join(): fiber f yields again, or the call returns, and with  *)
(* it the destructor that made the call.                                    *)
JoinPoll(f) ==
  /\ current = f
  /\ joins[f] # NoTask
  /\ IF Awaited(f)
       THEN /\ SwitchToNext(f)
            /\ UNCHANGED << joins, object >>
       ELSE /\ joins' = [joins EXCEPT ![f] = NoTask]
            /\ object' = [object EXCEPT ![joins[f]] =
                            IF @ = "dying" THEN "gone" ELSE @]
            /\ UNCHANGED ringVars
  /\ UNCHANGED << autoWatermark, stop, marked >>

-----------------------------------------------------------------------------
Fiber(f) ==
  \/ Yield(f)
  \/ Return(f)
  \/ JoinPoll(f)
  \/ \E t \in Tasks : JoinCall(f, t) \/ Destroy(f, t)

Next ==
  \/ \E watermark \in BOOLEAN : Run(watermark) \/ RunEmpty(watermark)
  \/ \E f \in Tasks : Fiber(f)
  \/ \E t \in Tasks : StartTask(t) \/ RequestStop(t) \/ DestroyIdle(t)

(* Fibers are cooperative: the one that executes reaches its next yield()   *)
(* or its end.  The processor does not stop in between.                     *)
Fairness == WF_vars(\E f \in Tasks : Yield(f) \/ Return(f) \/ JoinPoll(f))

Spec == Init /\ [][Next]_vars /\ Fairness

-----------------------------------------------------------------------------
(* Safety.                                                                 *)

(* The pointers are one ring: `next' permutes the attached tasks, has no    *)
(* cycle that leaves some of them out, and never leads to a task that is    *)
(* not attached.  The executing fiber is last->next.  A fiber that the ring *)
(* lost would never execute again, and one that it kept after its end would *)
(* be resumed on a dead stack.  (runNext, runLast, removeCurrent)           *)
RingInv ==
  /\ last \in attached \/ (last = NoTask /\ attached = {})
  /\ \A t \in attached : next[t] \in attached
  /\ \A t, u \in attached : next[t] = next[u] => t = u
  /\ \A S \in SUBSET attached :
       (S # {} /\ \A t \in S : next[t] \in S) => S = attached
  /\ Running => ~Empty /\ current = next[last]

(* Only attached fibers have a stack to resume, the executing one is live,  *)
(* and a fiber inside join() is live too.                                   *)
ContextInv ==
  /\ \A t \in Tasks : t \in attached <=> ctx[t] \in {"reset", "live"}
  /\ Running => ctx[current] = "live"
  /\ \A f \in Tasks : joins[f] # NoTask => ctx[f] = "live"

(* A Task that was destroyed is out of the ring and nobody waits in its     *)
(* join(), where the loop would read freed memory.  While the destructor    *)
(* waits, exactly one fiber executes it.                                    *)
NoDanglingTask ==
  \A t \in Tasks :
    /\ object[t] = "gone" => t \notin attached /\ \A f \in Tasks : joins[f] # t
    /\ object[t] = "dying" =>
         /\ t \in stop
         /\ \E f \in Tasks : joins[f] = t /\ \A g \in Tasks : joins[g] = t => g = f

(* "On every fiber start, watermark the fiber stack": while run(AutoWater-  *)
(* mark) executes, each fiber has had its stack watermarked for this start, *)
(* whether it was added before run() or by another fiber.                   *)
WatermarkInv == Running /\ autoWatermark => attached \subseteq marked

(* A stack that fibers resume is never reset under them: only the fiber     *)
(* itself leaves the live state, by returning, and a dead context comes     *)
(* back to life only through start().                                       *)
StacksAreKept ==
  [][\A t \in Tasks :
       /\ ctx[t] = "live" /\ ctx'[t] # "live" => t = current /\ ctx'[t] = "dead"
       /\ ctx[t] # "live" /\ ctx'[t] = "live" => ctx[t] = "reset"]_vars

-----------------------------------------------------------------------------
(* Refinement.                                                             *)

(* The ring, read from last->next, is the run queue.                        *)
Position[i \in Nat] ==
  IF i <= 1 THEN next[last] ELSE Follow(Position[i - 1])

RingAsQueue ==
  IF Empty THEN << >> ELSE [i \in 1..Cardinality(attached) |-> Position[i]]

RR == INSTANCE RoundRobin WITH queue <- RingAsQueue, running <- Running

(* The scheduler "executes fibers in a simple round-robin fashion".         *)
RoundRobinSpec == RR!RRSpec

-----------------------------------------------------------------------------
(* Liveness.                                                               *)

(* Every fiber in the ring executes again while the scheduler runs, however *)
(* often other fibers are started, return and wait in join().               *)
EveryFiberExecutes ==
  \A t \in Tasks : (Running /\ t \in attached) ~> (current = t)

(* A join() that never returns waits for a task that is attached again and  *)
(* again: the wait is never due to the scheduler.                           *)
JoinReturns ==
  \A f, t \in Tasks : <>[](joins[f] = t) => []<>(t \in attached)

(* The destructor of a task whose closure polls its stop token ends.        *)
DestructorEnds ==
  \A t \in Servers : (object[t] = "dying") ~> (object[t] = "gone")

(* "Blocks the current fiber until the fiber identified by *this finishes   *)
(* its execution" (task.hpp): the join() of a fiber that finishes again and *)
(* again returns.  It need not: see the README.                             *)
JoinReturnsOnceFinished ==
  \A f, t \in Tasks : []<>(t \notin attached) => []<>(joins[f] # t)
=============================================================================
