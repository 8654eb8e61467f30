----------------------- MODULE FiberConditionVariable -----------------------
(***************************************************************************)
(* modm::fiber::condition_variable_any with the fiber mutex that its       *)
(* waiters hold, used as its interface intends: a condition that is read   *)
(* and changed under the mutex, waiters that wait for it with a predicate, *)
(* and producers, fibers or interrupts, that establish it and notify.      *)
(* Fibers run in round-robin order, interrupts at any moment.              *)
(***************************************************************************)
EXTENDS Integers, FiniteSets

CONSTANTS
  Fibers,     \* the fibers in the ring of the scheduler
  Successor,  \* the fiber that yield() resumes, for each fiber
  Waiters,    \* the fibers that wait for the condition
  Producers,  \* the fibers that establish the condition
  Isrs,       \* the interrupt handlers that establish the condition
  Sequences,  \* 2^16, the number of values of condition_variable_any::sequence
  Burst       \* bound: notifications between two yields

ASSUME ConditionAssumption ==
  /\ IsFiniteSet(Fibers)
  /\ Successor \in [Fibers -> Fibers]
  /\ Waiters \subseteq Fibers
  /\ Producers \subseteq Fibers
  /\ Sequences \in Nat \ {0}
  /\ Burst \in Nat
  /\ Burst * Cardinality(Fibers) < Sequences

(* The scheduler passes the turn along one ring of all fibers.              *)
IsRing(position) ==
  \A f, g \in Fibers :
    /\ position[f] = position[g] => f = g
    /\ position[Successor[f]] =
         IF position[f] = Cardinality(Fibers) THEN 1 ELSE position[f] + 1

ASSUME RingAssumption ==
  \E position \in [Fibers -> 1..Cardinality(Fibers)] : IsRing(position)

VARIABLES
  turn,       \* Scheduler::current
  pc,         \* where each fiber is
  kind,       \* the overload of wait that a fiber has called
  locked,     \* mutex::locked
  sequence,   \* condition_variable_any::sequence
  seen,       \* poll_sequence of a waiting fiber
  ready,      \* the condition
  stop,       \* stop_state::requested of the token that waiters pass
  owes,       \* the producers that have not yet notified what they posted
  notified,   \* history: waiters that a notification must wake
  missed,     \* history: waiters that an interrupt notified before their load
  burst,      \* history: notifications since the last yield
  released,   \* history: did the executing fiber unlock in this turn?
  greedy      \* history: did a fiber ever unlock and lock in one turn?

lockVars == << locked, released, greedy >>
waitVars == << kind, seen, notified, missed >>
dataVars == << ready, stop, owes >>
vars == << turn, pc, waitVars, lockVars, dataVars, sequence, burst >>

(* running    in its own code, without the mutex                            *)
(* locking    in mutex::lock(), after a yield                               *)
(* critical   in its own code, with the mutex                               *)
(* checking   in wait(), about to evaluate the predicate                    *)
(* released   in wait(), between unlock() and the load of the sequence      *)
(* polling    in wait(), in poll()                                          *)
(* relocking  in wait(), in lock.lock()                                     *)
Places == {"running", "locking", "critical", "checking", "released",
           "polling", "relocking"}

(* The overloads with a duration end by `expired'.                          *)
Kinds == {"plain", "timed", "expired", "stoppable"}

(* The types; and no fiber yields between unlock() and the load.            *)
TypeOK ==
  /\ turn \in Fibers
  /\ pc \in [Fibers -> Places]
  /\ kind \in [Waiters -> Kinds]
  /\ locked \in BOOLEAN
  /\ sequence \in 0..(Sequences - 1)
  /\ seen \in [Waiters -> 0..(Sequences - 1)]
  /\ ready \in BOOLEAN
  /\ stop \in BOOLEAN
  /\ owes \in SUBSET Producers
  /\ notified \in SUBSET Waiters
  /\ missed \in SUBSET Waiters
  /\ burst \in 0..Burst
  /\ released \in BOOLEAN
  /\ greedy \in BOOLEAN
  /\ \A f \in Fibers : pc[f] = "released" => turn = f

Init ==
  /\ turn \in Fibers
  /\ pc = [f \in Fibers |-> "running"]
  /\ kind = [f \in Waiters |-> "plain"]
  /\ locked = FALSE
  /\ sequence = 0
  /\ seen = [f \in Waiters |-> 0]
  /\ ready = FALSE
  /\ stop = FALSE
  /\ owes = {}
  /\ notified = {}
  /\ missed = {}
  /\ burst = 0
  /\ released = FALSE
  /\ greedy = FALSE

-----------------------------------------------------------------------------
(* The executing fiber is at one of these places.                           *)
At(f, places) == turn = f /\ pc[f] \in places

Goto(f, place) == pc' = [pc EXCEPT ![f] = place]

PassTurn(f) ==
  /\ turn' = Successor[f]
  /\ released' = FALSE
  /\ burst' = 0

Yield(f) ==
  /\ At(f, {"running", "critical"})
  /\ PassTurn(f)
  /\ UNCHANGED << pc, waitVars, locked, greedy, dataVars, sequence >>

-----------------------------------------------------------------------------
(* mutex.                                                                  *)

(* try_lock(): exchange(true) returned false.  And a mutant that ignores it.*)
LockIgnored == TRUE

LockFree == ~locked

TakeLock ==
  /\ locked' = TRUE
  /\ greedy' = (greedy \/ released)
  /\ UNCHANGED released

(* lock() by a fiber outside the mutex, and its loop, also in wait().       *)
Lock(f) ==
  /\ At(f, {"running", "locking", "relocking"})
  /\ IF LockFree
       THEN /\ TakeLock
            /\ Goto(f, IF pc[f] = "relocking" THEN "checking" ELSE "critical")
            /\ UNCHANGED << turn, burst >>
       ELSE /\ Goto(f, IF pc[f] = "running" THEN "locking" ELSE pc[f])
            /\ PassTurn(f)
            /\ UNCHANGED << locked, greedy >>
  /\ UNCHANGED << waitVars, dataVars, sequence >>

Unlock(f) ==
  /\ At(f, {"critical"})
  /\ locked' = FALSE
  /\ released' = TRUE
  /\ Goto(f, "running")
  /\ UNCHANGED << turn, waitVars, greedy, dataVars, sequence, burst >>

-----------------------------------------------------------------------------
(* condition_variable_any.                                                 *)

(* wait(), wait_for(), wait_until() with a predicate, with or without a     *)
(* stop token.                                                              *)
Wait(f, k) ==
  /\ f \in Waiters
  /\ At(f, {"critical"})
  /\ Goto(f, "checking")
  /\ kind' = [kind EXCEPT ![f] = k]
  /\ UNCHANGED << turn, seen, notified, missed, lockVars, dataVars, sequence, burst >>

WaitEnds(f) ==
  \/ ready
  \/ kind[f] = "expired"
  \/ kind[f] = "stoppable" /\ stop

(* lock.unlock() in wait(), and a mutant that yields there.                 *)
ReleaseAndYield(f) ==
  /\ locked' = FALSE
  /\ PassTurn(f)

Release(f) ==
  /\ locked' = FALSE
  /\ released' = TRUE
  /\ UNCHANGED << turn, burst >>

(* The head of the loops: the predicate, the stop token and the timeout.    *)
Check(f) ==
  /\ At(f, {"checking"})
  /\ IF WaitEnds(f)
       THEN /\ Goto(f, "critical")
            /\ kind' = [kind EXCEPT ![f] = "plain"]
            /\ UNCHANGED << turn, locked, released, burst >>
       ELSE /\ Goto(f, "released")
            /\ Release(f)
            /\ UNCHANGED kind
  /\ UNCHANGED << seen, notified, missed, greedy, dataVars, sequence >>

(* wait_on_sequence(): the capture.                                         *)
Capture(f) ==
  /\ At(f, {"released"})
  /\ seen' = [seen EXCEPT ![f] = sequence]
  /\ Goto(f, "polling")
  /\ UNCHANGED << turn, kind, notified, missed, lockVars, dataVars, sequence, burst >>

(* wait_on_sequence(): the condition, and a mutant that takes the sequence  *)
(* for a number that only grows.                                            *)
SequenceGrown(f) == seen[f] < sequence

SequenceChanged(f) == seen[f] # sequence

(* poll(): the fiber wakes and goes to lock(), or yields.  poll_for() looks *)
(* at the clock after the condition, so a waiter whose time is up evaluates *)
(* the condition once more; when it holds, the loop of wait_for() begins    *)
(* again with the whole duration.  The variables of a call are reset when   *)
(* it ends.                                                                 *)
Poll(f) ==
  /\ At(f, {"polling"})
  /\ IF SequenceChanged(f) \/ kind[f] = "expired"
       THEN /\ Goto(f, "relocking")
            /\ notified' = notified \ {f}
            /\ missed' = missed \ {f}
            /\ seen' = [seen EXCEPT ![f] = 0]
            /\ kind' = [kind EXCEPT ![f] =
                          IF @ = "expired" /\ SequenceChanged(f) THEN "timed" ELSE @]
            /\ UNCHANGED << turn, released, burst >>
       ELSE /\ PassTurn(f)
            /\ \/ UNCHANGED kind
               \/ kind[f] = "timed" /\ kind' = [kind EXCEPT ![f] = "expired"]
            /\ UNCHANGED << pc, notified, missed, seen >>
  /\ UNCHANGED << locked, greedy, dataVars, sequence >>

(* notify_one() and notify_any(): fetch_add() on 16 bits.                   *)
Notification ==
  /\ burst < Burst
  /\ burst' = burst + 1
  /\ sequence' = (sequence + 1) % Sequences

(* The waiters that have released the mutex in wait().                      *)
Waiting(places) == { f \in Waiters : pc[f] \in places }

-----------------------------------------------------------------------------
(* The users.                                                              *)

Consume(f) ==
  /\ f \in Waiters
  /\ At(f, {"critical"})
  /\ ready
  /\ ready' = FALSE
  /\ UNCHANGED << turn, pc, waitVars, lockVars, stop, owes, sequence, burst >>

Post(f) ==
  /\ f \in Producers
  /\ At(f, {"critical"})
  /\ ready' = TRUE
  /\ owes' = owes \cup {f}
  /\ UNCHANGED << turn, pc, waitVars, lockVars, stop, sequence, burst >>

(* A fiber that notifies must wake every waiter that released the mutex.    *)
Notify(f) ==
  /\ f \in owes
  /\ At(f, {"running", "critical"})
  /\ Notification
  /\ notified' = notified \cup Waiting({"released", "polling"})
  /\ owes' = owes \ {f}
  /\ UNCHANGED << turn, pc, kind, seen, missed, lockVars, ready, stop >>

(* An interrupt establishes the condition and notifies, at any moment, with *)
(* or without the mutex.  A waiter between unlock() and the load misses it. *)
IsrPost(i) ==
  /\ ready' = TRUE
  /\ Notification
  /\ notified' = notified \cup Waiting({"polling"})
  /\ missed' = missed \cup Waiting({"released"})
  /\ UNCHANGED << turn, pc, kind, seen, lockVars, stop, owes >>

RequestStop ==
  /\ stop' = TRUE
  /\ UNCHANGED << turn, pc, waitVars, lockVars, ready, owes, sequence, burst >>

-----------------------------------------------------------------------------
(* What a fiber does inside the library, and where it hands over the turn.  *)
Continue(f) ==
  \/ At(f, {"locking", "relocking"}) /\ Lock(f)
  \/ Check(f)
  \/ Capture(f)
  \/ Poll(f)

Next ==
  \/ \E f \in Fibers :
       \/ Yield(f)
       \/ Lock(f)
       \/ Unlock(f)
       \/ \E k \in {"plain", "timed", "stoppable"} : Wait(f, k)
       \/ Check(f)
       \/ Capture(f)
       \/ Poll(f)
       \/ Consume(f)
       \/ Post(f)
       \/ Notify(f)
  \/ \E i \in Isrs : IsrPost(i)
  \/ RequestStop

(* Fibers cooperate: a call into the library goes on, and a fiber does not  *)
(* keep the turn for ever.                                                  *)
TurnPasses == (\E f \in Fibers : Yield(f) \/ Continue(f)) /\ turn' # turn

Fairness == WF_vars(\E f \in Fibers : Continue(f)) /\ SF_vars(TurnPasses)

Spec == Init /\ [][Next]_vars /\ Fairness

-----------------------------------------------------------------------------
HoldsLock(f) == pc[f] \in {"critical", "checking"}

(* The predicate is evaluated, and wait() returns, only with the mutex, and *)
(* no two fibers have it.                                                   *)
LockInv ==
  /\ \A f, g \in Fibers : HoldsLock(f) /\ HoldsLock(g) => f = g
  /\ locked <=> \E f \in Fibers : HoldsLock(f)

(* A notification by a fiber, or by an interrupt once the waiter has loaded *)
(* the sequence, is seen by every waiter that released the mutex before it: *)
(* until the waiter looks, what it compares with differs from the sequence. *)
NoLostNotification ==
  \A f \in notified : pc[f] = "polling" => seen[f] # sequence

(* Nor is a notification lost that an interrupt makes between unlock() and  *)
(* the load.  It is: see the README.                                        *)
NoLostInterrupt ==
  \A f \in missed : pc[f] = "polling" => seen[f] # sequence

(* A waiter that was notified returns to its predicate with the mutex, if   *)
(* every critical section ends and no fiber unlocks and locks again without *)
(* a yield in between.                                                      *)
NotifiedReturns ==
  [](~greedy) /\ (\A f \in Fibers : []<>(~HoldsLock(f)))
    => \A f \in Waiters : (f \in notified) ~> (pc[f] = "checking")

(* wait() with a stop token returns after a stop request.  It need not: see *)
(* the README.                                                              *)
StopEndsWait ==
  [](~greedy) /\ (\A f \in Fibers : []<>(~HoldsLock(f)))
    => \A f \in Waiters :
         (stop /\ pc[f] = "polling" /\ kind[f] = "stoppable") ~> (pc[f] # "polling")
=============================================================================
