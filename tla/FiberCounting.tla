--------------------------- MODULE FiberCounting ----------------------------
(***************************************************************************)
(* modm::fiber::counting_semaphore and modm::fiber::latch, used by fibers  *)
(* in round-robin order and by interrupts.  Both count with a load and a   *)
(* compare-exchange, between which an interrupt may run.                   *)
(***************************************************************************)
EXTENDS Integers

CONSTANTS
  Fibers,     \* the fibers in the ring of the scheduler
  Successor,  \* the fiber that yield() resumes, for each fiber
  Isrs,       \* the interrupt handlers
  Counts,     \* 2^8 or 2^16, the number of values of the semaphore's count_t
  Desired,    \* the permits that the semaphore is created with
  Expected,   \* what the latch is created with
  Steps       \* the arguments of count_down() and arrive_and_wait()

ASSUME CountingAssumption ==
  /\ Successor \in [Fibers -> Fibers]
  /\ Counts \in Nat \ {0}
  /\ Desired \in 0..(Counts - 1)
  /\ Expected \in Nat
  /\ Steps \subseteq Nat

VARIABLES
  turn,       \* Scheduler::current
  pc,         \* where each fiber is
  patience,   \* what its call of the semaphore does when an attempt fails
  seen,       \* the count that the executing fiber has loaded
  step,       \* the argument of the executing fiber's count_down()
  count,      \* counting_semaphore::count
  latch,      \* latch::count
  permits,    \* history: permits that were released and not acquired
  remaining   \* history: what count_down() was not yet called for

vars == << turn, pc, patience, seen, step, count, latch, permits, remaining >>

(* acquiring  in a call of the semaphore, at the start of an attempt        *)
(* loaded     between the load and the compare-exchange of try_acquire()    *)
(* counting   between those of count_down()                                 *)
(* arriving   between those of the count_down() of arrive_and_wait()        *)
(* waiting    in the loop of latch::wait()                                  *)
Places == {"running", "acquiring", "loaded", "counting", "arriving", "waiting"}

(* acquire() is `endless', try_acquire_for() `timed' as long as the clock   *)
(* allows another attempt, and try_acquire() `once'.                        *)
Patience == {"once", "timed", "endless"}

(* The types; and no fiber yields between a load and its exchange.          *)
TypeOK ==
  /\ turn \in Fibers
  /\ pc \in [Fibers -> Places]
  /\ patience \in [Fibers -> Patience]
  /\ seen \in Nat
  /\ step \in Steps \cup {0}
  /\ count \in 0..(Counts - 1)
  /\ latch \in 0..Expected
  /\ permits \in 0..(Counts - 1)
  /\ remaining \in 0..Expected
  /\ \A f \in Fibers : pc[f] \in {"loaded", "counting", "arriving"} => turn = f

Init ==
  /\ turn \in Fibers
  /\ pc = [f \in Fibers |-> "running"]
  /\ patience = [f \in Fibers |-> "once"]
  /\ seen = 0
  /\ step = 0
  /\ count = Desired
  /\ latch = Expected
  /\ permits = Desired
  /\ remaining = Expected

-----------------------------------------------------------------------------
At(f, places) == turn = f /\ pc[f] \in places

Goto(f, place) == pc' = [pc EXCEPT ![f] = place]

Yield(f) ==
  /\ At(f, {"running"})
  /\ turn' = Successor[f]
  /\ UNCHANGED << pc, patience, seen, step, count, latch, permits, remaining >>

-----------------------------------------------------------------------------
(* counting_semaphore.                                                     *)

(* acquire(), try_acquire(), try_acquire_for() and try_acquire_until().     *)
Acquire(f, p) ==
  /\ At(f, {"running"})
  /\ Goto(f, "acquiring")
  /\ patience' = [patience EXCEPT ![f] = p]
  /\ UNCHANGED << turn, seen, step, count, latch, permits, remaining >>

LoadCount(f) ==
  /\ At(f, {"acquiring"})
  /\ Goto(f, "loaded")
  /\ seen' = count
  /\ UNCHANGED << turn, patience, step, count, latch, permits, remaining >>

(* An attempt fails.  poll_for() tries again before it looks at the clock,  *)
(* so a call whose time is up has one more attempt, with a load of its own. *)
RetryAt == "acquiring"

Fail(f) ==
  /\ IF patience[f] = "once"
       THEN Goto(f, "running") /\ UNCHANGED << turn, patience >>
       ELSE /\ Goto(f, RetryAt)
            /\ turn' = Successor[f]
            /\ \/ UNCHANGED patience
               \/ /\ patience[f] = "timed"
                  /\ patience' = [patience EXCEPT ![f] = "once"]
  /\ seen' = 0
  /\ UNCHANGED << step, count, latch, permits, remaining >>

(* The compare-exchange of a loop succeeds on the value that was loaded, or *)
(* loads again.  A spurious failure changes nothing.  And a mutant that     *)
(* stores without comparing.                                                *)
StoreAnyway(value) == TRUE

ExchangeSucceeds(value) == value = seen

(* try_acquire() finds no permit; and a mutant that keeps the last one.     *)
LastKept == seen <= 1

Exhausted == seen = 0

ExchangeCount(f) ==
  /\ At(f, {"loaded"})
  /\ ~Exhausted
  /\ IF ExchangeSucceeds(count)
       THEN /\ count' = seen - 1
            /\ permits' = permits - 1
            /\ Goto(f, "running")
            /\ patience' = [patience EXCEPT ![f] = "once"]
            /\ seen' = 0
       ELSE /\ seen' = count
            /\ UNCHANGED << pc, patience, count, permits >>
  /\ UNCHANGED << turn, step, latch, remaining >>

NoPermit(f) ==
  /\ At(f, {"loaded"})
  /\ Exhausted
  /\ Fail(f)

(* release() of a fiber or an interrupt, that keeps the precondition of     *)
(* std::counting_semaphore: the count does not exceed max().                *)
Release(a) ==
  /\ a \in Fibers => At(a, {"running"})
  /\ permits < Counts - 1
  /\ count' = (count + 1) % Counts
  /\ permits' = permits + 1
  /\ UNCHANGED << turn, pc, patience, seen, step, latch, remaining >>

(* try_acquire() that succeeds in an interrupt.                             *)
IsrAcquire(i) ==
  /\ count # 0
  /\ count' = count - 1
  /\ permits' = permits - 1
  /\ UNCHANGED << turn, pc, patience, seen, step, latch, remaining >>

-----------------------------------------------------------------------------
(* latch.                                                                  *)

(* The value that count_down(n) stores.                                     *)
Lowered(value, n) == IF value >= n THEN value - n ELSE 0

(* The call and the load of count_down() and of arrive_and_wait().          *)
CountDown(f, n, place) ==
  /\ At(f, {"running"})
  /\ Goto(f, place)
  /\ seen' = latch
  /\ step' = n
  /\ UNCHANGED << turn, patience, count, latch, permits, remaining >>

(* The loop of count_down(): it ends on a latch that is open, and after the *)
(* exchange.                                                                *)
ExchangeLatch(f) ==
  /\ At(f, {"counting", "arriving"})
  /\ IF seen = 0 \/ ExchangeSucceeds(latch)
       THEN /\ latch' = IF seen = 0 THEN latch ELSE Lowered(seen, step)
            /\ remaining' = IF remaining >= step THEN remaining - step ELSE 0
            /\ Goto(f, IF pc[f] = "counting" THEN "running" ELSE "waiting")
            /\ seen' = 0
            /\ step' = 0
       ELSE /\ seen' = latch
            /\ UNCHANGED << pc, step, latch, remaining >>
  /\ UNCHANGED << turn, patience, count, permits >>

(* count_down() in an interrupt.                                            *)
IsrCountDown(i, n) ==
  /\ latch' = Lowered(latch, n)
  /\ remaining' = IF remaining >= n THEN remaining - n ELSE 0
  /\ UNCHANGED << turn, pc, patience, seen, step, count, permits >>

Wait(f) ==
  /\ At(f, {"running"})
  /\ Goto(f, "waiting")
  /\ UNCHANGED << turn, patience, seen, step, count, latch, permits, remaining >>

(* try_wait() in the loop of wait(); and a mutant that passes one too early.*)
OpenEarly == latch <= 1

Open == latch = 0

PollLatch(f) ==
  /\ At(f, {"waiting"})
  /\ IF Open
       THEN Goto(f, "running") /\ UNCHANGED turn
       ELSE turn' = Successor[f] /\ UNCHANGED pc
  /\ UNCHANGED << patience, seen, step, count, latch, permits, remaining >>

-----------------------------------------------------------------------------
(* What a fiber does inside the library.                                    *)
Continue(f) ==
  \/ LoadCount(f)
  \/ ExchangeCount(f)
  \/ NoPermit(f)
  \/ ExchangeLatch(f)
  \/ PollLatch(f)

Next ==
  \/ \E f \in Fibers :
       \/ Yield(f)
       \/ \E p \in Patience : Acquire(f, p)
       \/ \E n \in Steps, place \in {"counting", "arriving"} : CountDown(f, n, place)
       \/ Wait(f)
       \/ Continue(f)
  \/ \E a \in Fibers \cup Isrs : Release(a)
  \/ \E i \in Isrs :
       \/ IsrAcquire(i)
       \/ \E n \in Steps : IsrCountDown(i, n)

(* Fibers cooperate: a call into the library goes on, and no fiber keeps    *)
(* the turn for ever.                                                       *)
TurnPasses == (\E f \in Fibers : Yield(f) \/ Continue(f)) /\ turn' # turn

Fairness == WF_vars(\E f \in Fibers : Continue(f)) /\ SF_vars(TurnPasses)

Spec == Init /\ [][Next]_vars /\ Fairness

-----------------------------------------------------------------------------
(* No permit is lost and none is made up, whatever an interrupt releases or *)
(* acquires between the load and the exchange of try_acquire().             *)
PermitsConserved == count = permits

(* No count_down() is lost or counted twice, the latch does not underflow,  *)
(* and it is open exactly when all that was expected has arrived.           *)
LatchCounts == latch = remaining

(* A fiber passes latch::wait() only when all that was expected has arrived.*)
NobodyPassesEarly ==
  [][\A f \in Fibers :
       pc[f] = "waiting" /\ pc'[f] # "waiting" => remaining = 0]_vars

(* Interrupts may make the exchange of try_acquire() fail again and again,  *)
(* and no other fiber has a turn then.  Liveness assumes that at some time  *)
(* they cease to change the count in the middle of an attempt.              *)
Undisturbed == <>[](\A f \in Fibers : pc[f] = "loaded" => seen = count)

(* acquire() returns if from some time on there is a permit: release()      *)
(* hands none over to a fiber that waits.                                   *)
AcquireReturns ==
  Undisturbed /\ <>[](permits > 0) =>
    \A f \in Fibers :
      (pc[f] \in {"acquiring", "loaded"} /\ patience[f] = "endless") ~> (pc[f] = "running")

(* Everybody who waits at the latch passes once it is open: it stays open.  *)
LatchReleases ==
  Undisturbed =>
    \A f \in Fibers : (pc[f] = "waiting" /\ remaining = 0) ~> (pc[f] # "waiting")
=============================================================================
