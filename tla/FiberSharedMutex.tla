-------------------------- MODULE FiberSharedMutex --------------------------
(***************************************************************************)
(* modm::fiber::shared_mutex and shared_timed_mutex, used by fibers in     *)
(* round-robin order and by interrupts.  A fiber runs undisturbed by other *)
(* fibers until it yields, but an interrupt may run between the load and   *)
(* the compare-exchange of try_lock_shared().                              *)
(***************************************************************************)
EXTENDS Integers

CONSTANTS
  Fibers,       \* the fibers in the ring of the scheduler
  Successor,    \* the fiber that yield() resumes, for each fiber
  Isrs,         \* the interrupt handlers that use the mutex
  ReaderSets,   \* the sets of actors among which the users of the shared mode are
  NoOwner,      \* shared_mutex::NoOwner
  SharedOwner   \* shared_mutex::SharedOwner

Actors == Fibers \cup Isrs

ASSUME SharedMutexAssumption ==
  /\ Successor \in [Fibers -> Fibers]
  /\ Fibers \cap Isrs = {}
  /\ ReaderSets \subseteq SUBSET Actors
  /\ NoOwner \notin Actors
  /\ SharedOwner \notin Actors
  /\ NoOwner # SharedOwner

Owners == Actors \cup {NoOwner, SharedOwner}
Modes == {"exclusive", "shared"}

VARIABLES
  turn,       \* Scheduler::current
  pc,         \* is a fiber in its own code, at the start of an attempt to
              \* lock, or between the load and the compare-exchange?
  wants,      \* the mode that a fiber tries to lock in
  patience,   \* what its call does when an attempt fails
  seen,       \* `current' of try_lock_shared()
  owner,      \* shared_mutex::owner
  readers,    \* the actors that use the shared mode in this program
  holds,      \* history: the mode in which each actor holds the mutex
  released,   \* history: did the executing fiber unlock in this turn?
  greedy      \* history: did a fiber ever unlock and lock in one turn?

callVars == << turn, pc, wants, patience, seen, readers >>
vars == << callVars, owner, holds, released, greedy >>

(* A call that fails is tried once more after each yield: `endless' by      *)
(* lock(), `timed' as long as the clock allows it, and `once' by try_lock().*)
Patience == {"once", "timed", "endless"}

(* The types; and a fiber does not yield between load and exchange.         *)
TypeOK ==
  /\ turn \in Fibers
  /\ pc \in [Fibers -> {"running", "trying", "loaded"}]
  /\ wants \in [Fibers -> Modes]
  /\ patience \in [Fibers -> Patience]
  /\ seen \in [Fibers -> Owners]
  /\ owner \in Owners
  /\ readers \in ReaderSets
  /\ holds \in [Actors -> Modes \cup {"none"}]
  /\ released \in BOOLEAN
  /\ greedy \in BOOLEAN
  /\ \A f \in Fibers :
       /\ pc[f] # "running" => holds[f] = "none"
       /\ pc[f] = "loaded" => turn = f /\ wants[f] = "shared"

Init ==
  /\ turn \in Fibers
  /\ pc = [f \in Fibers |-> "running"]
  /\ wants = [f \in Fibers |-> "exclusive"]
  /\ patience = [f \in Fibers |-> "once"]
  /\ seen = [f \in Fibers |-> NoOwner]
  /\ owner = NoOwner
  /\ readers \in ReaderSets
  /\ holds = [a \in Actors |-> "none"]
  /\ released = FALSE
  /\ greedy = FALSE

-----------------------------------------------------------------------------
Executing(f) == turn = f /\ pc[f] = "running"

(* yield(): the turn passes on.                                             *)
PassTurn(f) ==
  /\ turn' = Successor[f]
  /\ released' = FALSE

Yield(f) ==
  /\ Executing(f)
  /\ PassTurn(f)
  /\ UNCHANGED << readers, pc, wants, patience, seen, owner, holds, greedy >>

(* A fiber that does not hold the mutex calls one of the functions that     *)
(* lock it.                                                                 *)
Call(f, mode, p) ==
  /\ Executing(f)
  /\ holds[f] = "none"
  /\ mode = "shared" => f \in readers
  /\ pc' = [pc EXCEPT ![f] = "trying"]
  /\ wants' = [wants EXCEPT ![f] = mode]
  /\ patience' = [patience EXCEPT ![f] = p]
  /\ UNCHANGED << readers, turn, seen, owner, holds, released, greedy >>

(* The call returns with the mutex.                                         *)
Succeed(f, new) ==
  /\ owner' = new
  /\ holds' = [holds EXCEPT ![f] = wants[f]]
  /\ pc' = [pc EXCEPT ![f] = "running"]
  /\ greedy' = (greedy \/ released)
  /\ UNCHANGED << readers, turn, wants, patience, seen, released >>

(* Each attempt starts with a load of its own.                              *)
RetryAt(f) == "trying"

(* The attempt fails: try_lock() returns, the others yield.  poll_for()     *)
(* tries again before it looks at the clock, so a call whose time is up has *)
(* one more attempt.                                                        *)
Fail(f) ==
  /\ IF patience[f] = "once"
       THEN /\ pc' = [pc EXCEPT ![f] = "running"]
            /\ UNCHANGED << turn, released, patience >>
       ELSE /\ pc' = [pc EXCEPT ![f] = RetryAt(f)]
            /\ PassTurn(f)
            /\ \/ UNCHANGED patience
               \/ /\ patience[f] = "timed"
                  /\ patience' = [patience EXCEPT ![f] = "once"]
  /\ UNCHANGED << readers, wants, seen, owner, holds, greedy >>

(* try_lock(): the compare-exchange of the owner with NoOwner, and a mutant *)
(* that lets a writer in beside readers.                                    *)
FreeOrShared == owner \in {NoOwner, SharedOwner}

Free == owner = NoOwner

TryExclusive(f) ==
  /\ turn = f
  /\ pc[f] = "trying"
  /\ wants[f] = "exclusive"
  /\ IF Free THEN Succeed(f, f) ELSE Fail(f)

(* try_lock_shared(), the load.                                             *)
LoadOwner(f) ==
  /\ turn = f
  /\ pc[f] = "trying"
  /\ wants[f] = "shared"
  /\ seen' = [seen EXCEPT ![f] = owner]
  /\ pc' = [pc EXCEPT ![f] = "loaded"]
  /\ UNCHANGED << readers, turn, wants, patience, owner, holds, released, greedy >>

(* try_lock_shared(), the loop: the test of the value that was read, then   *)
(* the compare-exchange, which reads it again when it fails.  A spurious    *)
(* failure of compare_exchange_weak() changes nothing.                      *)
ExclusiveSeen(f) == seen[f] \in Actors

ExchangeSucceeds(f) == owner = seen[f]

Exchange(f) ==
  /\ turn = f
  /\ pc[f] = "loaded"
  /\ IF ExclusiveSeen(f)
       THEN Fail(f)
       ELSE IF ExchangeSucceeds(f)
         THEN Succeed(f, SharedOwner)
         ELSE /\ seen' = [seen EXCEPT ![f] = owner]
              /\ UNCHANGED << readers, turn, pc, wants, patience, owner, holds, released, greedy >>

(* unlock() and unlock_shared() do the same: they store NoOwner.            *)
OwnerKept == owner  \* mutant of OwnerAfterUnlock

OwnerAfterUnlock == NoOwner

Unlock(a) ==
  /\ a \in Fibers => Executing(a)
  /\ holds[a] # "none"
  /\ owner' = OwnerAfterUnlock
  /\ holds' = [holds EXCEPT ![a] = "none"]
  /\ released' = (released \/ a \in Fibers)
  /\ UNCHANGED << callVars, greedy >>

(* try_lock() and try_lock_shared() that succeed in an interrupt, which     *)
(* runs to its end before the fiber continues.                              *)
IsrTryLock(i) ==
  /\ holds[i] = "none"
  /\ Free
  /\ owner' = i
  /\ holds' = [holds EXCEPT ![i] = "exclusive"]
  /\ UNCHANGED << callVars, released, greedy >>

IsrTryLockShared(i) ==
  /\ i \in readers
  /\ holds[i] = "none"
  /\ owner \notin Actors
  /\ owner' = SharedOwner
  /\ holds' = [holds EXCEPT ![i] = "shared"]
  /\ UNCHANGED << callVars, released, greedy >>

-----------------------------------------------------------------------------
Attempt(f) == TryExclusive(f) \/ LoadOwner(f) \/ Exchange(f)

Next ==
  \/ \E f \in Fibers :
       \/ Yield(f)
       \/ \E mode \in Modes, p \in Patience : Call(f, mode, p)
       \/ Attempt(f)
  \/ \E a \in Actors : Unlock(a)
  \/ \E i \in Isrs : IsrTryLock(i) \/ IsrTryLockShared(i)

(* Fibers cooperate: an attempt that was begun goes on, and a fiber does    *)
(* not repeat try_lock() for ever without a yield.                          *)
TurnPasses == (\E f \in Fibers : Yield(f) \/ Attempt(f)) /\ turn' # turn

Fairness == WF_vars(\E f \in Fibers : Attempt(f)) /\ SF_vars(TurnPasses)

Spec == Init /\ [][Next]_vars /\ Fairness

-----------------------------------------------------------------------------
(* A writer is alone: nobody else holds the mutex in either mode.           *)
WriterIsAlone ==
  \A a, b \in Actors :
    holds[a] = "exclusive" /\ holds[b] # "none" => a = b

(* The word that the compare-exchanges work on says who holds the mutex, so *)
(* that no unlock() frees it while somebody is inside.                      *)
OwnerHolds ==
  /\ owner = NoOwner => \A a \in Actors : holds[a] = "none"
  /\ owner = SharedOwner => \E a \in Actors : holds[a] = "shared"
  /\ owner \in Actors => holds[owner] = "exclusive"

(* lock() and lock_shared() return, if every critical section ends, if      *)
(* interrupts stop taking the mutex at some time, and if no fiber unlocks   *)
(* and locks again without a yield in between.                              *)
LockReturns ==
  /\ [](~greedy)
  /\ \A a \in Actors : []<>(holds[a] = "none")
  /\ <>[](\A i \in Isrs : holds[i] = "none")
  => \A f \in Fibers :
       (pc[f] # "running" /\ patience[f] = "endless") ~> (pc[f] = "running")
=============================================================================
