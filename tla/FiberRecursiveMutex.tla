------------------------ MODULE FiberRecursiveMutex -------------------------
(***************************************************************************)
(* modm::fiber::recursive_mutex and recursive_timed_mutex, used by fibers  *)
(* that the scheduler resumes in round-robin order (FiberScheduler) and by *)
(* interrupts, which may call try_lock() and unlock() at any moment.       *)
(*                                                                         *)
(* try_lock() and unlock() run with interrupts disabled (modm::atomic::    *)
(* Lock), so each is one step.                                             *)
(***************************************************************************)
EXTENDS Integers

CONSTANTS
  Fibers,     \* the fibers in the ring of the scheduler
  Successor,  \* the fiber that yield() resumes, for each fiber
  Isrs,       \* the interrupt handlers that use the mutex
  Irqs,       \* those of them whose IPSR is 16 or more: a number of their own
  CountMax,   \* recursive_mutex::countMax
  NoOwner     \* recursive_mutex::NoOwner

Actors == Fibers \cup Isrs

ASSUME MutexAssumption ==
  /\ Successor \in [Fibers -> Fibers]
  /\ Fibers \cap Isrs = {}
  /\ Irqs \subseteq Isrs
  /\ CountMax \in Nat \ {0}
  /\ NoOwner \notin Actors

VARIABLES
  turn,       \* Scheduler::current
  pc,         \* where each fiber is
  owner,      \* recursive_mutex::owner
  count,      \* recursive_mutex::count
  depth,      \* history: locks that each actor has taken and not released
  released,   \* history: did the executing fiber free the mutex in this turn?
  greedy      \* history: did a fiber ever free it and take it in one turn?

vars == << turn, pc, owner, count, depth, released, greedy >>

(* A fiber that is `locking' or `timed' has yielded inside lock() or inside *)
(* try_lock_for().                                                          *)
TypeOK ==
  /\ turn \in Fibers
  /\ pc \in [Fibers -> {"running", "locking", "timed"}]
  /\ owner \in Actors \cup {NoOwner}
  /\ count \in 1..CountMax
  /\ depth \in [Actors -> 0..CountMax]
  /\ released \in BOOLEAN
  /\ greedy \in BOOLEAN

Init ==
  /\ turn \in Fibers
  /\ pc = [f \in Fibers |-> "running"]
  /\ owner = NoOwner
  /\ count = 1
  /\ depth = [a \in Actors |-> 0]
  /\ released = FALSE
  /\ greedy = FALSE

-----------------------------------------------------------------------------
(* this_fiber::get_id(): an interrupt has its own number only from 16 on,   *)
(* below it is given the identity of the fiber that it interrupts.          *)
GetId(a) == IF a \in Fibers \cup Irqs THEN a ELSE turn

(* The two ways in which try_lock() succeeds, and mutants that forget to     *)
(* compare the owner and stop one level early.                              *)
IsFree == owner = NoOwner

RecurseAnyone(a) == count < CountMax

RecurseTooLittle(a) == owner = GetId(a) /\ count < CountMax - 1

CanRecurse(a) == owner = GetId(a) /\ count < CountMax

CanLock(a) == IsFree \/ CanRecurse(a)

Take(a) ==
  /\ owner' = GetId(a)
  /\ count' = IF IsFree THEN count ELSE count + 1
  /\ depth' = [depth EXCEPT ![a] = @ + 1]
  /\ greedy' = (greedy \/ (a \in Fibers /\ released))

(* yield(): the turn passes on.                                             *)
PassTurn(f) ==
  /\ turn' = Successor[f]
  /\ released' = FALSE

(* Fiber f executes its own code.                                           *)
Executing(f) == turn = f /\ pc[f] = "running"

Yield(f) ==
  /\ Executing(f)
  /\ PassTurn(f)
  /\ UNCHANGED << pc, owner, count, depth, greedy >>

(* try_lock() that succeeds, by the executing fiber or an interrupt.  When  *)
(* it fails it changes nothing.                                             *)
TryLock(a) ==
  /\ a \in Fibers => Executing(a)
  /\ CanLock(a)
  /\ Take(a)
  /\ UNCHANGED << turn, pc, released >>

(* lock() and try_lock_for() that fail at once and yield.                   *)
Wait(f, where) ==
  /\ Executing(f)
  /\ ~CanLock(f)
  /\ pc' = [pc EXCEPT ![f] = where]
  /\ PassTurn(f)
  /\ UNCHANGED << owner, count, depth, greedy >>

(* The loops of lock() and of poll_for(): the lock is tried again before    *)
(* the clock is looked at.                                                  *)
Acquire(f) ==
  /\ turn = f
  /\ pc[f] # "running"
  /\ CanLock(f)
  /\ Take(f)
  /\ pc' = [pc EXCEPT ![f] = "running"]
  /\ UNCHANGED << turn, released >>

WaitAgain(f) ==
  /\ turn = f
  /\ pc[f] # "running"
  /\ ~CanLock(f)
  /\ PassTurn(f)
  /\ UNCHANGED << pc, owner, count, depth, greedy >>

GiveUp(f) ==
  /\ turn = f
  /\ pc[f] = "timed"
  /\ ~CanLock(f)
  /\ pc' = [pc EXCEPT ![f] = "running"]
  /\ UNCHANGED << turn, owner, count, depth, released, greedy >>

(* The new values that unlock() stores, and mutants without the nesting and *)
(* with an off-by-one.                                                      *)
NewCount == IF count > 1 THEN count - 1 ELSE count

OwnerAlwaysDrops == NoOwner

OwnerNeverDrops == IF count >= 1 THEN owner ELSE NoOwner

NewOwner == IF count > 1 THEN owner ELSE NoOwner

(* unlock(), by an actor that holds the mutex: nothing checks the owner.    *)
Unlock(a) ==
  /\ a \in Fibers => Executing(a)
  /\ depth[a] > 0
  /\ count' = NewCount
  /\ owner' = NewOwner
  /\ depth' = [depth EXCEPT ![a] = @ - 1]
  /\ released' = (released \/ (a \in Fibers /\ NewOwner = NoOwner))
  /\ UNCHANGED << turn, pc, greedy >>

-----------------------------------------------------------------------------
Next ==
  \/ \E a \in Actors : TryLock(a) \/ Unlock(a)
  \/ \E f \in Fibers :
       \/ Yield(f)
       \/ Wait(f, "locking")
       \/ Wait(f, "timed")
       \/ Acquire(f)
       \/ WaitAgain(f)
       \/ GiveUp(f)

(* Fibers cooperate: the executing one reaches its next yield().            *)
Fairness == WF_vars(\E f \in Fibers : Yield(f) \/ Acquire(f) \/ WaitAgain(f))

Spec == Init /\ [][Next]_vars /\ Fairness

-----------------------------------------------------------------------------
(* At most one fiber or interrupt is inside the critical section, at any    *)
(* depth.                                                                   *)
MutualExclusion ==
  \A a, b \in Actors : depth[a] > 0 /\ depth[b] > 0 => a = b

(* The mutex counts what its owner holds: it is free exactly when nobody    *)
(* holds it, so the outermost unlock() frees it and no inner one does.      *)
OwnerHolds ==
  /\ owner = NoOwner => count = 1 /\ \A a \in Actors : depth[a] = 0
  /\ owner # NoOwner => depth[owner] = count

(* A fiber waits in lock() only for another actor, or for itself at the     *)
(* limit of the counter, where it can never return.                         *)
WaitsForOther ==
  \A f \in Fibers : pc[f] # "running" /\ depth[f] > 0 => depth[f] = CountMax

(* A fiber inside lock() gets the mutex, if every critical section ends, if *)
(* interrupts stop taking it at some time, and if no fiber frees it and     *)
(* takes it again without a yield in between, which would leave the others  *)
(* no chance: unlock() does not hand the mutex over.                        *)
LockReturns ==
  /\ [](~greedy)
  /\ \A a \in Actors : []<>(depth[a] = 0)
  /\ <>[](\A i \in Isrs : depth[i] = 0)
  => \A f \in Fibers : (pc[f] = "locking") ~> (pc[f] = "running")
=============================================================================
