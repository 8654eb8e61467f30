--------------------- MODULE FiberRecursiveMutex_proofs ---------------------
(***************************************************************************)
(* Mutual exclusion of the recursive mutex, for every number of fibers and *)
(* interrupts and every width of its counter, provided that each interrupt *)
(* has a number of its own.                                                *)
(***************************************************************************)
EXTENDS FiberRecursiveMutex, TLAPS

(* What the owner holds is what the mutex counts, and nobody else holds     *)
(* anything.  Each part needs the others: without the types count + 1 could *)
(* leave the counter, without OwnerHolds a nested unlock() could free a     *)
(* mutex that is held, and without MutualExclusion the next unlock() could  *)
(* be somebody else's.                                                      *)
IInv == TypeOK /\ OwnerHolds /\ MutualExclusion

LEMMA InitIInv == Init => IInv
<1> SUFFICES ASSUME Init
             PROVE  IInv
  OBVIOUS
<1>1. 1 \in 1..CountMax /\ 0 \in 0..CountMax
  BY MutexAssumption
<1>2. TypeOK
  BY <1>1 DEF Init, TypeOK
<1>3. OwnerHolds /\ MutualExclusion
  BY DEF Init, OwnerHolds, MutualExclusion
<1> QED  BY <1>2, <1>3 DEF IInv

(* try_lock() succeeds, for a that is not given another's identity.         *)
LEMMA TakeKeeps ==
  ASSUME IInv, NEW a \in Actors, GetId(a) = a, CanLock(a), Take(a)
  PROVE  /\ owner' \in Actors \cup {NoOwner}
         /\ count' \in 1..CountMax
         /\ depth' \in [Actors -> 0..CountMax]
         /\ greedy' \in BOOLEAN
         /\ OwnerHolds'
         /\ MutualExclusion'
<1>1. /\ owner' = a
      /\ depth' = [depth EXCEPT ![a] = depth[a] + 1]
      /\ count' = IF IsFree THEN count ELSE count + 1
      /\ NoOwner \notin Actors /\ CountMax \in Nat \ {0}
      /\ depth \in [Actors -> 0..CountMax] /\ count \in 1..CountMax
  BY MutexAssumption DEF Take, IInv, TypeOK
<1>2. count' = depth[a] + 1 /\ depth[a] < CountMax
  <2>1. CASE IsFree
    BY <1>1, <2>1 DEF IInv, OwnerHolds, IsFree
  <2>2. CASE ~IsFree
    BY <1>1, <2>2 DEF CanLock, CanRecurse, IsFree, IInv, OwnerHolds
  <2> QED  BY <2>1, <2>2
<1>3. \A b \in Actors : b # a => depth[b] = 0
  <2>1. CASE IsFree
    BY <2>1 DEF IInv, OwnerHolds, IsFree
  <2>2. CASE ~IsFree
    <3>1. owner = a /\ depth[a] > 0
      BY <1>1, <2>2 DEF CanLock, CanRecurse, IsFree, IInv, OwnerHolds
    <3> QED  BY <1>1, <3>1 DEF IInv, MutualExclusion
  <2> QED  BY <2>1, <2>2
<1>4. depth'[a] = depth[a] + 1 /\ \A b \in Actors : b # a => depth'[b] = 0
  BY <1>1, <1>3
<1>5. depth[a] + 1 \in 1..CountMax
  BY <1>1, <1>2
<1>6. depth' \in [Actors -> 0..CountMax]
  BY <1>1, <1>5
<1>7. OwnerHolds'
  BY <1>1, <1>2, <1>4 DEF OwnerHolds
<1>8. MutualExclusion'
  BY <1>4 DEF MutualExclusion
<1>9. greedy' \in BOOLEAN
  BY DEF Take
<1> QED  BY <1>1, <1>2, <1>5, <1>6, <1>7, <1>8, <1>9

LEMMA UnlockKeeps ==
  ASSUME IInv, NEW a \in Actors, Unlock(a)
  PROVE  IInv'
<1>1. /\ depth[a] > 0
      /\ depth' = [depth EXCEPT ![a] = depth[a] - 1]
      /\ owner' = NewOwner /\ count' = NewCount
      /\ NoOwner \notin Actors /\ CountMax \in Nat \ {0}
      /\ depth \in [Actors -> 0..CountMax] /\ count \in 1..CountMax
  BY MutexAssumption DEF Unlock, IInv, TypeOK
<1>2. owner = a /\ depth[a] = count
  <2>1. owner # NoOwner
    BY <1>1 DEF IInv, OwnerHolds
  <2>2. owner \in Actors /\ depth[owner] = count
    BY <2>1 DEF IInv, OwnerHolds, TypeOK
  <2> QED  BY <1>1, <2>2 DEF IInv, MutualExclusion
<1>3. \A b \in Actors : b # a => depth[b] = 0
  BY <1>1 DEF IInv, MutualExclusion
<1>4. depth'[a] = count - 1 /\ \A b \in Actors : b # a => depth'[b] = 0
  BY <1>1, <1>2, <1>3
<1>5. OwnerHolds' /\ count' \in 1..CountMax /\ owner' \in Actors \cup {NoOwner}
  <2>1. CASE count > 1
    BY <1>1, <1>2, <1>4, <2>1 DEF OwnerHolds, NewOwner, NewCount
  <2>2. CASE ~(count > 1)
    BY <1>1, <1>2, <1>4, <2>2 DEF OwnerHolds, NewOwner, NewCount
  <2> QED  BY <2>1, <2>2
<1>6. MutualExclusion'
  BY <1>4 DEF MutualExclusion
<1>7. depth' \in [Actors -> 0..CountMax]
  BY <1>1
<1>8. released' \in BOOLEAN
  BY DEF Unlock
<1> QED
  BY <1>5, <1>6, <1>7, <1>8 DEF IInv, TypeOK, Unlock

(* Steps that leave the mutex alone.                                        *)
LEMMA Untouched ==
  ASSUME IInv, UNCHANGED << owner, count, depth >>,
         turn' \in Fibers,
         pc' \in [Fibers -> {"running", "locking", "timed"}],
         released' \in BOOLEAN, greedy' \in BOOLEAN
  PROVE  IInv'
BY DEF IInv, TypeOK, OwnerHolds, MutualExclusion

LEMMA NextIInv ==
  ASSUME Irqs = Isrs, IInv, [Next]_vars
  PROVE  IInv'
<1>0. \A a \in Actors : GetId(a) = a
  BY DEF GetId, Actors
<1>1. /\ turn \in Fibers
      /\ pc \in [Fibers -> {"running", "locking", "timed"}]
      /\ released \in BOOLEAN
      /\ greedy \in BOOLEAN
      /\ Successor \in [Fibers -> Fibers]
      /\ Fibers \subseteq Actors
  BY MutexAssumption DEF IInv, TypeOK, Actors
<1>2. ASSUME NEW a \in Actors, TryLock(a)
      PROVE  IInv'
  BY <1>0, <1>1, <1>2, TakeKeeps DEF TryLock, IInv, TypeOK
<1>3. ASSUME NEW f \in Fibers, Acquire(f)
      PROVE  IInv'
  BY <1>0, <1>1, <1>3, TakeKeeps DEF Acquire, IInv, TypeOK
<1>4. ASSUME NEW f \in Fibers,
             Yield(f) \/ Wait(f, "locking") \/ Wait(f, "timed") \/ WaitAgain(f) \/ GiveUp(f)
      PROVE  IInv'
  BY <1>1, <1>4, Untouched DEF Yield, Wait, WaitAgain, GiveUp, PassTurn
<1>5. CASE UNCHANGED vars
  BY <1>1, <1>5, Untouched DEF vars
<1> QED
  BY <1>2, <1>3, <1>4, <1>5, UnlockKeeps DEF Next

(* If every interrupt has its own number (16 or more), no two actors are    *)
(* ever inside the critical section, the counter stays in its width, and    *)
(* the mutex is free exactly when nobody holds it.                          *)
THEOREM MutexCorrect ==
  ASSUME Irqs = Isrs
  PROVE  Spec => [](TypeOK /\ OwnerHolds /\ MutualExclusion)
BY InitIInv, NextIInv, PTL DEF Spec, IInv

(* A fiber blocks on itself only at the limit of the counter.               *)
LEMMA NextWaits ==
  ASSUME Irqs = Isrs, IInv, WaitsForOther, [Next]_vars
  PROVE  WaitsForOther'
<1>0. /\ \A a \in Actors : GetId(a) = a
      /\ Fibers \subseteq Actors
      /\ depth \in [Actors -> 0..CountMax] /\ CountMax \in Nat \ {0}
      /\ pc \in [Fibers -> {"running", "locking", "timed"}]
      /\ Fibers \cap Isrs = {}
  BY MutexAssumption DEF GetId, Actors, IInv, TypeOK
<1>1. ASSUME NEW f \in Fibers, depth[f] > 0, ~CanLock(f)
      PROVE  depth[f] = CountMax
  <2>1. owner # NoOwner /\ depth[owner] = count /\ owner \in Actors
    BY <1>0, <1>1 DEF IInv, OwnerHolds, TypeOK
  <2>2. owner = f
    <3>1. depth[owner] > 0
      BY <2>1 DEF IInv, TypeOK
    <3> QED  BY <1>0, <1>1, <2>1, <3>1 DEF IInv, MutualExclusion
  <2>3. ~(count < CountMax)
    BY <1>0, <1>1, <2>2 DEF CanLock, CanRecurse
  <2> QED  BY <1>0, <2>1, <2>2, <2>3
<1>2. ASSUME NEW a \in Actors, TryLock(a) \/ Unlock(a)
      PROVE  WaitsForOther'
  <2>1. pc' = pc /\ \A b \in Actors : b # a => depth'[b] = depth[b]
    BY <1>0, <1>2 DEF TryLock, Take, Unlock
  <2>2. a \in Fibers => pc[a] = "running"
    BY <1>2 DEF TryLock, Unlock, Executing
  <2> QED  BY <1>0, <2>1, <2>2 DEF WaitsForOther
<1>3. ASSUME NEW f \in Fibers, Acquire(f)
      PROVE  WaitsForOther'
  <2>1. /\ pc' = [pc EXCEPT ![f] = "running"]
        /\ \A b \in Actors : b # f => depth'[b] = depth[b]
    BY <1>0, <1>3 DEF Acquire, Take
  <2> QED  BY <1>0, <2>1 DEF WaitsForOther
<1>4. ASSUME NEW f \in Fibers, Wait(f, "locking") \/ Wait(f, "timed")
      PROVE  WaitsForOther'
  <2>1. /\ ~CanLock(f) /\ depth' = depth
        /\ \A g \in Fibers : g # f => pc'[g] = pc[g]
    BY <1>0, <1>4 DEF Wait
  <2>2. depth[f] > 0 => depth[f] = CountMax
    BY <1>1, <2>1
  <2> QED  BY <2>1, <2>2 DEF WaitsForOther
<1>5. ASSUME NEW f \in Fibers, Yield(f) \/ WaitAgain(f) \/ GiveUp(f)
      PROVE  WaitsForOther'
  <2>1. depth' = depth /\ \A g \in Fibers : pc'[g] = pc[g] \/ pc'[g] = "running"
    BY <1>0, <1>5 DEF Yield, WaitAgain, GiveUp
  <2> QED  BY <2>1 DEF WaitsForOther
<1>6. CASE UNCHANGED vars
  BY <1>6 DEF vars, WaitsForOther
<1> QED
  BY <1>2, <1>3, <1>4, <1>5, <1>6 DEF Next

(* lock() blocks a fiber that already holds the mutex only when the counter *)
(* is at its limit.                                                         *)
THEOREM WaitsCorrect ==
  ASSUME Irqs = Isrs
  PROVE  Spec => []WaitsForOther
<1>1. Init => WaitsForOther
  BY DEF Init, WaitsForOther
<1> QED
  BY <1>1, InitIInv, NextIInv, NextWaits, PTL DEF Spec
=============================================================================
