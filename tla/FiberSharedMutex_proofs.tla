---------------------- MODULE FiberSharedMutex_proofs -----------------------
(***************************************************************************)
(* What shared_mutex guarantees for every number of fibers and interrupts: *)
(* writers are alone as long as a single actor uses the shared mode.       *)
(***************************************************************************)
EXTENDS FiberSharedMutex, TLAPS

(* With one reader, the word is a faithful record of who holds the mutex.   *)
(* The value that try_lock_shared() has read may be out of date: that its   *)
(* exchange still succeeds only on a word that allows it is the reason why  *)
(* nothing has to be known about `seen'.                                    *)
OneReader == \A R \in ReaderSets : \A a, b \in R : a = b

OnlyReadersShare == \A a \in Actors : holds[a] = "shared" => a \in readers

WantsAllowed == \A f \in Fibers : pc[f] # "running" /\ wants[f] = "shared" => f \in readers

IInv == TypeOK /\ WriterIsAlone /\ OwnerHolds /\ OnlyReadersShare /\ WantsAllowed

LEMMA InitIInv == Init => IInv
<1> SUFFICES ASSUME Init
             PROVE  IInv
  OBVIOUS
<1>1. TypeOK
  BY DEF Init, TypeOK, Owners, Modes, Patience
<1>2. WriterIsAlone /\ OwnerHolds /\ OnlyReadersShare /\ WantsAllowed
  BY SharedMutexAssumption
     DEF Init, WriterIsAlone, OwnerHolds, OnlyReadersShare, WantsAllowed
<1> QED  BY <1>1, <1>2 DEF IInv

(* The step of the mutex when an actor that holds nothing takes it.         *)
LEMMA TakeKeeps ==
  ASSUME OneReader, IInv, NEW a \in Actors, holds[a] = "none", NEW mode \in Modes,
         readers' = readers,
         \/ mode = "exclusive" /\ owner = NoOwner /\ owner' = a
         \/ mode = "shared" /\ a \in readers /\ owner \notin Actors /\ owner' = SharedOwner,
         holds' = [holds EXCEPT ![a] = mode]
  PROVE  /\ owner' \in Owners
         /\ holds' \in [Actors -> Modes \cup {"none"}]
         /\ WriterIsAlone' /\ OwnerHolds' /\ OnlyReadersShare'
<1>1. /\ holds \in [Actors -> Modes \cup {"none"}] /\ owner \in Owners
      /\ NoOwner \notin Actors /\ SharedOwner \notin Actors /\ NoOwner # SharedOwner
  BY SharedMutexAssumption DEF IInv, TypeOK
<1>2. holds'[a] = mode /\ \A b \in Actors : b # a => holds'[b] = holds[b]
  BY <1>1
<1>3. \A b \in Actors : holds[b] = "none"
  <2>1. CASE owner = NoOwner
    BY <2>1 DEF IInv, OwnerHolds
  <2>2. CASE owner = SharedOwner
    <3>1. PICK c \in Actors : holds[c] = "shared"
      BY <2>2 DEF IInv, OwnerHolds
    <3>2. c = a
      BY <1>1, <2>2, <3>1 DEF IInv, TypeOK, OnlyReadersShare, OneReader
    <3> QED  BY <3>1, <3>2
  <2> QED  BY <1>1, <2>1, <2>2 DEF Owners
<1>4. WriterIsAlone'
  BY <1>2, <1>3 DEF WriterIsAlone, Modes
<1>5. OwnerHolds'
  BY <1>1, <1>2, <1>3 DEF OwnerHolds
<1>6. OnlyReadersShare'
  BY <1>2, <1>3 DEF OnlyReadersShare
<1> QED
  BY <1>1, <1>4, <1>5, <1>6 DEF Owners, Modes

(* The step of the mutex when its holder unlocks.                           *)
LEMMA UnlockKeeps ==
  ASSUME OneReader, IInv, NEW a \in Actors, holds[a] # "none", owner' = NoOwner,
         readers' = readers,
         holds' = [holds EXCEPT ![a] = "none"]
  PROVE  /\ owner' \in Owners
         /\ holds' \in [Actors -> Modes \cup {"none"}]
         /\ WriterIsAlone' /\ OwnerHolds' /\ OnlyReadersShare'
<1>1. holds \in [Actors -> Modes \cup {"none"}] /\ NoOwner \notin Actors /\ NoOwner # SharedOwner
  BY SharedMutexAssumption DEF IInv, TypeOK
<1>2. holds'[a] = "none" /\ \A b \in Actors : b # a => holds'[b] = holds[b]
  BY <1>1
<1>3. \A b \in Actors : b # a => holds[b] = "none"
  <2>1. CASE holds[a] = "exclusive"
    BY <2>1 DEF IInv, WriterIsAlone
  <2>2. CASE holds[a] = "shared"
    <3>1. \A b \in Actors : holds[b] = "shared" => b = a
      BY <2>2 DEF IInv, TypeOK, OnlyReadersShare, OneReader
    <3>2. \A b \in Actors : holds[b] = "exclusive" => b = a
      BY <2>2 DEF IInv, WriterIsAlone
    <3> QED  BY <1>1, <3>1, <3>2 DEF Modes
  <2> QED  BY <1>1, <2>1, <2>2 DEF Modes
<1>4. \A b \in Actors : holds'[b] = "none"
  BY <1>2, <1>3
<1> QED
  BY <1>1, <1>4 DEF WriterIsAlone, OwnerHolds, OnlyReadersShare, Owners

(* Steps that leave the mutex alone.                                        *)
LEMMA Untouched ==
  ASSUME IInv, UNCHANGED << owner, readers, holds >>
  PROVE  WriterIsAlone' /\ OwnerHolds' /\ OnlyReadersShare'
BY DEF IInv, WriterIsAlone, OwnerHolds, OnlyReadersShare

(* The types of the variables of the calls, and what they say of holders.   *)
CallOK ==
  /\ turn \in Fibers
  /\ pc \in [Fibers -> {"running", "trying", "loaded"}]
  /\ wants \in [Fibers -> Modes]
  /\ patience \in [Fibers -> Patience]
  /\ seen \in [Fibers -> Owners]
  /\ readers \in ReaderSets
  /\ released \in BOOLEAN
  /\ greedy \in BOOLEAN
  /\ \A f \in Fibers :
       /\ pc[f] # "running" => holds[f] = "none"
       /\ pc[f] = "loaded" => turn = f /\ wants[f] = "shared"
  /\ WantsAllowed

LEMMA IInvParts ==
  IInv <=> /\ CallOK
           /\ owner \in Owners
           /\ holds \in [Actors -> Modes \cup {"none"}]
           /\ WriterIsAlone /\ OwnerHolds /\ OnlyReadersShare
BY DEF IInv, CallOK, TypeOK

LEMMA IInvPrimed ==
  ASSUME CallOK', owner' \in Owners, holds' \in [Actors -> Modes \cup {"none"}],
         WriterIsAlone', OwnerHolds', OnlyReadersShare'
  PROVE  IInv'
BY DEF IInv, CallOK, TypeOK

(* The outcomes of an attempt.                                              *)
LEMMA FailKeeps ==
  ASSUME IInv, NEW f \in Fibers, turn = f, pc[f] # "running", Fail(f)
  PROVE  CallOK'
<1>1. CallOK /\ Successor \in [Fibers -> Fibers]
  BY IInvParts, SharedMutexAssumption
<1>2. UNCHANGED << readers, wants, seen, holds, greedy >>
  BY DEF Fail
<1>3. /\ turn' \in Fibers
      /\ patience' \in [Fibers -> Patience]
      /\ released' \in BOOLEAN
  <2>1. /\ turn \in Fibers /\ Successor[f] \in Fibers
        /\ patience \in [Fibers -> Patience]
        /\ released \in BOOLEAN
    BY <1>1 DEF CallOK
  <2>2. /\ turn' = turn \/ turn' = Successor[f]
        /\ released' = released \/ released' = FALSE
        /\ patience' = patience \/ patience' = [patience EXCEPT ![f] = "once"]
    BY DEF Fail, PassTurn
  <2>3. patience' \in [Fibers -> Patience]
    BY <2>1, <2>2 DEF Patience
  <2> QED  BY <2>1, <2>2, <2>3
<1>4. \/ pc' = [pc EXCEPT ![f] = "running"]
      \/ pc' = [pc EXCEPT ![f] = "trying"]
  BY DEF Fail, RetryAt
<1>5. pc' \in [Fibers -> {"running", "trying", "loaded"}]
  BY <1>1, <1>4 DEF CallOK
<1>6. \A g \in Fibers : g # f => pc'[g] = pc[g] /\ pc[g] # "loaded"
  BY <1>1, <1>4 DEF CallOK
<1>7. pc'[f] \in {"running", "trying"}
  BY <1>1, <1>4 DEF CallOK
<1>8. WantsAllowed'
  BY <1>1, <1>2, <1>6 DEF CallOK, WantsAllowed
<1> QED
  BY <1>1, <1>2, <1>3, <1>5, <1>6, <1>7, <1>8 DEF CallOK

LEMMA SucceedKeeps ==
  ASSUME OneReader, IInv, NEW f \in Fibers, turn = f, pc[f] # "running", NEW new, Succeed(f, new),
         \/ wants[f] = "exclusive" /\ owner = NoOwner /\ new = f
         \/ wants[f] = "shared" /\ owner \notin Actors /\ new = SharedOwner
  PROVE  IInv'
<1>1. CallOK /\ f \in Actors /\ holds[f] = "none" /\ wants[f] \in Modes
  BY IInvParts DEF CallOK, Actors
<1>2. wants[f] = "shared" => f \in readers
  BY <1>1 DEF CallOK, WantsAllowed
<1>3. /\ owner' = new
      /\ holds' = [holds EXCEPT ![f] = wants[f]]
      /\ pc' = [pc EXCEPT ![f] = "running"]
      /\ greedy' = (greedy \/ released)
      /\ UNCHANGED << readers, turn, wants, patience, seen, released >>
  BY DEF Succeed
<1>4. /\ owner' \in Owners
      /\ holds' \in [Actors -> Modes \cup {"none"}]
      /\ WriterIsAlone' /\ OwnerHolds' /\ OnlyReadersShare'
  BY <1>1, <1>2, <1>3, TakeKeeps
<1>5. CallOK'
  <2>1. holds \in [Actors -> Modes \cup {"none"}] /\ Fibers \subseteq Actors
    BY IInvParts DEF Actors
  <2>2. \A g \in Fibers : g # f => pc'[g] = pc[g] /\ holds'[g] = holds[g]
    BY <1>1, <1>3, <2>1 DEF CallOK
  <2>3. pc'[f] = "running"
    BY <1>1, <1>3 DEF CallOK
  <2>4. WantsAllowed'
    BY <1>1, <1>3, <2>2, <2>3 DEF CallOK, WantsAllowed
  <2> QED
    BY <1>1, <1>3, <2>2, <2>3, <2>4 DEF CallOK
<1> QED  BY <1>4, <1>5, IInvPrimed

LEMMA NextIInv ==
  ASSUME OneReader, IInv, [Next]_vars
  PROVE  IInv'
<1>0. /\ CallOK
      /\ owner \in Owners
      /\ holds \in [Actors -> Modes \cup {"none"}]
      /\ Successor \in [Fibers -> Fibers]
      /\ Fibers \subseteq Actors /\ Isrs \subseteq Actors
      /\ NoOwner \notin Actors /\ SharedOwner \notin Actors
  BY IInvParts, SharedMutexAssumption DEF Actors
<1>1. ASSUME NEW f \in Fibers, Yield(f)
      PROVE  IInv'
  <2>1. CallOK'
    BY <1>0, <1>1 DEF CallOK, WantsAllowed, Yield, Executing, PassTurn
  <2> QED
    BY <1>0, <1>1, <2>1, Untouched, IInvPrimed DEF Yield
<1>2. ASSUME NEW f \in Fibers, NEW mode \in Modes, NEW p \in Patience, Call(f, mode, p)
      PROVE  IInv'
  <2>1. CallOK'
    BY <1>0, <1>2 DEF CallOK, WantsAllowed, Call, Executing
  <2> QED
    BY <1>0, <1>2, <2>1, Untouched, IInvPrimed DEF Call
<1>3. ASSUME NEW f \in Fibers, TryExclusive(f)
      PROVE  IInv'
  <2>1. CASE Free
    BY <1>3, <2>1, SucceedKeeps DEF TryExclusive, Free
  <2>2. CASE ~Free
    BY <1>0, <1>3, <2>2, FailKeeps, Untouched, IInvPrimed DEF TryExclusive, Fail
  <2> QED  BY <2>1, <2>2
<1>4. ASSUME NEW f \in Fibers, LoadOwner(f)
      PROVE  IInv'
  <2>1. CallOK'
    BY <1>0, <1>4 DEF CallOK, WantsAllowed, LoadOwner
  <2> QED
    BY <1>0, <1>4, <2>1, Untouched, IInvPrimed DEF LoadOwner
<1>5. ASSUME NEW f \in Fibers, Exchange(f)
      PROVE  IInv'
  <2>1. turn = f /\ pc[f] = "loaded" /\ wants[f] = "shared"
    BY <1>0, <1>5 DEF Exchange, CallOK
  <2>2. CASE ExclusiveSeen(f)
    BY <1>0, <1>5, <2>1, <2>2, FailKeeps, Untouched, IInvPrimed DEF Exchange, Fail
  <2>3. CASE ~ExclusiveSeen(f) /\ ExchangeSucceeds(f)
    <3>1. Succeed(f, SharedOwner) /\ owner \notin Actors
      BY <1>5, <2>3 DEF Exchange, ExclusiveSeen, ExchangeSucceeds
    <3> QED  BY <2>1, <3>1, SucceedKeeps
  <2>4. CASE ~ExclusiveSeen(f) /\ ~ExchangeSucceeds(f)
    <3>1. /\ seen' = [seen EXCEPT ![f] = owner]
          /\ UNCHANGED << readers, turn, pc, wants, patience, owner, holds, released, greedy >>
      BY <1>5, <2>4 DEF Exchange
    <3>2. CallOK'
      BY <1>0, <3>1 DEF CallOK, WantsAllowed
    <3> QED  BY <1>0, <3>1, <3>2, Untouched, IInvPrimed
  <2> QED  BY <2>2, <2>3, <2>4
<1>6. ASSUME NEW a \in Actors, Unlock(a)
      PROVE  IInv'
  <2>1. /\ owner' \in Owners
        /\ holds' \in [Actors -> Modes \cup {"none"}]
        /\ WriterIsAlone' /\ OwnerHolds' /\ OnlyReadersShare'
    BY <1>6, UnlockKeeps DEF Unlock, OwnerAfterUnlock, callVars
  <2>2. \A g \in Fibers : holds[g] = "none" => holds'[g] = "none"
    BY <1>0, <1>6 DEF Unlock
  <2>3. CallOK'
    BY <1>0, <1>6, <2>2 DEF CallOK, WantsAllowed, Unlock, callVars
  <2> QED  BY <2>1, <2>3, IInvPrimed
<1>7. ASSUME NEW i \in Isrs, IsrTryLock(i) \/ IsrTryLockShared(i)
      PROVE  IInv'
  <2>1. /\ owner' \in Owners
        /\ holds' \in [Actors -> Modes \cup {"none"}]
        /\ WriterIsAlone' /\ OwnerHolds' /\ OnlyReadersShare'
    <3>1. CASE IsrTryLock(i)
      BY <1>0, <3>1, TakeKeeps DEF IsrTryLock, Free, Modes, callVars
    <3>2. CASE IsrTryLockShared(i)
      BY <1>0, <3>2, TakeKeeps DEF IsrTryLockShared, Modes, callVars
    <3> QED  BY <1>7, <3>1, <3>2
  <2>2. \A g \in Fibers : holds'[g] = holds[g]
    BY <1>0, <1>7, SharedMutexAssumption DEF IsrTryLock, IsrTryLockShared
  <2>3. CallOK'
    BY <1>0, <1>7, <2>2 DEF CallOK, WantsAllowed, IsrTryLock, IsrTryLockShared, callVars
  <2> QED  BY <2>1, <2>3, IInvPrimed
<1>8. CASE UNCHANGED vars
  <2>1. CallOK'
    BY <1>0, <1>8 DEF CallOK, WantsAllowed, vars, callVars
  <2> QED
    BY <1>0, <1>8, <2>1, Untouched, IInvPrimed DEF vars, callVars
<1> QED
  BY <1>1, <1>2, <1>3, <1>4, <1>5, <1>6, <1>7, <1>8 DEF Next, Attempt

(* If a single actor uses the shared mode, a writer is alone, whatever      *)
(* interrupts do between the load and the exchange of try_lock_shared(),    *)
(* and no unlock() frees a mutex that somebody else holds.                  *)
THEOREM SharedMutexCorrect ==
  ASSUME OneReader
  PROVE  Spec => [](TypeOK /\ WriterIsAlone /\ OwnerHolds)
<1>1. IInv => TypeOK /\ WriterIsAlone /\ OwnerHolds
  BY DEF IInv
<1> QED
  BY <1>1, InitIInv, NextIInv, PTL DEF Spec
=============================================================================
