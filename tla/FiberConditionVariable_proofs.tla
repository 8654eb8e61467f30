------------------- MODULE FiberConditionVariable_proofs --------------------
(***************************************************************************)
(* For every number of fibers and interrupts: wait() evaluates its         *)
(* predicate and returns only with the mutex, which it shares with nobody, *)
(* it loads the sequence before it yields for the first time, and what is  *)
(* notified after that load, by fibers or interrupts, is never lost.       *)
(***************************************************************************)
EXTENDS FiberConditionVariable, FiniteSetTheorems, TLAPS

IInv == TypeOK /\ LockInv

LEMMA InitIInv == Init => IInv
<1> SUFFICES ASSUME Init
             PROVE  IInv
  OBVIOUS
<1>1. 0 \in 0..(Sequences - 1) /\ 0 \in 0..Burst
  BY ConditionAssumption
<1>2. TypeOK
  BY <1>1 DEF Init, TypeOK, Places, Kinds
<1>3. LockInv
  BY DEF Init, LockInv, HoldsLock
<1> QED  BY <1>2, <1>3 DEF IInv

(* The mutex and who holds it, when fiber f moves from one place to another.*)
LEMMA HoldersKept ==
  ASSUME IInv, NEW f \in Fibers, NEW place \in Places, Goto(f, place),
         locked' = locked, HoldsLock(f) <=> place \in {"critical", "checking"}
  PROVE  LockInv'
<1>1. pc \in [Fibers -> Places] /\ pc' = [pc EXCEPT ![f] = place]
  BY DEF IInv, TypeOK, Goto
<1>2. \A g \in Fibers : HoldsLock(g)' <=> HoldsLock(g)
  BY <1>1 DEF HoldsLock
<1> QED  BY <1>2 DEF IInv, LockInv

LEMMA HolderTakes ==
  ASSUME IInv, NEW f \in Fibers, NEW place \in {"critical", "checking"}, Goto(f, place),
         ~locked, locked' = TRUE
  PROVE  LockInv'
<1>1. pc \in [Fibers -> Places] /\ pc' = [pc EXCEPT ![f] = place]
  BY DEF IInv, TypeOK, Goto
<1>2. HoldsLock(f)' /\ \A g \in Fibers : g # f => ~HoldsLock(g)'
  BY <1>1 DEF HoldsLock, IInv, LockInv
<1> QED  BY <1>2 DEF LockInv

LEMMA HolderLeaves ==
  ASSUME IInv, NEW f \in Fibers, NEW place \in Places \ {"critical", "checking"},
         Goto(f, place), HoldsLock(f), locked' = FALSE
  PROVE  LockInv'
<1>1. pc \in [Fibers -> Places] /\ pc' = [pc EXCEPT ![f] = place]
  BY DEF IInv, TypeOK, Goto
<1>2. \A g \in Fibers : ~HoldsLock(g)'
  BY <1>1 DEF HoldsLock, IInv, LockInv
<1> QED  BY <1>2 DEF LockInv

LEMMA NobodyMoves ==
  ASSUME IInv, UNCHANGED << pc, locked >>
  PROVE  LockInv'
BY DEF IInv, LockInv, HoldsLock

(* The types of what a step of fiber f, which has the turn, leaves behind.  *)
LEMMA TurnTypes ==
  ASSUME IInv, NEW f \in Fibers, turn = f, PassTurn(f), pc[f] # "released"
  PROVE  /\ turn' \in Fibers /\ burst' \in 0..Burst /\ released' \in BOOLEAN
         /\ \A g \in Fibers : pc[g] # "released"
<1>1. 0 \in 0..Burst /\ Successor[f] \in Fibers
  BY ConditionAssumption
<1>2. \A g \in Fibers : pc[g] # "released"
  BY DEF IInv, TypeOK
<1> QED  BY <1>1, <1>2 DEF PassTurn

LEMMA GotoTypes ==
  ASSUME IInv, NEW f \in Fibers, NEW place \in Places, Goto(f, place)
  PROVE  /\ pc' \in [Fibers -> Places]
         /\ pc'[f] = place
         /\ \A g \in Fibers : g # f => pc'[g] = pc[g]
BY DEF Goto, IInv, TypeOK

LEMMA YieldStep ==
  ASSUME IInv, NEW f \in Fibers, Yield(f)
  PROVE  IInv'
<1>1. turn' \in Fibers /\ burst' \in 0..Burst /\ released' \in BOOLEAN
      /\ \A g \in Fibers : pc[g] # "released"
  BY TurnTypes DEF Yield, At
<1>2. LockInv'
  BY NobodyMoves DEF Yield
<1> QED
  BY <1>1, <1>2 DEF IInv, TypeOK, Yield, waitVars, dataVars

LEMMA LockStep ==
  ASSUME IInv, NEW f \in Fibers, Lock(f)
  PROVE  IInv'
<1>1. turn = f /\ pc[f] \in {"running", "locking", "relocking"} /\ ~HoldsLock(f)
  BY DEF Lock, At, HoldsLock
<1>2. CASE LockFree
  <2> DEFINE place == IF pc[f] = "relocking" THEN "checking" ELSE "critical"
  <2>1. Goto(f, place) /\ ~locked /\ locked' = TRUE /\ UNCHANGED << turn, burst, released >>
    BY <1>2 DEF Lock, LockFree, TakeLock
  <2>2. place \in {"critical", "checking"} /\ place \in Places
    BY DEF Places
  <2>3. LockInv'
    BY <2>1, <2>2, HolderTakes
  <2>4. /\ pc' \in [Fibers -> Places]
        /\ pc'[f] = place
        /\ \A g \in Fibers : g # f => pc'[g] = pc[g]
    BY <2>1, <2>2, GotoTypes
  <2>5. greedy' \in BOOLEAN
    BY <1>2 DEF Lock, TakeLock
  <2>6. \A g \in Fibers : pc'[g] = "released" => turn' = g
    BY <2>1, <2>2, <2>4 DEF IInv, TypeOK
  <2> QED
    BY <2>1, <2>3, <2>4, <2>5, <2>6 DEF IInv, TypeOK, Lock, waitVars, dataVars
<1>3. CASE ~LockFree
  <2> DEFINE place == IF pc[f] = "running" THEN "locking" ELSE pc[f]
  <2>1. Goto(f, place) /\ PassTurn(f) /\ UNCHANGED << locked, greedy >>
    BY <1>3 DEF Lock
  <2>2. place \in {"locking", "relocking"} /\ place \in Places
    BY <1>1 DEF Places
  <2>3. LockInv'
    BY <1>1, <2>1, <2>2, HoldersKept
  <2>4. /\ pc' \in [Fibers -> Places]
        /\ pc'[f] = place
        /\ \A g \in Fibers : g # f => pc'[g] = pc[g]
    BY <2>1, <2>2, GotoTypes
  <2>5. /\ turn' \in Fibers /\ burst' \in 0..Burst /\ released' \in BOOLEAN
        /\ \A g \in Fibers : pc[g] # "released"
    BY <1>1, <2>1, TurnTypes
  <2>6. \A g \in Fibers : pc'[g] # "released"
    BY <2>2, <2>4, <2>5
  <2> QED
    BY <2>1, <2>3, <2>4, <2>5, <2>6 DEF IInv, TypeOK, Lock, waitVars, dataVars
<1> QED  BY <1>2, <1>3

LEMMA UnlockStep ==
  ASSUME IInv, NEW f \in Fibers, Unlock(f)
  PROVE  IInv'
<1>1. /\ Goto(f, "running") /\ locked' = FALSE /\ HoldsLock(f)
      /\ "running" \in Places \ {"critical", "checking"} /\ "running" \in Places
  BY DEF Unlock, At, HoldsLock, Places
<1>2. LockInv'
  BY <1>1, HolderLeaves
<1>3. /\ pc' \in [Fibers -> Places]
      /\ pc'[f] = "running"
      /\ \A g \in Fibers : g # f => pc'[g] = pc[g]
  BY <1>1, GotoTypes
<1> QED
  BY <1>2, <1>3 DEF IInv, TypeOK, Unlock, waitVars, dataVars

LEMMA WaitStep ==
  ASSUME IInv, NEW f \in Fibers, NEW k \in {"plain", "timed", "stoppable"}, Wait(f, k)
  PROVE  IInv'
<1>1. Goto(f, "checking") /\ locked' = locked /\ HoldsLock(f) /\ "checking" \in Places
  BY DEF Wait, At, HoldsLock, Places, lockVars
<1>2. LockInv'
  BY <1>1, HoldersKept
<1>3. /\ pc' \in [Fibers -> Places]
      /\ pc'[f] = "checking"
      /\ \A g \in Fibers : g # f => pc'[g] = pc[g]
  BY <1>1, GotoTypes
<1>4. kind' \in [Waiters -> Kinds]
  BY DEF Wait, IInv, TypeOK, Kinds
<1> QED
  BY <1>2, <1>3, <1>4 DEF IInv, TypeOK, Wait, lockVars, dataVars

LEMMA CheckStep ==
  ASSUME IInv, NEW f \in Fibers, Check(f)
  PROVE  IInv'
<1>1. turn = f /\ HoldsLock(f)
  BY DEF Check, At, HoldsLock
<1>2. CASE WaitEnds(f)
  <2>1. /\ Goto(f, "critical") /\ UNCHANGED << turn, locked, released, burst >>
        /\ "critical" \in Places
    BY <1>2 DEF Check, Places
  <2>2. LockInv'
    BY <1>1, <2>1, HoldersKept
  <2>3. /\ pc' \in [Fibers -> Places]
        /\ pc'[f] = "critical"
        /\ \A g \in Fibers : g # f => pc'[g] = pc[g]
    BY <2>1, GotoTypes
  <2>4. kind' \in [Waiters -> Kinds]
    BY <1>2 DEF Check, IInv, TypeOK, Kinds
  <2> QED
    BY <2>1, <2>2, <2>3, <2>4 DEF IInv, TypeOK, Check, dataVars
<1>3. CASE ~WaitEnds(f)
  <2>1. /\ Goto(f, "released") /\ locked' = FALSE /\ released' = TRUE
        /\ UNCHANGED << turn, burst, kind >>
        /\ "released" \in Places \ {"critical", "checking"} /\ "released" \in Places
    BY <1>3 DEF Check, Release, Places
  <2>2. LockInv'
    BY <1>1, <2>1, HolderLeaves
  <2>3. /\ pc' \in [Fibers -> Places]
        /\ pc'[f] = "released"
        /\ \A g \in Fibers : g # f => pc'[g] = pc[g]
    BY <2>1, GotoTypes
  <2>4. \A g \in Fibers : pc'[g] = "released" => turn' = g
    BY <1>1, <2>1, <2>3 DEF IInv, TypeOK
  <2> QED
    BY <2>1, <2>2, <2>3, <2>4 DEF IInv, TypeOK, Check, dataVars
<1> QED  BY <1>2, <1>3

LEMMA CaptureStep ==
  ASSUME IInv, NEW f \in Fibers, Capture(f)
  PROVE  IInv'
<1>1. Goto(f, "polling") /\ locked' = locked /\ ~HoldsLock(f) /\ "polling" \in Places
  BY DEF Capture, At, HoldsLock, Places, lockVars
<1>2. LockInv'
  BY <1>1, HoldersKept
<1>3. /\ pc' \in [Fibers -> Places]
      /\ pc'[f] = "polling"
      /\ \A g \in Fibers : g # f => pc'[g] = pc[g]
  BY <1>1, GotoTypes
<1>4. seen' \in [Waiters -> 0..(Sequences - 1)]
  BY DEF Capture, IInv, TypeOK
<1> QED
  BY <1>2, <1>3, <1>4 DEF IInv, TypeOK, Capture, lockVars, dataVars

LEMMA PollStep ==
  ASSUME IInv, NEW f \in Fibers, Poll(f)
  PROVE  IInv'
<1>1. turn = f /\ pc[f] = "polling" /\ ~HoldsLock(f)
  BY DEF Poll, At, HoldsLock
<1>2. CASE SequenceChanged(f) \/ kind[f] = "expired"
  <2>1. /\ Goto(f, "relocking") /\ UNCHANGED << turn, released, burst, locked >>
        /\ "relocking" \in Places
    BY <1>2 DEF Poll, Places
  <2>2. LockInv'
    BY <1>1, <2>1, HoldersKept
  <2>3. /\ pc' \in [Fibers -> Places]
        /\ pc'[f] = "relocking"
        /\ \A g \in Fibers : g # f => pc'[g] = pc[g]
    BY <2>1, GotoTypes
  <2>4. 0 \in 0..(Sequences - 1)
    BY ConditionAssumption
  <2>5. seen' \in [Waiters -> 0..(Sequences - 1)]
    BY <1>2, <2>4 DEF Poll, IInv, TypeOK
  <2>6. kind' \in [Waiters -> Kinds]
    BY <1>2 DEF Poll, IInv, TypeOK, Kinds
  <2>7. notified' \in SUBSET Waiters /\ missed' \in SUBSET Waiters
    BY <1>2 DEF Poll, IInv, TypeOK
  <2> QED
    BY <2>1, <2>2, <2>3, <2>5, <2>6, <2>7 DEF IInv, TypeOK, Poll, dataVars
<1>3. CASE ~(SequenceChanged(f) \/ kind[f] = "expired")
  <2>1. PassTurn(f) /\ UNCHANGED << pc, notified, missed, seen, locked, greedy >>
    BY <1>3 DEF Poll
  <2>2. /\ turn' \in Fibers /\ burst' \in 0..Burst /\ released' \in BOOLEAN
        /\ \A g \in Fibers : pc[g] # "released"
    BY <1>1, <2>1, TurnTypes
  <2>3. kind' \in [Waiters -> Kinds]
    BY <1>3 DEF Poll, IInv, TypeOK, Kinds
  <2>4. LockInv'
    BY <2>1, NobodyMoves
  <2> QED
    BY <2>1, <2>2, <2>3, <2>4 DEF IInv, TypeOK, Poll, dataVars
<1> QED  BY <1>2, <1>3

LEMMA NotificationTypes ==
  ASSUME IInv, Notification
  PROVE  /\ burst' \in 0..Burst
         /\ sequence' \in 0..(Sequences - 1)
<1>1. burst' \in 0..Burst
  BY ConditionAssumption DEF IInv, TypeOK, Notification
<1>2. sequence' \in 0..(Sequences - 1)
  BY ConditionAssumption DEF IInv, TypeOK, Notification
<1> QED  BY <1>1, <1>2

LEMMA UserStep ==
  ASSUME IInv, NEW f \in Fibers, Consume(f) \/ Post(f) \/ Notify(f)
  PROVE  IInv'
<1>1. CASE Consume(f) \/ Post(f)
  BY <1>1, NobodyMoves DEF IInv, TypeOK, Consume, Post, waitVars, lockVars
<1>2. CASE Notify(f)
  <2>1. LockInv'
    BY <1>2, NobodyMoves DEF Notify, lockVars
  <2>2. owes' \in SUBSET Producers /\ notified' \in SUBSET Waiters
    BY <1>2 DEF Notify, Waiting, IInv, TypeOK
  <2> QED
    BY <1>2, <2>1, <2>2, NotificationTypes DEF IInv, TypeOK, Notify, lockVars
<1> QED  BY <1>1, <1>2

LEMMA OtherStep ==
  ASSUME IInv, (\E i \in Isrs : IsrPost(i)) \/ RequestStop \/ UNCHANGED vars
  PROVE  IInv'
<1>1. ASSUME NEW i \in Isrs, IsrPost(i)
      PROVE  IInv'
  <2>1. LockInv'
    BY <1>1, NobodyMoves DEF IsrPost, lockVars
  <2>2. notified' \in SUBSET Waiters /\ missed' \in SUBSET Waiters
    BY <1>1 DEF IsrPost, Waiting, IInv, TypeOK
  <2> QED
    BY <1>1, <2>1, <2>2, NotificationTypes DEF IInv, TypeOK, IsrPost, lockVars
<1>2. CASE RequestStop
  BY <1>2, NobodyMoves DEF IInv, TypeOK, RequestStop, waitVars, lockVars
<1>3. CASE UNCHANGED vars
  BY <1>3, NobodyMoves DEF IInv, TypeOK, vars, waitVars, lockVars, dataVars
<1> QED  BY <1>1, <1>2, <1>3

LEMMA NextIInv == IInv /\ [Next]_vars => IInv'
BY YieldStep, LockStep, UnlockStep, WaitStep, CheckStep, CaptureStep, PollStep,
   UserStep, OtherStep DEF Next

(* For every number of fibers, waiters, producers and interrupts: no two    *)
(* fibers are inside the mutex, wait() included, the mutex is locked exactly*)
(* when one is, and a waiter keeps the turn from unlock() to the load of    *)
(* the sequence, so that only an interrupt can notify in between.           *)
THEOREM ConditionVariableCorrect == Spec => [](TypeOK /\ LockInv)
BY InitIInv, NextIInv, PTL DEF Spec, IInv

-----------------------------------------------------------------------------
(* No notification is lost that a waiter must see.  Between two looks of a  *)
(* waiter at the sequence every fiber has one turn, with at most Burst      *)
(* notifications by the fiber and the interrupts during it, so the sequence *)
(* does not come back to the value that the waiter compares it with.        *)
Position ==
  CHOOSE position \in [Fibers -> 1..Cardinality(Fibers)] : IsRing(position)

(* How many turns have begun since the last turn of fiber f.                *)
Turns(f) ==
  IF Position[turn] > Position[f]
    THEN Position[turn] - Position[f]
    ELSE Cardinality(Fibers) + Position[turn] - Position[f]

(* How many notifications waiter f has not seen.                            *)
Unseen(f) ==
  IF sequence >= seen[f]
    THEN sequence - seen[f]
    ELSE sequence + Sequences - seen[f]

Noticed ==
  \A f \in Waiters :
    /\ f \in notified => pc[f] = "polling" /\ Unseen(f) >= 1
    /\ pc[f] = "polling" => Unseen(f) <= (Turns(f) - 1) * Burst + burst

LEMMA PositionRing ==
  Position \in [Fibers -> 1..Cardinality(Fibers)] /\ IsRing(Position)
BY RingAssumption DEF Position

LEMMA FibersCounted ==
  ASSUME IInv
  PROVE  Cardinality(Fibers) \in Nat \ {0}
<1>1. Cardinality(Fibers) \in Nat
  BY ConditionAssumption, FS_CardinalityType
<1>2. Fibers # {}
  BY DEF IInv, TypeOK
<1> QED  BY <1>1, <1>2, ConditionAssumption, FS_EmptySet

LEMMA TurnsBounded ==
  ASSUME IInv, NEW f \in Fibers
  PROVE  Turns(f) \in 1..Cardinality(Fibers)
<1>1. turn \in Fibers
  BY DEF IInv, TypeOK
<1>2. Position[f] \in 1..Cardinality(Fibers) /\ Position[turn] \in 1..Cardinality(Fibers)
  BY <1>1, PositionRing
<1> QED  BY <1>2, FibersCounted DEF Turns

LEMMA TurnsAfter ==
  ASSUME IInv, NEW f \in Fibers, NEW t \in Fibers, turn = t, turn' = Successor[t]
  PROVE  Turns(f)' = IF f = t THEN 1 ELSE Turns(f) + 1
<1> DEFINE K == Cardinality(Fibers)
<1>1. K \in Nat \ {0}
  BY FibersCounted
<1>2. Position[f] \in 1..K /\ Position[t] \in 1..K
  BY PositionRing
<1>3. Position[Successor[t]] = IF Position[t] = K THEN 1 ELSE Position[t] + 1
  BY PositionRing DEF IsRing
<1>4. f # t => Position[f] # Position[t]
  BY PositionRing DEF IsRing
<1>5. Turns(f)' = IF Position[Successor[t]] > Position[f]
                    THEN Position[Successor[t]] - Position[f]
                    ELSE K + Position[Successor[t]] - Position[f]
  BY DEF Turns
<1>6. Turns(f) = IF Position[t] > Position[f] THEN Position[t] - Position[f]
                                              ELSE K + Position[t] - Position[f]
  BY DEF Turns
<1> HIDE DEF K
<1> QED  BY <1>1, <1>2, <1>3, <1>4, <1>5, <1>6

(* The notifications of all turns are fewer than the sequence has values.   *)
LEMMA BurstsBounded ==
  ASSUME IInv, NEW k \in 1..Cardinality(Fibers), NEW b \in 0..Burst
  PROVE  (k - 1) * Burst + b < Sequences
<1> DEFINE K == Cardinality(Fibers)
<1>1. K \in Nat \ {0} /\ k \in 1..K
  BY FibersCounted
<1>2. Burst \in Nat /\ Sequences \in Nat /\ Burst * K < Sequences
  BY ConditionAssumption
<1> HIDE DEF K
<1>3. PICK d \in Nat : K = k + d
  BY <1>1
<1>4. Burst * K = (k - 1) * Burst + Burst + d * Burst /\ d * Burst \in Nat
  BY <1>1, <1>2, <1>3
<1>5. (k - 1) * Burst \in Nat
  BY <1>1, <1>2
<1> QED  BY <1>2, <1>4, <1>5

(* A step that neither notifies nor passes the turn, and lets nobody enter  *)
(* or leave poll().                                                         *)
LEMMA QuietStep ==
  ASSUME IInv, Noticed, UNCHANGED << turn, burst, sequence, seen, notified >>,
         \A g \in Waiters : pc'[g] = "polling" <=> pc[g] = "polling"
  PROVE  Noticed'
<1>1. \A g \in Waiters : Turns(g)' = Turns(g) /\ Unseen(g)' = Unseen(g)
  BY DEF Turns, Unseen
<1> QED  BY <1>1 DEF Noticed

(* A step that passes the turn; a waiter does so only if nothing is new.    *)
LEMMA TurnStep ==
  ASSUME IInv, Noticed, NEW f \in Fibers, turn = f, PassTurn(f),
         UNCHANGED << sequence, seen, notified >>,
         \A g \in Waiters : pc'[g] = "polling" <=> pc[g] = "polling",
         f \in Waiters /\ pc[f] = "polling" => seen[f] = sequence
  PROVE  Noticed'
<1>1. turn' = Successor[f] /\ burst' = 0
  BY DEF PassTurn
<1>2. \A g \in Waiters : Unseen(g)' = Unseen(g)
  BY DEF Unseen
<1> SUFFICES ASSUME NEW g \in Waiters, pc[g] = "polling"
             PROVE  Unseen(g) <= (Turns(g)' - 1) * Burst + burst'
  BY <1>2 DEF Noticed
<1>3. g \in Fibers /\ Burst \in Nat
  BY ConditionAssumption
<1>4. CASE g = f
  <2>1. Unseen(g) = 0
    BY <1>4 DEF Unseen, IInv, TypeOK
  <2>2. Turns(g)' = 1
    BY <1>1, <1>3, <1>4, TurnsAfter
  <2> QED  BY <1>1, <1>3, <2>1, <2>2
<1>5. CASE g # f
  <2>1. Turns(g)' = Turns(g) + 1
    BY <1>1, <1>3, <1>5, TurnsAfter
  <2>2. Turns(g) \in Nat
    BY <1>3, TurnsBounded, FibersCounted
  <2>3. Unseen(g) <= (Turns(g) - 1) * Burst + burst /\ burst \in 0..Burst
    BY DEF Noticed, IInv, TypeOK
  <2>4. Unseen(g) \in Int
    BY ConditionAssumption DEF Unseen, IInv, TypeOK
  <2>5. (Turns(g) - 1) * Burst + Burst = Turns(g) * Burst /\ (Turns(g) - 1) * Burst \in Int
    BY <1>3, <2>2
  <2> QED  BY <1>1, <1>3, <2>1, <2>2, <2>3, <2>4, <2>5
<1> QED  BY <1>4, <1>5

LEMMA CaptureNoticed ==
  ASSUME IInv, Noticed, NEW f \in Fibers, Capture(f)
  PROVE  Noticed'
<1>1. /\ pc[f] = "released" /\ seen' = [seen EXCEPT ![f] = sequence]
      /\ Goto(f, "polling") /\ UNCHANGED << turn, notified, sequence, burst >>
  BY DEF Capture, At
<1>2. pc'[f] = "polling" /\ \A g \in Fibers : g # f => pc'[g] = pc[g]
  BY <1>1 DEF Goto, IInv, TypeOK
<1> SUFFICES ASSUME NEW g \in Waiters
             PROVE  /\ g \in notified => pc'[g] = "polling" /\ Unseen(g)' >= 1
                    /\ pc'[g] = "polling" =>
                         Unseen(g)' <= (Turns(g) - 1) * Burst + burst
  BY <1>1 DEF Noticed, Turns
<1>3. g \in Fibers
  BY ConditionAssumption
<1>4. CASE g = f
  <2>1. g \notin notified
    BY <1>1, <1>4 DEF Noticed
  <2>2. Unseen(g)' = 0
    BY <1>1, <1>4 DEF Unseen, IInv, TypeOK
  <2>3. Turns(g) - 1 \in Nat /\ Burst \in Nat /\ burst \in Nat
    BY <1>3, TurnsBounded, FibersCounted, ConditionAssumption DEF IInv, TypeOK
  <2>4. (Turns(g) - 1) * Burst \in Nat
    BY <2>3
  <2> QED  BY <2>1, <2>2, <2>3, <2>4
<1>5. CASE g # f
  <2>1. pc'[g] = pc[g] /\ Unseen(g)' = Unseen(g)
    BY <1>1, <1>2, <1>3, <1>5 DEF Unseen, IInv, TypeOK
  <2> QED  BY <2>1 DEF Noticed
<1> QED  BY <1>4, <1>5

LEMMA PollNoticed ==
  ASSUME IInv, Noticed, NEW f \in Fibers, Poll(f)
  PROVE  Noticed'
<1>1. turn = f /\ pc[f] = "polling" /\ UNCHANGED sequence
  BY DEF Poll, At
<1>2. CASE SequenceChanged(f) \/ kind[f] = "expired"
  <2>1. /\ Goto(f, "relocking") /\ notified' = notified \ {f}
        /\ seen' = [seen EXCEPT ![f] = 0] /\ UNCHANGED << turn, burst >>
    BY <1>2 DEF Poll
  <2>2. pc'[f] = "relocking" /\ \A g \in Fibers : g # f => pc'[g] = pc[g]
    BY <2>1 DEF Goto, IInv, TypeOK
  <2> SUFFICES ASSUME NEW g \in Waiters
               PROVE  /\ g \in notified' => pc'[g] = "polling" /\ Unseen(g)' >= 1
                      /\ pc'[g] = "polling" =>
                           Unseen(g)' <= (Turns(g) - 1) * Burst + burst
    BY <2>1 DEF Noticed, Turns
  <2>3. CASE g = f
    BY <2>1, <2>2, <2>3
  <2>4. CASE g # f
    <3>1. pc'[g] = pc[g]
      BY <2>2, <2>4, ConditionAssumption
    <3>2. Unseen(g)' = Unseen(g)
      BY <1>1, <2>1, <2>4 DEF Unseen, IInv, TypeOK
    <3> QED  BY <2>1, <3>1, <3>2 DEF Noticed
  <2> QED  BY <2>3, <2>4
<1>3. CASE ~(SequenceChanged(f) \/ kind[f] = "expired")
  <2>1. PassTurn(f) /\ UNCHANGED << pc, notified, seen >> /\ seen[f] = sequence
    BY <1>3 DEF Poll, SequenceChanged
  <2> QED  BY <1>1, <2>1, TurnStep
<1> QED  BY <1>2, <1>3

(* A notification, by a fiber or an interrupt, that waiters in poll() see.  *)
LEMMA NotificationNoticed ==
  ASSUME IInv, Noticed, Notification, UNCHANGED << turn, pc, seen >>,
         \A g \in notified' : g \in Waiters /\ pc[g] = "polling"
  PROVE  Noticed'
<1>2. /\ burst < Burst /\ burst' = burst + 1
      /\ sequence' = (sequence + 1) % Sequences
  BY DEF Notification
<1>4. /\ Sequences \in Nat \ {0} /\ Burst \in Nat /\ burst \in Nat
      /\ sequence \in 0..(Sequences - 1)
  BY ConditionAssumption DEF IInv, TypeOK
<1>5. sequence' = IF sequence + 1 = Sequences THEN 0 ELSE sequence + 1
  <2>1. CASE sequence + 1 = Sequences
    <3>1. Sequences % Sequences = 0
      BY <1>4
    <3> QED  BY <1>2, <2>1, <3>1
  <2>2. CASE sequence + 1 < Sequences
    <3>1. (sequence + 1) % Sequences = sequence + 1
      BY <1>4, <2>2
    <3> QED  BY <1>2, <2>2, <3>1, <1>4
  <2> QED  BY <1>4, <2>1, <2>2
<1> SUFFICES ASSUME NEW g \in Waiters, pc[g] = "polling"
             PROVE  /\ Unseen(g)' >= 1
                    /\ Unseen(g)' <= (Turns(g) - 1) * Burst + (burst + 1)
  BY <1>2 DEF Noticed, Turns
<1>6. Turns(g) \in 1..Cardinality(Fibers)
  BY TurnsBounded, ConditionAssumption
<1>7. Unseen(g) <= (Turns(g) - 1) * Burst + burst
  BY DEF Noticed
<1>8. (Turns(g) - 1) * Burst + (burst + 1) < Sequences
  <2>1. \A k \in 1..Cardinality(Fibers), b \in 0..Burst : (k - 1) * Burst + b < Sequences
    BY BurstsBounded
  <2>2. burst + 1 \in 0..Burst
    BY <1>2, <1>4
  <2> QED  BY <1>6, <2>1, <2>2, Zenon
<1>9. (Turns(g) - 1) * Burst \in Int
  BY <1>4, <1>6, FibersCounted
<1>10. seen[g] \in 0..(Sequences - 1)
  BY DEF IInv, TypeOK
<1>11. Unseen(g) \in Nat
  BY <1>4, <1>10 DEF Unseen
<1>12. Unseen(g) + 1 < Sequences
  BY <1>4, <1>7, <1>8, <1>9, <1>11
<1>13. Unseen(g)' = Unseen(g) + 1
  BY <1>4, <1>5, <1>10, <1>12 DEF Unseen
<1> QED  BY <1>4, <1>7, <1>9, <1>11, <1>13

(* While a fiber that notifies has the turn, no waiter is before its load.  *)
LEMMA NotifyNoticed ==
  ASSUME IInv, Noticed, NEW f \in Fibers, Notify(f)
  PROVE  Noticed'
<1>1. /\ turn = f /\ pc[f] \in {"running", "critical"} /\ Notification
      /\ UNCHANGED << turn, pc, seen >>
      /\ notified' = notified \cup Waiting({"released", "polling"})
  BY DEF Notify, At
<1>2. \A g \in Fibers : pc[g] # "released"
  BY <1>1 DEF IInv, TypeOK
<1>3. \A g \in notified' : g \in Waiters /\ pc[g] = "polling"
  BY <1>1, <1>2, ConditionAssumption DEF Waiting, Noticed, IInv, TypeOK
<1> QED  BY <1>1, <1>3, NotificationNoticed

(* An interrupt may come before the load of a waiter, which then misses it, *)
(* but the notifications that other waiters have not seen stay unseen.      *)
LEMMA IsrPostNoticed ==
  ASSUME IInv, Noticed, NEW i \in Isrs, IsrPost(i)
  PROVE  Noticed'
<1>1. /\ Notification /\ UNCHANGED << turn, pc, seen >>
      /\ notified' = notified \cup Waiting({"polling"})
  BY DEF IsrPost
<1>2. \A g \in notified' : g \in Waiters /\ pc[g] = "polling"
  BY <1>1 DEF Waiting, Noticed, IInv, TypeOK
<1> QED  BY <1>1, <1>2, NotificationNoticed

LEMMA NextNoticed ==
  ASSUME IInv, Noticed, [Next]_vars
  PROVE  Noticed'
<1>1. CASE UNCHANGED vars
  BY <1>1, QuietStep DEF vars, waitVars
<1>2. ASSUME NEW f \in Fibers, Yield(f)
      PROVE  Noticed'
  <2>1. turn = f /\ pc[f] # "polling" /\ PassTurn(f)
        /\ UNCHANGED << pc, seen, notified, sequence >>
    BY <1>2 DEF Yield, At, waitVars
  <2> QED  BY <2>1, TurnStep
<1>3. ASSUME NEW f \in Fibers, Lock(f)
      PROVE  Noticed'
  <2>1. turn = f /\ pc[f] \in {"running", "locking", "relocking"}
        /\ UNCHANGED << seen, notified, sequence >>
    BY <1>3 DEF Lock, At, waitVars
  <2>2. \A g \in Waiters : pc'[g] = "polling" <=> pc[g] = "polling"
    BY <1>3, <2>1, ConditionAssumption DEF Lock, Goto, IInv, TypeOK
  <2>3. PassTurn(f) \/ UNCHANGED << turn, burst >>
    BY <1>3 DEF Lock
  <2> QED  BY <2>1, <2>2, <2>3, TurnStep, QuietStep
<1>4. ASSUME NEW f \in Fibers,
             \/ Unlock(f)
             \/ \E k \in {"plain", "timed", "stoppable"} : Wait(f, k)
             \/ Check(f)
             \/ Consume(f)
             \/ Post(f)
      PROVE  Noticed'
  <2>1. UNCHANGED << turn, burst, sequence, seen, notified >>
    BY <1>4 DEF Unlock, Wait, Check, Release, Consume, Post, waitVars
  <2>2. pc[f] # "polling"
    BY <1>4 DEF Unlock, Wait, Check, Consume, Post, At
  <2>3. \/ UNCHANGED pc
        \/ \E place \in {"running", "checking", "critical", "released"} : Goto(f, place)
    BY <1>4 DEF Unlock, Wait, Check, Consume, Post
  <2>4. \A g \in Waiters : pc'[g] = "polling" <=> pc[g] = "polling"
    BY <2>2, <2>3, ConditionAssumption DEF Goto, IInv, TypeOK
  <2> QED  BY <2>1, <2>4, QuietStep
<1>5. CASE RequestStop
  BY <1>5, QuietStep DEF RequestStop, waitVars
<1> QED
  BY <1>1, <1>2, <1>3, <1>4, <1>5, CaptureNoticed, PollNoticed, NotifyNoticed,
     IsrPostNoticed DEF Next

(* For every number of fibers and interrupts, every burst and every size of *)
(* the sequence: a notification by a fiber after wait() has released the    *)
(* mutex, or by an interrupt after wait() has loaded the sequence, is not   *)
(* lost.  What wait() compares with differs from the sequence until the     *)
(* waiter looks at it.                                                      *)
THEOREM NotificationsCorrect == Spec => []NoLostNotification
<1>1. Init => Noticed
  <2> SUFFICES ASSUME Init, NEW f \in Waiters
               PROVE  f \notin notified /\ pc[f] # "polling"
    BY DEF Noticed
  <2>1. f \in Fibers
    BY ConditionAssumption
  <2> QED  BY <2>1 DEF Init
<1>2. IInv /\ Noticed => NoLostNotification
  BY ConditionAssumption DEF Noticed, NoLostNotification, Unseen, IInv, TypeOK
<1>3. IInv /\ Noticed /\ [Next]_vars => Noticed'
  BY NextNoticed
<1> QED
  BY <1>1, <1>2, <1>3, InitIInv, NextIInv, PTL DEF Spec
=============================================================================
