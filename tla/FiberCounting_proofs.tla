----------------------- MODULE FiberCounting_proofs ------------------------
(***************************************************************************)
(* What the semaphore and the latch guarantee for every number of fibers   *)
(* and interrupts, every width of the counter and every argument.          *)
(***************************************************************************)
EXTENDS FiberCounting, TLAPS

(* The loop of count_down() gives up on a latch that it has seen open: that *)
(* loses nothing because an open latch stays open.                          *)
SeenOpen ==
  \A f \in Fibers : pc[f] \in {"counting", "arriving"} /\ seen = 0 => latch = 0

IInv == TypeOK /\ PermitsConserved /\ LatchCounts /\ SeenOpen

LEMMA InitIInv == Init => IInv
BY CountingAssumption
   DEF Init, IInv, TypeOK, PermitsConserved, LatchCounts, SeenOpen, Places, Patience

(* fetch_add() does not wrap around when release() keeps its precondition.  *)
LEMMA Incremented ==
  ASSUME NEW n \in Nat, NEW m \in Nat, n + 1 < m
  PROVE  (n + 1) % m = n + 1
OBVIOUS

(* What count_down() stores is in the range of the latch.                   *)
LEMMA LoweredRange ==
  ASSUME NEW v \in 0..Expected, NEW n \in Nat
  PROVE  /\ Lowered(v, n) \in 0..Expected
         /\ Lowered(v, n) = IF v >= n THEN v - n ELSE 0
BY CountingAssumption DEF Lowered

(* A fiber moves to a place outside the loops of exchanges, or keeps its    *)
(* turn.                                                                    *)
LEMMA GotoTypes ==
  ASSUME TypeOK, NEW f \in Fibers, turn = f, NEW place \in Places, Goto(f, place)
  PROVE  /\ pc' \in [Fibers -> Places]
         /\ pc'[f] = place
         /\ \A g \in Fibers : g # f =>
              pc'[g] = pc[g] /\ pc[g] \notin {"loaded", "counting", "arriving"}
BY DEF TypeOK, Goto

(* An attempt to acquire fails: nothing changes but the turn and the call.  *)
LEMMA FailStep ==
  ASSUME IInv, NEW f \in Fibers, turn = f, Fail(f)
  PROVE  IInv'
<1>1. Successor[f] \in Fibers /\ TypeOK
  BY CountingAssumption DEF IInv
<1>2. PICK place \in {"running", "acquiring"} : Goto(f, place)
  BY DEF Fail, RetryAt
<1>3. /\ pc' \in [Fibers -> Places]
      /\ \A g \in Fibers : pc'[g] \notin {"loaded", "counting", "arriving"}
  BY <1>1, <1>2, GotoTypes DEF Places
<1>4. turn' \in Fibers /\ patience' \in [Fibers -> Patience]
  BY <1>1 DEF Fail, TypeOK, Patience
<1>5. seen' = 0 /\ UNCHANGED << step, count, latch, permits, remaining >>
  BY DEF Fail
<1> QED
  BY <1>1, <1>3, <1>4, <1>5 DEF IInv, TypeOK, PermitsConserved, LatchCounts, SeenOpen

(* An exchange of the semaphore: it succeeds on the present count only.     *)
LEMMA ExchangeCountStep ==
  ASSUME IInv, NEW f \in Fibers, ExchangeCount(f)
  PROVE  IInv'
<1>1. /\ turn = f /\ pc[f] = "loaded" /\ seen # 0 /\ seen \in Nat
      /\ UNCHANGED << turn, step, latch, remaining >>
  BY DEF ExchangeCount, At, Exhausted, IInv, TypeOK
<1>2. CASE ExchangeSucceeds(count)
  <2>1. /\ count' = count - 1 /\ permits' = permits - 1 /\ count >= 1
        /\ Goto(f, "running")
        /\ patience' = [patience EXCEPT ![f] = "once"]
        /\ seen' = 0
    BY <1>1, <1>2, CountingAssumption DEF ExchangeCount, ExchangeSucceeds, IInv, TypeOK
  <2>2. /\ pc' \in [Fibers -> Places]
        /\ \A g \in Fibers : pc'[g] \notin {"loaded", "counting", "arriving"}
    BY <1>1, <2>1, GotoTypes DEF Places, IInv
  <2>3. patience' \in [Fibers -> Patience]
    BY <2>1 DEF Patience, IInv, TypeOK
  <2>4. count' \in 0..(Counts - 1) /\ permits' = count'
    BY <2>1, CountingAssumption DEF IInv, TypeOK, PermitsConserved
  <2> QED
    BY <1>1, <2>1, <2>2, <2>3, <2>4 DEF IInv, TypeOK, PermitsConserved, LatchCounts, SeenOpen
<1>3. CASE ~ExchangeSucceeds(count)
  <2>1. seen' = count /\ UNCHANGED << pc, patience, count, permits >>
    BY <1>3 DEF ExchangeCount
  <2>2. \A g \in Fibers : pc[g] \notin {"counting", "arriving"}
    BY <1>1 DEF IInv, TypeOK
  <2> QED
    BY <1>1, <2>1, <2>2, CountingAssumption
       DEF IInv, TypeOK, PermitsConserved, LatchCounts, SeenOpen
<1> QED  BY <1>2, <1>3

(* An exchange of the latch.                                                *)
LEMMA ExchangeLatchStep ==
  ASSUME IInv, NEW f \in Fibers, ExchangeLatch(f)
  PROVE  IInv'
<1>1. /\ turn = f /\ pc[f] \in {"counting", "arriving"}
      /\ seen \in Nat /\ step \in Nat /\ latch \in 0..Expected /\ remaining = latch
      /\ seen = 0 => latch = 0
      /\ UNCHANGED << turn, patience, count, permits >>
  BY CountingAssumption DEF ExchangeLatch, At, IInv, TypeOK, SeenOpen, LatchCounts
<1>2. CASE seen = 0 \/ ExchangeSucceeds(latch)
  <2>1. /\ latch' = IF seen = 0 THEN latch ELSE Lowered(seen, step)
        /\ remaining' = IF remaining >= step THEN remaining - step ELSE 0
        /\ seen' = 0 /\ step' = 0
    BY <1>2 DEF ExchangeLatch
  <2>2. PICK place \in {"running", "waiting"} : Goto(f, place)
    BY <1>2 DEF ExchangeLatch
  <2>3. /\ pc' \in [Fibers -> Places]
        /\ \A g \in Fibers : pc'[g] \notin {"loaded", "counting", "arriving"}
    BY <1>1, <2>2, GotoTypes DEF Places, IInv
  <2>4. latch' \in 0..Expected /\ remaining' = latch'
    <3>1. CASE seen = 0
      BY <1>1, <2>1, <3>1, CountingAssumption
    <3>2. CASE seen # 0
      BY <1>1, <1>2, <2>1, <3>2, LoweredRange, CountingAssumption DEF ExchangeSucceeds
    <3> QED  BY <3>1, <3>2
  <2> QED
    BY <1>1, <2>1, <2>3, <2>4 DEF IInv, TypeOK, PermitsConserved, LatchCounts, SeenOpen
<1>3. CASE ~(seen = 0 \/ ExchangeSucceeds(latch))
  <2>1. seen' = latch /\ UNCHANGED << pc, step, latch, remaining >>
    BY <1>3 DEF ExchangeLatch
  <2> QED
    BY <1>1, <2>1, CountingAssumption
       DEF IInv, TypeOK, PermitsConserved, LatchCounts, SeenOpen
<1> QED  BY <1>2, <1>3

(* The steps that begin a call, wait or pass the turn.                      *)
LEMMA CallStep ==
  ASSUME IInv, NEW f \in Fibers,
         \/ Yield(f)
         \/ \E p \in Patience : Acquire(f, p)
         \/ \E n \in Steps, place \in {"counting", "arriving"} : CountDown(f, n, place)
         \/ Wait(f)
         \/ LoadCount(f)
         \/ PollLatch(f)
  PROVE  IInv'
<1>1. TypeOK /\ Successor[f] \in Fibers
  BY CountingAssumption DEF IInv
<1>2. CASE Yield(f)
  BY <1>1, <1>2 DEF Yield, At, IInv, TypeOK, PermitsConserved, LatchCounts, SeenOpen
<1>3. ASSUME NEW p \in Patience, Acquire(f, p)
      PROVE  IInv'
  <2>1. turn = f /\ Goto(f, "acquiring") /\ patience' = [patience EXCEPT ![f] = p]
    BY <1>3 DEF Acquire, At
  <2> QED
    BY <1>1, <1>3, <2>1, GotoTypes
       DEF Acquire, Places, IInv, TypeOK, PermitsConserved, LatchCounts, SeenOpen
<1>4. ASSUME NEW n \in Steps, NEW place \in {"counting", "arriving"}, CountDown(f, n, place)
      PROVE  IInv'
  <2>1. turn = f /\ Goto(f, place) /\ seen' = latch /\ step' = n
    BY <1>4 DEF CountDown, At
  <2> QED
    BY <1>1, <1>4, <2>1, GotoTypes, CountingAssumption
       DEF CountDown, Places, IInv, TypeOK, PermitsConserved, LatchCounts, SeenOpen
<1>5. CASE Wait(f)
  <2>1. turn = f /\ Goto(f, "waiting")
    BY <1>5 DEF Wait, At
  <2> QED
    BY <1>1, <1>5, <2>1, GotoTypes
       DEF Wait, Places, IInv, TypeOK, PermitsConserved, LatchCounts, SeenOpen
<1>6. CASE LoadCount(f)
  <2>1. turn = f /\ Goto(f, "loaded") /\ seen' = count
    BY <1>6 DEF LoadCount, At
  <2> QED
    BY <1>1, <1>6, <2>1, GotoTypes, CountingAssumption
       DEF LoadCount, Places, IInv, TypeOK, PermitsConserved, LatchCounts, SeenOpen
<1>7. CASE PollLatch(f)
  <2>1. turn = f /\ pc[f] = "waiting"
    BY <1>7 DEF PollLatch, At
  <2>2. CASE Open
    <3>1. Goto(f, "running") /\ UNCHANGED turn
      BY <1>7, <2>2 DEF PollLatch
    <3> QED
      BY <1>1, <1>7, <2>1, <3>1, GotoTypes
         DEF PollLatch, Places, IInv, TypeOK, PermitsConserved, LatchCounts, SeenOpen
  <2>3. CASE ~Open
    BY <1>1, <1>7, <2>1, <2>3
       DEF PollLatch, IInv, TypeOK, PermitsConserved, LatchCounts, SeenOpen
  <2> QED  BY <2>2, <2>3
<1> QED
  BY <1>2, <1>3, <1>4, <1>5, <1>6, <1>7

(* release(), and what interrupts do in the middle of a fiber's attempt.    *)
LEMMA SharedStep ==
  ASSUME IInv
  PROVE  /\ \A a \in Fibers \cup Isrs : Release(a) => IInv'
         /\ \A i \in Isrs : IsrAcquire(i) => IInv'
         /\ \A i \in Isrs, n \in Steps : IsrCountDown(i, n) => IInv'
<1>1. ASSUME NEW a \in Fibers \cup Isrs, Release(a)
      PROVE  IInv'
  <2>1. count \in Nat /\ count + 1 < Counts /\ permits = count
    BY <1>1, CountingAssumption DEF Release, IInv, TypeOK, PermitsConserved
  <2>2. count' = count + 1 /\ permits' = count + 1
    BY <1>1, <2>1, Incremented, CountingAssumption DEF Release
  <2> QED
    BY <1>1, <2>1, <2>2, CountingAssumption
       DEF Release, IInv, TypeOK, PermitsConserved, LatchCounts, SeenOpen
<1>2. ASSUME NEW i \in Isrs, IsrAcquire(i)
      PROVE  IInv'
  BY <1>2, CountingAssumption
     DEF IsrAcquire, IInv, TypeOK, PermitsConserved, LatchCounts, SeenOpen
<1>3. ASSUME NEW i \in Isrs, NEW n \in Steps, IsrCountDown(i, n)
      PROVE  IInv'
  <2>1. n \in Nat /\ latch \in 0..Expected /\ remaining = latch
    BY CountingAssumption DEF IInv, TypeOK, LatchCounts
  <2>2. /\ latch' = Lowered(latch, n)
        /\ remaining' = IF latch >= n THEN latch - n ELSE 0
    BY <1>3, <2>1 DEF IsrCountDown
  <2>3. Lowered(latch, n) \in 0..Expected /\ Lowered(latch, n) = IF latch >= n THEN latch - n ELSE 0
    BY <2>1, LoweredRange
  <2>4. latch' \in 0..Expected /\ remaining' = latch'
    BY <2>2, <2>3
  <2>5. latch = 0 => latch' = 0
    BY <2>1, <2>2, <2>3
  <2> QED
    BY <1>3, <2>4, <2>5 DEF IsrCountDown, IInv, TypeOK, PermitsConserved, LatchCounts, SeenOpen
<1> QED  BY <1>1, <1>2, <1>3

LEMMA NextIInv == IInv /\ [Next]_vars => IInv'
<1> SUFFICES ASSUME IInv, [Next]_vars
             PROVE  IInv'
  OBVIOUS
<1>1. CASE UNCHANGED vars
  BY <1>1 DEF vars, IInv, TypeOK, PermitsConserved, LatchCounts, SeenOpen
<1>2. ASSUME NEW f \in Fibers, NoPermit(f)
      PROVE  IInv'
  BY <1>2, FailStep DEF NoPermit, At
<1> QED
  BY <1>1, <1>2, CallStep, ExchangeCountStep, ExchangeLatchStep, SharedStep DEF Next, Continue

(* No permit and no count_down() is lost, for every number of fibers and    *)
(* interrupts and every width of the counters.                              *)
THEOREM CountingCorrect == Spec => [](TypeOK /\ PermitsConserved /\ LatchCounts)
<1>1. IInv => TypeOK /\ PermitsConserved /\ LatchCounts
  BY DEF IInv
<1> QED
  BY <1>1, InitIInv, NextIInv, PTL DEF Spec

(* A fiber leaves latch::wait() by PollLatch only.                          *)
LEMMA PassStep ==
  ASSUME IInv, [Next]_vars, NEW f \in Fibers, pc[f] = "waiting", pc'[f] # "waiting"
  PROVE  remaining = 0
<1>1. pc \in [Fibers -> Places]
  BY DEF IInv, TypeOK
<1>2. ASSUME NEW g \in Fibers, NEW place \in Places, Goto(g, place), pc[g] # "waiting"
      PROVE  FALSE
  BY <1>1, <1>2 DEF Goto
<1>3. ASSUME NEW g \in Fibers, PollLatch(g)
      PROVE  remaining = 0
  BY <1>3 DEF PollLatch, Open, IInv, LatchCounts
<1>4. pc' # pc
  OBVIOUS
<1>5. ASSUME NEW g \in Fibers,
             \/ Yield(g)
             \/ \E p \in Patience : Acquire(g, p)
             \/ \E n \in Steps, place \in {"counting", "arriving"} : CountDown(g, n, place)
             \/ Wait(g)
             \/ LoadCount(g)
      PROVE  FALSE
  BY <1>2, <1>4, <1>5 DEF Yield, Acquire, CountDown, Wait, LoadCount, At, Places
<1>6. ASSUME NEW g \in Fibers, ExchangeCount(g)
      PROVE  FALSE
  BY <1>2, <1>4, <1>6 DEF ExchangeCount, At, Places
<1>7. ASSUME NEW g \in Fibers, NoPermit(g)
      PROVE  FALSE
  BY <1>2, <1>7 DEF NoPermit, Fail, RetryAt, At, Places
<1>8. ASSUME NEW g \in Fibers, ExchangeLatch(g)
      PROVE  FALSE
  <2>1. pc[g] # "waiting"
    BY <1>8 DEF ExchangeLatch, At
  <2>2. Goto(g, "running") \/ Goto(g, "waiting")
    BY <1>4, <1>8 DEF ExchangeLatch
  <2> QED  BY <1>2, <2>1, <2>2 DEF Places
<1>9. ASSUME \/ \E a \in Fibers \cup Isrs : Release(a)
             \/ \E i \in Isrs : IsrAcquire(i) \/ \E n \in Steps : IsrCountDown(i, n)
      PROVE  FALSE
  BY <1>4, <1>9 DEF Release, IsrAcquire, IsrCountDown
<1>10. ~UNCHANGED vars
  BY <1>4 DEF vars
<1> QED
  BY <1>3, <1>5, <1>6, <1>7, <1>8, <1>9, <1>10 DEF Next, Continue

(* Nobody passes the latch before all that was expected has arrived.        *)
THEOREM PassingCorrect == Spec => NobodyPassesEarly
<1>1. IInv /\ [Next]_vars =>
        [\A f \in Fibers : pc[f] = "waiting" /\ pc'[f] # "waiting" => remaining = 0]_vars
  BY PassStep
<1> QED
  BY <1>1, InitIInv, NextIInv, PTL DEF Spec, NobodyPassesEarly
=============================================================================
