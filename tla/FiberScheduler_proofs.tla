----------------------- MODULE FiberScheduler_proofs ------------------------
(***************************************************************************)
(* Proofs about FiberScheduler, for every set of tasks.                    *)
(*                                                                         *)
(* TypeOK is not inductive: yield() copies a `next' pointer into `current',*)
(* and that pointer is a task only because the ring is closed.  Neither is *)
(* RingInv without the types.  Their conjunction is.                       *)
(*                                                                         *)
(* The ring refines the run queue of RoundRobin.  What the recursive       *)
(* function Position computes is an induction, which is done here by       *)
(* least counterexamples: a set of naturals that is not empty has a least  *)
(* element.                                                                *)
(***************************************************************************)
EXTENDS FiberScheduler, SequenceTheorems, FiniteSetTheorems,
        WellFoundedInduction, TLAPS

RingIInv == TypeOK /\ RingInv

(* A set of tasks that is closed under `next' and meets the ring is the     *)
(* whole ring: the part of RingInv that says there is only one cycle.       *)
LEMMA OneCycle ==
  ASSUME RingInv, NEW S \in SUBSET attached, S # {}, \A t \in S : next[t] \in S
  PROVE  S = attached
BY DEF RingInv

LEMMA RingInit == Init => RingIInv
BY DEF Init, RingIInv, TypeOK, RingInv, Pointers, Contexts, Lifetimes, Running, Empty

(* yield(): the pointers stay, and the new `last' is the fiber that yields. *)
LEMMA SwitchKeepsRing ==
  ASSUME RingIInv, NEW f \in Tasks, current = f, SwitchToNext(f)
  PROVE  /\ RingInv'
         /\ last' \in Tasks \cup {NoTask}
         /\ current' \in Tasks \cup {NoTask}
         /\ next' \in [Tasks -> Pointers]
         /\ attached' \in SUBSET Tasks
         /\ ctx' \in [Tasks -> Contexts]
<1>1. f \in attached /\ next[f] \in attached /\ attached \subseteq Tasks /\ f # NoTask
  BY TasksAssumption DEF RingIInv, RingInv, Running, Empty, TypeOK
<1>2. RingInv'
  BY <1>1, TasksAssumption DEF RingIInv, RingInv, TypeOK, SwitchToNext, Jump, Running, Empty
<1>3. ctx' \in [Tasks -> Contexts]
  BY <1>1 DEF RingIInv, TypeOK, SwitchToNext, Jump, Contexts
<1> QED
  BY <1>1, <1>2, <1>3 DEF RingIInv, TypeOK, SwitchToNext, Jump

(* add(): the task joins between `last' and the head of the ring.           *)
LEMMA AddKeepsRing ==
  ASSUME RingIInv, NEW t \in Tasks, t \notin attached, AddLast(t),
         attached' = attached \cup {t}, UNCHANGED current
  PROVE  RingInv' /\ next' \in [Tasks -> Pointers] /\ last' \in Tasks
<1>0. /\ attached \subseteq Tasks
      /\ next \in [Tasks -> Pointers]
      /\ NoTask \notin Tasks
  BY TasksAssumption DEF RingIInv, TypeOK
<1>1. CASE Empty
  <2>1. attached' = {t} /\ next' = [next EXCEPT ![t] = t] /\ last' = t /\ current' = NoTask
    BY <1>0, <1>1 DEF AddLast, RingIInv, RingInv, Running, Empty
  <2>2. next'[t] = t
    BY <1>0, <2>1
  <2> QED
    BY <1>0, <2>1, <2>2 DEF RingInv, Running, Empty, Pointers
<1>2. CASE ~Empty
  <2> DEFINE head == next[last]
  <2>1. last \in attached /\ head \in attached
    BY <1>2 DEF RingIInv, RingInv, Empty
  <2>2. next' = [next EXCEPT ![t] = head, ![last] = t] /\ last' = t
    BY <1>2 DEF AddLast
  <2>3. /\ next'[t] = head
        /\ next'[last] = t
        /\ \A u \in attached \ {last} : next'[u] = next[u]
    BY <1>0, <2>1, <2>2
  <2>4. \A u \in attached' : next'[u] \in attached'
    BY <2>1, <2>3 DEF RingIInv, RingInv
  <2>5. ASSUME NEW u \in attached', NEW v \in attached', next'[u] = next'[v]
        PROVE  u = v
    BY <2>1, <2>3, <2>5 DEF RingIInv, RingInv
  <2>6. ASSUME NEW S \in SUBSET attached', S # {}, \A u \in S : next'[u] \in S
        PROVE  S = attached'
    <3> DEFINE R == S \ {t}
    <3>1. head \in R \/ R # {}
      BY <2>1, <2>3, <2>6
    <3>2. R # {}
      BY <3>1
    <3>3. \A u \in R : next[u] \in R
      BY <2>1, <2>3, <2>6 DEF RingIInv, RingInv
    <3>4. R = attached
      <4>1. R \in SUBSET attached
        BY <2>6
      <4> HIDE DEF R
      <4> QED  BY <3>2, <3>3, <4>1, OneCycle DEF RingIInv
    <3> QED
      BY <2>1, <2>3, <2>6, <3>4
  <2>7. Running' => ~Empty' /\ current' = next'[last']
    BY <1>0, <1>2, <2>1, <2>2, <2>3 DEF RingIInv, RingInv, Running, Empty
  <2> QED
    BY <1>0, <2>1, <2>2, <2>4, <2>5, <2>6, <2>7 DEF RingInv, Pointers
<1> QED  BY <1>1, <1>2

(* unschedule(): the executing fiber, which is the head, leaves.            *)
LEMMA ReturnKeepsRing ==
  ASSUME RingIInv, NEW f \in Tasks, Return(f)
  PROVE  RingInv'
<1>0. /\ attached \subseteq Tasks
      /\ next \in [Tasks -> Pointers]
      /\ NoTask \notin Tasks
  BY TasksAssumption DEF RingIInv, TypeOK
<1>1. /\ current = f /\ last \in attached /\ next[last] = f /\ f \in attached
      /\ next[f] \in attached
  BY <1>0 DEF Return, Executing, RingIInv, RingInv, Running, Empty
<1>2. CASE f = last
  <2>1. attached = {f}
    <3>1. {f} \in SUBSET attached /\ {f} # {} /\ \A t \in {f} : next[t] \in {f}
      BY <1>1, <1>2
    <3> QED  BY <3>1, OneCycle DEF RingIInv
  <2>2. attached' = {} /\ last' = NoTask /\ current' = NoTask
    BY <1>2, <2>1 DEF Return, LastWithout
  <2> QED
    BY <2>2 DEF RingInv, Running, Empty
<1>3. CASE f # last
  <2>1. /\ attached' = attached \ {f}
        /\ last' = last
        /\ current' = next[f]
        /\ next' = [next EXCEPT ![last] = next[f], ![f] = NoTask]
    BY <1>3 DEF Return, LastWithout, NextWithout
  <2>2. /\ next'[last] = next[f]
        /\ \A u \in attached' \ {last} : next'[u] = next[u]
    BY <1>0, <1>1, <1>3, <2>1
  <2>3. \A u \in attached' : u # last => next[u] # f
    BY <1>1, <2>1 DEF RingIInv, RingInv
  <2>4. next[f] # f
    <3>1. \A t \in {f} : next[f] = f => next[t] \in {f}
      OBVIOUS
    <3>2. {f} \in SUBSET attached /\ {f} # {} /\ {f} # attached
      BY <1>1, <1>3
    <3> QED  BY <3>1, <3>2, OneCycle DEF RingIInv
  <2>5. ASSUME NEW u \in attached'
        PROVE  next'[u] \in attached'
    <3>1. u \in attached /\ next[u] \in attached
      BY <2>1 DEF RingIInv, RingInv
    <3>2. CASE u = last
      BY <1>1, <2>1, <2>2, <2>4, <3>2
    <3>3. CASE u # last
      <4>1. next[u] # f
        BY <2>3, <3>3
      <4>2. next'[u] = next[u]
        BY <2>2, <3>3
      <4>3. next[u] \in attached \ {f}
        BY <3>1, <4>1
      <4> QED  BY <2>1, <4>2, <4>3
    <3> QED  BY <3>2, <3>3
  <2>6. ASSUME NEW u \in attached', NEW v \in attached', next'[u] = next'[v]
        PROVE  u = v
    BY <1>1, <2>1, <2>2, <2>6 DEF RingIInv, RingInv
  <2>7. ASSUME NEW S \in SUBSET attached', S # {}, \A u \in S : next'[u] \in S
        PROVE  S = attached'
    <3> DEFINE R == S \cup {f}
    <3>1. CASE last \in S
      <4>1. \A u \in R : next[u] \in R
        BY <1>1, <2>1, <2>2, <2>7, <3>1
      <4>2. R \in SUBSET attached /\ R # {}
        BY <1>1, <2>1, <2>7
      <4>3. R = attached
        <5> HIDE DEF R
        <5> QED  BY <4>1, <4>2, OneCycle DEF RingIInv
      <4> QED  BY <2>1, <2>7, <4>3
    <3>2. CASE last \notin S
      <4>1. S \in SUBSET attached /\ \A u \in S : next[u] \in S
        BY <2>1, <2>2, <2>7, <3>2
      <4>2. S = attached
        BY <2>7, <4>1, OneCycle DEF RingIInv
      <4> QED  BY <1>1, <3>2, <4>2
    <3> QED  BY <3>1, <3>2
  <2>8. last' \in attached' /\ current' = next'[last']
    BY <1>1, <1>3, <2>1, <2>2
  <2> QED
    BY <1>0, <1>1, <2>1, <2>5, <2>6, <2>7, <2>8 DEF RingInv, Running, Empty, RingIInv, TypeOK
<1> QED  BY <1>2, <1>3

(***************************************************************************)
(* Every step keeps the ring and the types.                                *)
(***************************************************************************)
LEMMA RingUnchanged ==
  ASSUME RingInv, UNCHANGED << last, current, next, attached >>
  PROVE  RingInv'
BY DEF RingInv, Running, Empty

LEMMA RunStep ==
  ASSUME RingIInv, NEW watermark \in BOOLEAN, Run(watermark)
  PROVE  RingIInv'
<1>1. last \in attached /\ next[last] \in attached /\ attached \subseteq Tasks
  BY DEF RingIInv, RingInv, TypeOK, Run, Empty
<1>2. TypeOK'
  BY <1>1 DEF RingIInv, TypeOK, Run, Jump, Visited, Contexts
<1>3. RingInv'
  BY <1>1, TasksAssumption DEF RingIInv, RingInv, Run, Jump, Running, Empty
<1> QED  BY <1>2, <1>3 DEF RingIInv

LEMMA StartTaskStep ==
  ASSUME RingIInv, NEW t \in Tasks, StartTask(t)
  PROVE  RingIInv'
<1>1. RingInv' /\ next' \in [Tasks -> Pointers] /\ last' \in Tasks
  BY AddKeepsRing DEF StartTask
<1>2. TypeOK'
  BY <1>1 DEF RingIInv, TypeOK, StartTask, ResetContext, Contexts
<1> QED  BY <1>1, <1>2 DEF RingIInv

LEMMA YieldStep ==
  ASSUME RingIInv, NEW f \in Tasks, Yield(f)
  PROVE  RingIInv'
BY SwitchKeepsRing DEF Yield, Executing, RingIInv, TypeOK

LEMMA ReturnStep ==
  ASSUME RingIInv, NEW f \in Tasks, Return(f)
  PROVE  RingIInv'
<1>1. RingInv'
  BY ReturnKeepsRing
<1>2. /\ current = f /\ last \in attached /\ f = next[last]
      /\ next[f] \in attached /\ attached \subseteq Tasks
  BY TasksAssumption DEF Return, Executing, RingIInv, RingInv, Running, Empty, TypeOK
<1>3. next' \in [Tasks -> Pointers]
  BY <1>2 DEF Return, NextWithout, RingIInv, TypeOK, Pointers
<1>4. /\ last' \in Tasks \cup {NoTask}
      /\ current' \in Tasks \cup {NoTask}
      /\ ctx' \in [Tasks -> Contexts]
      /\ autoWatermark' \in BOOLEAN
      /\ attached' \in SUBSET Tasks
  BY <1>2 DEF Return, LastWithout, RingIInv, TypeOK, Contexts
<1> QED  BY <1>1, <1>3, <1>4 DEF RingIInv, TypeOK, Return

LEMMA JoinCallStep ==
  ASSUME RingIInv, NEW f \in Tasks, NEW t \in Tasks, JoinCall(f, t)
  PROVE  RingIInv'
BY SwitchKeepsRing DEF JoinCall, Executing, RingIInv, TypeOK

LEMMA DestroyStep ==
  ASSUME RingIInv, NEW f \in Tasks, NEW t \in Tasks, Destroy(f, t)
  PROVE  RingIInv'
<1>1. CASE Joinable(f, t)
  <2>1. SwitchToNext(f) /\ current = f
    BY <1>1 DEF Destroy, Executing
  <2>2. joins' \in [Tasks -> Tasks \cup {NoTask}] /\ object' \in [Tasks -> Lifetimes]
    BY <1>1 DEF Destroy, RingIInv, TypeOK, Lifetimes
  <2> QED
    BY <2>1, <2>2, SwitchKeepsRing DEF Destroy, StopWith, RingIInv, TypeOK
<1>2. CASE ~Joinable(f, t)
  <2>1. UNCHANGED << ringVars, joins, autoWatermark, marked >>
    BY <1>2 DEF Destroy
  <2>2. object' \in [Tasks -> Lifetimes] /\ stop' \in SUBSET Tasks
    BY <1>2 DEF Destroy, StopWith, RingIInv, TypeOK, Lifetimes
  <2> QED
    BY <2>1, <2>2, RingUnchanged DEF RingIInv, TypeOK, ringVars
<1> QED  BY <1>1, <1>2

LEMMA JoinPollStep ==
  ASSUME RingIInv, NEW f \in Tasks, JoinPoll(f)
  PROVE  RingIInv'
<1>1. CASE Awaited(f)
  <2>1. SwitchToNext(f) /\ current = f /\ UNCHANGED << joins, object >>
    BY <1>1 DEF JoinPoll
  <2> QED
    BY <2>1, SwitchKeepsRing DEF JoinPoll, RingIInv, TypeOK
<1>2. CASE ~Awaited(f)
  <2>1. UNCHANGED ringVars
    BY <1>2 DEF JoinPoll
  <2>2. joins' \in [Tasks -> Tasks \cup {NoTask}] /\ object' \in [Tasks -> Lifetimes]
    BY <1>2 DEF JoinPoll, RingIInv, TypeOK, Lifetimes
  <2> QED
    BY <2>1, <2>2, RingUnchanged DEF JoinPoll, RingIInv, TypeOK, ringVars
<1> QED  BY <1>1, <1>2

LEMMA RingStep == RingIInv /\ [Next]_vars => RingIInv'
<1> SUFFICES ASSUME RingIInv, [Next]_vars
             PROVE  RingIInv'
  OBVIOUS
<1>1. ASSUME NEW watermark \in BOOLEAN, RunEmpty(watermark)
      PROVE  RingIInv'
  BY <1>1, RingUnchanged DEF RunEmpty, ringVars, RingIInv, TypeOK
<1>2. ASSUME NEW t \in Tasks, RequestStop(t) \/ DestroyIdle(t)
      PROVE  RingIInv'
  BY <1>2, RingUnchanged
     DEF RequestStop, DestroyIdle, StopWith, ringVars, RingIInv, TypeOK, Lifetimes
<1>3. CASE UNCHANGED vars
  BY <1>3, RingUnchanged DEF vars, ringVars, RingIInv, TypeOK
<1>4. ASSUME NEW f \in Tasks, Fiber(f)
      PROVE  RingIInv'
  BY <1>4, YieldStep, ReturnStep, JoinPollStep, JoinCallStep, DestroyStep DEF Fiber
<1> QED
  BY <1>1, <1>2, <1>3, <1>4, RunStep, StartTaskStep DEF Next

(* The types and the ring, for every number of tasks: in every reachable    *)
(* state the pointers of the scheduler are one ring of the attached tasks.  *)
THEOREM RingCorrect == Spec => [](TypeOK /\ RingInv)
BY RingInit, RingStep, PTL DEF Spec, RingIInv

(***************************************************************************)
(* Contexts.                                                               *)
(***************************************************************************)
ContextIInv == RingIInv /\ ContextInv

(* What the ring says of the executing fiber and its successor.             *)
LEMMA CurrentIsAttached ==
  ASSUME RingIInv, NEW f \in Tasks, current = f
  PROVE  /\ f \in attached
         /\ next[f] \in attached
         /\ last \in attached
         /\ f = next[last]
         /\ attached \subseteq Tasks
BY TasksAssumption DEF RingIInv, RingInv, TypeOK, Running, Empty

LEMMA SwitchKeepsContexts ==
  ASSUME ContextIInv, NEW f \in Tasks, current = f, SwitchToNext(f),
         \A g \in Tasks \ {f} : joins'[g] = joins[g]
  PROVE  ContextInv'
<1>1. next[f] \in attached /\ attached \subseteq Tasks /\ f # NoTask
  BY CurrentIsAttached, TasksAssumption DEF ContextIInv
<1>2. ctx' = [ctx EXCEPT ![next[f]] = "live"] /\ current' = next[f] /\ attached' = attached
  BY DEF SwitchToNext, Jump
<1>3. ctx \in [Tasks -> Contexts] /\ ctx[f] = "live"
  BY <1>1 DEF ContextIInv, RingIInv, TypeOK, ContextInv, Running
<1>4. \A t \in Tasks : ctx'[t] = IF t = next[f] THEN "live" ELSE ctx[t]
  BY <1>1, <1>2, <1>3
<1>5. \A t \in Tasks : t \in attached' <=> ctx'[t] \in {"reset", "live"}
  BY <1>1, <1>2, <1>4 DEF ContextIInv, ContextInv
<1>6. \A g \in Tasks : joins'[g] # NoTask => ctx'[g] = "live"
  BY <1>3, <1>4 DEF ContextIInv, ContextInv
<1> QED
  BY <1>1, <1>2, <1>4, <1>5, <1>6 DEF ContextInv, Running

LEMMA ContextUnchanged ==
  ASSUME ContextInv, UNCHANGED << current, attached, ctx >>,
         \A g \in Tasks : joins'[g] # NoTask => joins[g] # NoTask
  PROVE  ContextInv'
BY DEF ContextInv, Running

LEMMA ContextStep == ContextIInv /\ [Next]_vars => ContextInv'
<1> SUFFICES ASSUME ContextIInv, [Next]_vars
             PROVE  ContextInv'
  OBVIOUS
<1> USE DEF ContextIInv
<1>0. /\ ctx \in [Tasks -> Contexts]
      /\ joins \in [Tasks -> Tasks \cup {NoTask}]
      /\ attached \subseteq Tasks
  BY DEF RingIInv, TypeOK
<1>1. ASSUME NEW watermark \in BOOLEAN, Run(watermark)
      PROVE  ContextInv'
  <2>1. next[last] \in attached
    BY <1>1 DEF RingIInv, RingInv, Run, Empty
  <2> QED
    BY <1>0, <1>1, <2>1 DEF ContextInv, Run, Jump, Running
<1>2. ASSUME NEW watermark \in BOOLEAN, RunEmpty(watermark)
      PROVE  ContextInv'
  BY <1>2, ContextUnchanged DEF RunEmpty, ringVars
<1>3. ASSUME NEW f \in Tasks, Yield(f)
      PROVE  ContextInv'
  BY <1>3, SwitchKeepsContexts DEF Yield, Executing
<1>4. ASSUME NEW f \in Tasks, Return(f)
      PROVE  ContextInv'
  <2>1. current = f /\ joins[f] = NoTask /\ joins' = joins /\ attached' = attached \ {f}
    BY <1>4 DEF Return, Executing
  <2>2. next[f] \in attached /\ f \in attached
    BY <2>1, CurrentIsAttached
  <2>3. CASE f = last
    <3>1. ctx' = [ctx EXCEPT ![f] = "dead"] /\ current' = NoTask
      BY <1>4, <2>3 DEF Return
    <3>2. \A t \in Tasks : ctx'[t] = IF t = f THEN "dead" ELSE ctx[t]
      BY <1>0, <3>1
    <3> QED
      BY <2>1, <3>1, <3>2 DEF ContextInv, Running
  <2>4. CASE f # last
    <3>1. /\ ctx' = [ctx EXCEPT ![f] = "dead", ![next[f]] = "live"]
          /\ current' = next[f]
      BY <1>4, <2>4 DEF Return
    <3>2. next[f] # f
      <4>1. last \in attached /\ next[last] = f
        BY <2>1, CurrentIsAttached
      <4>2. \A t, u \in attached : next[t] = next[u] => t = u
        BY DEF RingIInv, RingInv
      <4> QED  BY <2>2, <2>4, <4>1, <4>2
    <3>3. \A t \in Tasks : ctx'[t] = IF t = f THEN "dead"
                                     ELSE IF t = next[f] THEN "live" ELSE ctx[t]
      BY <1>0, <2>2, <3>1, <3>2
    <3>4. \A t \in Tasks : t \in attached' <=> ctx'[t] \in {"reset", "live"}
      BY <2>1, <2>2, <3>2, <3>3 DEF ContextInv
    <3> QED
      BY <1>0, <2>1, <2>2, <3>1, <3>2, <3>3, <3>4 DEF ContextInv, Running
  <2> QED  BY <2>3, <2>4
<1>5. ASSUME NEW f \in Tasks, JoinPoll(f)
      PROVE  ContextInv'
  <2>1. CASE Awaited(f)
    BY <1>5, <2>1, SwitchKeepsContexts DEF JoinPoll
  <2>2. CASE ~Awaited(f)
    <3>1. joins' = [joins EXCEPT ![f] = NoTask] /\ UNCHANGED ringVars
      BY <1>5, <2>2 DEF JoinPoll
    <3> QED
      BY <1>0, <3>1, ContextUnchanged DEF ringVars
  <2> QED  BY <2>1, <2>2
<1>6. ASSUME NEW f \in Tasks, NEW t \in Tasks, JoinCall(f, t)
      PROVE  ContextInv'
  <2>1. joins' = [joins EXCEPT ![f] = t] /\ SwitchToNext(f) /\ current = f
    BY <1>6 DEF JoinCall, Executing
  <2> QED  BY <1>0, <2>1, SwitchKeepsContexts
<1>7. ASSUME NEW f \in Tasks, NEW t \in Tasks, Destroy(f, t)
      PROVE  ContextInv'
  <2>1. CASE Joinable(f, t)
    <3>1. joins' = [joins EXCEPT ![f] = t] /\ SwitchToNext(f) /\ current = f
      BY <1>7, <2>1 DEF Destroy, Executing
    <3> QED  BY <1>0, <3>1, SwitchKeepsContexts
  <2>2. CASE ~Joinable(f, t)
    BY <1>7, <2>2, ContextUnchanged DEF Destroy, ringVars
  <2> QED  BY <2>1, <2>2
<1>8. ASSUME NEW t \in Tasks, StartTask(t)
      PROVE  ContextInv'
  <2>1. /\ ctx' = [ctx EXCEPT ![t] = "reset"] /\ attached' = attached \cup {t}
        /\ t \notin attached /\ UNCHANGED << current, joins >>
    BY <1>8 DEF StartTask, ResetContext
  <2>2. ctx[t] # "live" /\ joins[t] = NoTask /\ (Running => current # t)
    BY <2>1 DEF ContextInv
  <2> QED
    BY <1>0, <2>1, <2>2 DEF ContextInv, Running, RingIInv, TypeOK
<1>9. ASSUME NEW t \in Tasks, RequestStop(t) \/ DestroyIdle(t)
      PROVE  ContextInv'
  BY <1>9, ContextUnchanged DEF RequestStop, DestroyIdle, ringVars
<1>10. CASE UNCHANGED vars
  BY <1>10, ContextUnchanged DEF vars, ringVars
<1> QED
  BY <1>1, <1>2, <1>3, <1>4, <1>5, <1>6, <1>7, <1>8, <1>9, <1>10 DEF Next, Fiber

LEMMA ContextInit == Init => ContextIInv
<1>1. Init => ContextInv
  BY DEF Init, ContextInv, Running
<1> QED  BY <1>1, RingInit DEF ContextIInv

(* Exactly the attached tasks have a stack that can be resumed, and the     *)
(* executing fiber and every fiber inside join() are live.                  *)
THEOREM ContextCorrect == Spec => []ContextInv
BY ContextInit, ContextStep, RingStep, PTL DEF Spec, ContextIInv

LEMMA StackStep ==
  ASSUME ContextIInv, [Next]_vars, NEW t \in Tasks
  PROVE  /\ ctx[t] = "live" /\ ctx'[t] # "live" => t = current /\ ctx'[t] = "dead"
         /\ ctx[t] # "live" /\ ctx'[t] = "live" => ctx[t] = "reset"
<1> USE DEF ContextIInv
<1>0. ctx \in [Tasks -> Contexts] /\ attached \subseteq Tasks
  BY DEF RingIInv, TypeOK
<1> DEFINE Kept ==
      /\ ctx[t] = "live" /\ ctx'[t] # "live" => t = current /\ ctx'[t] = "dead"
      /\ ctx[t] # "live" /\ ctx'[t] = "live" => ctx[t] = "reset"
<1>1. ASSUME NEW u \in attached, ctx' = [ctx EXCEPT ![u] = "live"]
      PROVE  Kept
  BY <1>0, <1>1 DEF ContextInv
<1>2. ASSUME NEW f \in Tasks, current = f, SwitchToNext(f)
      PROVE  Kept
  BY <1>1, <1>2, CurrentIsAttached DEF SwitchToNext, Jump
<1>3. ASSUME ctx' = ctx
      PROVE  Kept
  BY <1>3
<1>4. ASSUME NEW watermark \in BOOLEAN, Run(watermark)
      PROVE  Kept
  BY <1>1, <1>4 DEF Run, Jump, RingIInv, RingInv, Empty
<1>5. ASSUME NEW f \in Tasks, Return(f)
      PROVE  Kept
  <2>1. current = f /\ next[f] \in attached /\ next[f] \in Tasks
    BY <1>0, <1>5, CurrentIsAttached DEF Return, Executing
  <2>2. \/ ctx' = [ctx EXCEPT ![f] = "dead"]
        \/ ctx' = [ctx EXCEPT ![f] = "dead", ![next[f]] = "live"]
    BY <1>5 DEF Return
  <2>3. ctx[next[f]] \in {"reset", "live"}
    BY <2>1 DEF ContextInv
  <2>4. ctx[f] = "live"
    BY <1>5, <2>1, TasksAssumption DEF ContextInv, Running
  <2> QED
    BY <1>0, <2>1, <2>2, <2>3, <2>4
<1>6. ASSUME NEW u \in Tasks, StartTask(u)
      PROVE  Kept
  <2>1. ctx' = [ctx EXCEPT ![u] = "reset"] /\ ctx[u] # "live"
    BY <1>6 DEF StartTask, ResetContext, ContextInv
  <2> QED  BY <1>0, <2>1
<1> HIDE DEF Kept
<1>7. ASSUME NEW f \in Tasks, Fiber(f)
      PROVE  Kept
  BY <1>2, <1>3, <1>5, <1>7
     DEF Fiber, Yield, Executing, JoinPoll, JoinCall, Destroy, ringVars
<1>8. Kept
  BY <1>3, <1>4, <1>6, <1>7 DEF Next, RunEmpty, RequestStop, DestroyIdle, vars, ringVars
<1> QED  BY <1>8 DEF Kept

(* No step resets or enters a stack that it must not, for every number of   *)
(* tasks: a live stack ends only with its fiber, and only start() revives.  *)
THEOREM StacksCorrect == Spec => StacksAreKept
<1>1. ContextIInv /\ [Next]_vars =>
        [\A t \in Tasks :
           /\ ctx[t] = "live" /\ ctx'[t] # "live" => t = current /\ ctx'[t] = "dead"
           /\ ctx[t] # "live" /\ ctx'[t] = "live" => ctx[t] = "reset"]_vars
  BY StackStep
<1> QED
  BY <1>1, ContextInit, ContextStep, RingStep, PTL DEF Spec, StacksAreKept, ContextIInv

(***************************************************************************)
(* Watermarks.                                                             *)
(***************************************************************************)

(* The loop of start() visits the whole ring.                               *)
LEMMA VisitsAll ==
  ASSUME RingIInv, ~Empty
  PROVE  attached \subseteq Visited
<1>1. last \in attached /\ next[last] \in attached /\ attached \subseteq Tasks
  BY DEF RingIInv, RingInv, TypeOK, Empty
<1>2. ASSUME NEW t \in attached, NEW S \in SUBSET Pointers,
             next[last] \in S, \A p \in S : Follow(p) \in S
      PROVE  t \in S
  <2> DEFINE R == S \cap attached
  <2>1. R \in SUBSET attached /\ R # {}
    BY <1>1, <1>2
  <2>2. \A u \in R : next[u] \in R
    BY <1>1, <1>2 DEF Follow, RingIInv, RingInv
  <2>3. R = attached
    <3> HIDE DEF R
    <3> QED  BY <2>1, <2>2, OneCycle DEF RingIInv
  <2> QED  BY <2>3
<1> QED  BY <1>1, <1>2 DEF Visited

LEMMA WatermarkStep == RingIInv /\ WatermarkInv /\ [Next]_vars => WatermarkInv'
<1> SUFFICES ASSUME RingIInv, WatermarkInv, [Next]_vars
             PROVE  WatermarkInv'
  OBVIOUS
<1>1. ASSUME UNCHANGED << autoWatermark, marked, attached >>, Running \/ ~Running'
      PROVE  WatermarkInv'
  BY <1>1 DEF WatermarkInv
<1>2. ASSUME NEW watermark \in BOOLEAN, Run(watermark)
      PROVE  WatermarkInv'
  BY <1>2, VisitsAll DEF WatermarkInv, Run
<1>3. ASSUME NEW watermark \in BOOLEAN, RunEmpty(watermark)
      PROVE  WatermarkInv'
  BY <1>3 DEF WatermarkInv, RunEmpty, ringVars, Running
<1>4. ASSUME NEW f \in Tasks, Return(f)
      PROVE  WatermarkInv'
  BY <1>4, TasksAssumption DEF WatermarkInv, Return, Executing, Running
<1>5. ASSUME NEW f \in Tasks, current = f,
             UNCHANGED << autoWatermark, marked, attached >>
      PROVE  WatermarkInv'
  BY <1>1, <1>5, TasksAssumption DEF Running
<1>6. ASSUME NEW f \in Tasks, Fiber(f)
      PROVE  WatermarkInv'
  BY <1>4, <1>5, <1>6
     DEF Fiber, Yield, Executing, JoinPoll, JoinCall, Destroy, ringVars, SwitchToNext
<1>7. ASSUME NEW t \in Tasks, StartTask(t)
      PROVE  WatermarkInv'
  BY <1>7 DEF WatermarkInv, StartTask, Running
<1>8. ASSUME UNCHANGED << autoWatermark, marked, ringVars >>
      PROVE  WatermarkInv'
  BY <1>8 DEF WatermarkInv, Running, ringVars
<1> QED
  BY <1>2, <1>3, <1>6, <1>7, <1>8 DEF Next, RequestStop, DestroyIdle, vars

(* run(AutoWatermark) leaves no fiber with a stack that is not watermarked, *)
(* whatever the ring looks like and whoever starts fibers meanwhile.        *)
THEOREM WatermarkCorrect == Spec => []WatermarkInv
<1>1. Init => WatermarkInv
  BY DEF Init, WatermarkInv, Running
<1> QED
  BY <1>1, RingInit, WatermarkStep, RingStep, PTL DEF Spec

(***************************************************************************)
(* Destruction.                                                            *)
(***************************************************************************)

(* Steps that touch neither joins nor object can only start usable tasks.   *)
LEMMA DanglingStep == TypeOK /\ NoDanglingTask /\ [Next]_vars => NoDanglingTask'
<1> SUFFICES ASSUME TypeOK, NoDanglingTask, [Next]_vars
             PROVE  NoDanglingTask'
  OBVIOUS
<1>0. /\ joins \in [Tasks -> Tasks \cup {NoTask}]
      /\ object \in [Tasks -> Lifetimes]
  BY DEF TypeOK
<1>1. ASSUME UNCHANGED << joins, object >>, stop \subseteq stop',
             \A t \in attached' : t \in attached \/ object[t] = "alive"
      PROVE  NoDanglingTask'
  <2>1. \A t \in Tasks : object[t] = "gone" => t \notin attached'
    BY <1>1 DEF NoDanglingTask
  <2> QED  BY <1>1, <2>1 DEF NoDanglingTask
<1>2. ASSUME NEW f \in Tasks, NEW t \in Tasks, JoinCall(f, t)
      PROVE  NoDanglingTask'
  <2>1. /\ joins' = [joins EXCEPT ![f] = t] /\ object[t] = "alive" /\ joins[f] = NoTask
        /\ UNCHANGED << object, stop, attached >>
    BY <1>2 DEF JoinCall, Usable, Executing, SwitchToNext
  <2>2. \A g, u \in Tasks : u # t => (joins'[g] = u <=> joins[g] = u)
    BY <1>0, <2>1, TasksAssumption
  <2>3. ASSUME NEW u \in Tasks, object[u] # "alive"
        PROVE  \A g \in Tasks : joins'[g] = u <=> joins[g] = u
    BY <2>1, <2>2, <2>3
  <2> QED  BY <2>1, <2>3 DEF NoDanglingTask
<1>3. ASSUME NEW f \in Tasks, NEW t \in Tasks, Destroy(f, t)
      PROVE  NoDanglingTask'
  <2>1. /\ object[t] = "alive" /\ joins[f] = NoTask /\ stop' = stop \cup {t} /\ t # f
        /\ \A g \in Tasks : joins[g] # t
    BY <1>3 DEF Destroy, Usable, Executing, StopWith
  <2>2. CASE Joinable(f, t)
    <3>1. /\ joins' = [joins EXCEPT ![f] = t]
          /\ object' = [object EXCEPT ![t] = "dying"]
          /\ attached' = attached
      BY <1>3, <2>2 DEF Destroy, SwitchToNext
    <3>2. joins'[f] = t /\ \A g \in Tasks : joins'[g] = t => g = f
      BY <1>0, <2>1, <3>1
    <3>3. \A g, u \in Tasks : u # t => (joins'[g] = u <=> joins[g] = u)
      BY <1>0, <2>1, <3>1, TasksAssumption
    <3>4. object'[t] = "dying" /\ \A u \in Tasks : u # t => object'[u] = object[u]
      BY <1>0, <3>1
    <3>5. ASSUME NEW u \in Tasks
          PROVE  /\ object'[u] = "gone" => u \notin attached' /\ \A g \in Tasks : joins'[g] # u
                 /\ object'[u] = "dying" =>
                      /\ u \in stop'
                      /\ \E g \in Tasks : joins'[g] = u /\ \A h \in Tasks : joins'[h] = u => h = g
      <4>1. CASE u = t
        BY <2>1, <3>2, <3>4, <4>1
      <4>2. CASE u # t
        BY <2>1, <3>1, <3>3, <3>4, <4>2 DEF NoDanglingTask
      <4> QED  BY <4>1, <4>2
    <3> QED  BY <3>5 DEF NoDanglingTask
  <2>3. CASE ~Joinable(f, t)
    <3>1. /\ object' = [object EXCEPT ![t] = "gone"]
          /\ UNCHANGED << joins, attached >>
          /\ t \notin attached
      BY <1>3, <2>1, <2>3 DEF Destroy, ringVars, Joinable
    <3> QED  BY <1>0, <2>1, <3>1 DEF NoDanglingTask
  <2> QED  BY <2>2, <2>3
<1>4. ASSUME NEW f \in Tasks, JoinPoll(f)
      PROVE  NoDanglingTask'
  <2>1. CASE Awaited(f)
    BY <1>1, <1>4, <2>1 DEF JoinPoll, SwitchToNext
  <2>2. CASE ~Awaited(f)
    <3> DEFINE t == joins[f]
    <3>1. /\ joins' = [joins EXCEPT ![f] = NoTask]
          /\ object' = [object EXCEPT ![t] = IF @ = "dying" THEN "gone" ELSE @]
          /\ UNCHANGED << stop, attached >>
          /\ t \notin attached /\ t \in Tasks
      BY <1>0, <1>4, <2>2 DEF JoinPoll, Awaited, ringVars
    <3>2. \A g, u \in Tasks : u # t => (joins'[g] = u <=> joins[g] = u)
      BY <1>0, <3>1, TasksAssumption
    <3>3. \A u \in Tasks : u # t => object'[u] = object[u]
      BY <1>0, <3>1
    <3>4. object[t] = "dying" => \A g \in Tasks : joins'[g] # t
      BY <1>0, <3>1, TasksAssumption DEF NoDanglingTask
    <3>5. object[t] # "gone"
      BY <3>1 DEF NoDanglingTask
    <3>6. ASSUME NEW u \in Tasks
          PROVE  /\ object'[u] = "gone" => u \notin attached' /\ \A g \in Tasks : joins'[g] # u
                 /\ object'[u] = "dying" =>
                      /\ u \in stop'
                      /\ \E g \in Tasks : joins'[g] = u /\ \A h \in Tasks : joins'[h] = u => h = g
      <4>1. CASE u = t
        BY <1>0, <3>1, <3>4, <3>5, <4>1
      <4>2. CASE u # t
        BY <3>1, <3>2, <3>3, <4>2 DEF NoDanglingTask
      <4> QED  BY <4>1, <4>2
    <3> QED  BY <3>6 DEF NoDanglingTask
  <2> QED  BY <2>1, <2>2
<1>5. ASSUME NEW f \in Tasks, Fiber(f)
      PROVE  NoDanglingTask'
  BY <1>1, <1>2, <1>3, <1>4, <1>5 DEF Fiber, Yield, Return, SwitchToNext
<1>6. ASSUME NEW t \in Tasks, StartTask(t) \/ RequestStop(t)
      PROVE  NoDanglingTask'
  BY <1>1, <1>6 DEF StartTask, RequestStop, StopWith, Usable, ringVars
<1>9. ASSUME NEW t \in Tasks, DestroyIdle(t)
      PROVE  NoDanglingTask'
  <2>1. /\ stop' = stop \cup {t}
        /\ object' = [object EXCEPT ![t] = "gone"]
        /\ t \notin attached /\ \A g \in Tasks : joins[g] # t
        /\ UNCHANGED << joins, attached >>
    BY <1>9 DEF DestroyIdle, StopWith, ringVars
  <2> QED  BY <1>0, <2>1 DEF NoDanglingTask
<1>7. ASSUME NEW watermark \in BOOLEAN, Run(watermark) \/ RunEmpty(watermark)
      PROVE  NoDanglingTask'
  BY <1>1, <1>7 DEF Run, RunEmpty, ringVars
<1>8. CASE UNCHANGED vars
  BY <1>1, <1>8 DEF vars, ringVars
<1> QED
  BY <1>5, <1>6, <1>7, <1>8, <1>9 DEF Next

(* A destroyed Task is out of the ring and nobody waits for it, for every   *)
(* number of tasks, provided its owner keeps the rules that Destroy states. *)
THEOREM DestructionCorrect == Spec => []NoDanglingTask
<1>1. Init => NoDanglingTask
  BY DEF Init, NoDanglingTask
<1>2. RingIInv => TypeOK
  BY DEF RingIInv
<1> QED
  BY <1>1, <1>2, RingInit, DanglingStep, RingStep, PTL DEF Spec

-----------------------------------------------------------------------------
(* Least elements and iterated functions.                                   *)

(* Every set of naturals has a least element.                               *)
LEMMA LeastExists ==
  ASSUME NEW S \in SUBSET Nat, S # {}
  PROVE  \E x \in S : \A y \in S : x <= y
<1> DEFINE R == OpToRel(<, Nat)
<1>1. \A x, y \in Nat : y < x => << y, x >> \in R
  BY DEF OpToRel
<1>2. IsWellFoundedOn(R, Nat)
  BY NatLessThanWellFounded
<1> HIDE DEF R
<1>3. PICK x \in S : \A y \in S : ~ (<< y, x >> \in R)
  BY <1>2, WFMin
<1>4. \A y \in S : ~ (y < x)
  BY <1>1, <1>3, Zenon
<1>5. \A y \in S : x <= y
  BY <1>4
<1> QED  BY <1>5

(* A function that iterates F from a on exists.                             *)
LEMMA Iteration ==
  ASSUME NEW P, NEW a \in P, NEW F \in [P -> P]
  PROVE  \E f \in [Nat -> P] :
           \A i \in Nat : f[i] = IF i <= 1 THEN a ELSE F[f[i - 1]]
<1> DEFINE Iterates(g, n) ==
      \A i \in 0..n : g[i] = IF i <= 1 THEN a ELSE F[g[i - 1]]
<1>1. \A n \in Nat : \E g \in [0..n -> P] : Iterates(g, n)
  <2> DEFINE S == {n \in Nat : ~ \E g \in [0..n -> P] : Iterates(g, n)}
  <2> SUFFICES ASSUME S # {} PROVE FALSE
    OBVIOUS
  <2>1. PICK n \in S : \A m \in S : n <= m
    BY LeastExists
  <2>2. CASE n = 0
    <3>1. [i \in 0..0 |-> a] \in [0..0 -> P] /\ Iterates([i \in 0..0 |-> a], 0)
      OBVIOUS
    <3> QED  BY <2>1, <2>2, <3>1
  <2>3. CASE n # 0
    <3>1. n - 1 \in Nat /\ n - 1 \notin S
      BY <2>1, <2>3
    <3>2. PICK g \in [0..(n - 1) -> P] : Iterates(g, n - 1)
      BY <3>1
    <3> DEFINE h == [i \in 0..n |->
                       IF i < n THEN g[i] ELSE IF n <= 1 THEN a ELSE F[g[n - 1]]]
    <3>3. h \in [0..n -> P]
      BY <3>1, <3>2
    <3>4. ASSUME NEW i \in 0..n
          PROVE  h[i] = IF i <= 1 THEN a ELSE F[h[i - 1]]
      <4>1. CASE i < n
        <5>1. i \in 0..(n - 1) /\ h[i] = g[i] /\ (i > 1 => h[i - 1] = g[i - 1])
          BY <4>1, <3>1
        <5> QED  BY <5>1, <3>2
      <4>2. CASE i = n
        <5>1. i > 1 => h[i - 1] = g[i - 1]
          BY <4>2, <3>1
        <5> QED  BY <5>1, <4>2, <3>1
      <4> QED  BY <4>1, <4>2
    <3>5. Iterates(h, n)
      BY <3>4
    <3> QED  BY <2>1, <3>3, <3>5
  <2> QED  BY <2>2, <2>3
<1>2. ASSUME NEW n \in Nat, NEW g \in [0..n -> P], NEW h \in [0..(n + 1) -> P],
             Iterates(g, n), Iterates(h, n + 1), NEW j \in 0..n, g[j] # h[j]
      PROVE  FALSE
  <2> DEFINE S == {i \in 0..n : g[i] # h[i]}
  <2>1. PICK i \in S : \A m \in S : i <= m
    <3>1. S \in SUBSET Nat /\ S # {}
      BY <1>2
    <3> QED  BY <3>1, LeastExists
  <2>2. CASE i <= 1
    BY <1>2, <2>1, <2>2
  <2>3. CASE i > 1
    <3>1. i - 1 \in 0..n /\ i - 1 \notin S
      BY <2>1, <2>3
    <3> QED  BY <1>2, <2>1, <2>3, <3>1
  <2> QED  BY <2>1, <2>2, <2>3
<1> DEFINE G(n) == CHOOSE g \in [0..n -> P] : Iterates(g, n)
<1>3. \A n \in Nat : G(n) \in [0..n -> P] /\ Iterates(G(n), n)
  BY <1>1
<1> DEFINE f == [n \in Nat |-> G(n)[n]]
<1> HIDE DEF G
<1>4. f \in [Nat -> P]
  BY <1>3
<1>5. ASSUME NEW i \in Nat
      PROVE  f[i] = IF i <= 1 THEN a ELSE F[f[i - 1]]
  <2>1. Iterates(G(i), i) /\ f[i] = G(i)[i]
    BY <1>3
  <2>2. CASE i <= 1
    BY <2>1, <2>2
  <2>3. CASE i > 1
    <3>1. PICK k \in Nat : i = k + 1
      BY <2>3
    <3>2. G(k)[k] = G(k + 1)[k]
      <4>1. /\ G(k) \in [0..k -> P] /\ Iterates(G(k), k)
            /\ G(k + 1) \in [0..(k + 1) -> P] /\ Iterates(G(k + 1), k + 1)
        BY <1>3
      <4> HIDE DEF Iterates
      <4> QED  BY <1>2, <4>1
    <3>3. f[i] = F[G(i)[i - 1]] /\ f[i - 1] = G(k)[k] /\ i - 1 = k
      BY <2>1, <2>3, <3>1
    <3> QED  BY <2>3, <3>1, <3>2, <3>3
  <2> QED  BY <2>2, <2>3
<1> HIDE DEF f
<1> QED  BY <1>4, <1>5

(* Position is what its definition says.                                    *)
LEMMA PositionStep ==
  ASSUME TypeOK, ~Empty
  PROVE  \A i \in Nat :
           Position[i] = IF i <= 1 THEN next[last] ELSE Follow(Position[i - 1])
<1> DEFINE F == [p \in Pointers |-> Follow(p)]
<1>1. F \in [Pointers -> Pointers] /\ next[last] \in Pointers
  BY DEF TypeOK, Follow, Empty
<1>2. PICK f \in [Nat -> Pointers] :
        \A i \in Nat : f[i] = IF i <= 1 THEN next[last] ELSE F[f[i - 1]]
  <2> DEFINE head == next[last]
  <2>1. F \in [Pointers -> Pointers] /\ head \in Pointers
    BY <1>1
  <2> HIDE DEF F, head
  <2>2. \E f \in [Nat -> Pointers] :
          \A i \in Nat : f[i] = IF i <= 1 THEN head ELSE F[f[i - 1]]
    BY <2>1, Iteration
  <2> QED  BY <2>2 DEF head
<1>3. ASSUME NEW i \in Nat
      PROVE  f[i] = IF i <= 1 THEN next[last] ELSE Follow(f[i - 1])
  <2>1. CASE i <= 1
    BY <1>2, <2>1
  <2>2. CASE i > 1
    <3>1. i - 1 \in Nat /\ f[i - 1] \in Pointers
      BY <2>2
    <3>2. F[f[i - 1]] = Follow(f[i - 1])
      BY <3>1
    <3> QED  BY <1>2, <2>2, <3>2
  <2> QED  BY <2>1, <2>2
<1>4. f = [i \in Nat |-> IF i <= 1 THEN next[last] ELSE Follow(f[i - 1])]
  <2> HIDE DEF F
  <2> QED  BY <1>2, <1>3
<1>5. Position = [i \in Nat |->
                    IF i <= 1 THEN next[last] ELSE Follow(Position[i - 1])]
  <2> HIDE DEF F
  <2> QED  BY <1>4 DEF Position
<1> QED  BY <1>5

-----------------------------------------------------------------------------
(* The ring as a queue.  q is the ring, read from last->next.                                     *)
Reads(q) ==
  /\ IsFiniteSet(attached)
  /\ q \in Seq(attached) /\ Len(q) = Cardinality(attached)
  /\ \A t \in attached : \E i \in 1..Len(q) : q[i] = t
  /\ \A i, j \in 1..Len(q) : q[i] = q[j] => i = j
  /\ q # << >> => q[1] = next[last] /\ q[Len(q)] = last
  /\ \A i \in 1..(Len(q) - 1) : next[q[i]] = q[i + 1]

LEMMA QueueIsRead ==
  ASSUME RingIInv, NEW q, Reads(q)
  PROVE  /\ RingAsQueue = q
         /\ q = << >> <=> Empty
<1> DEFINE n == Cardinality(attached)
<1>1. q \in Seq(attached) /\ Len(q) = n /\ n \in Nat /\ attached \subseteq Tasks
  BY FS_CardinalityType DEF Reads, RingIInv, TypeOK
<1>2. CASE Empty
  <2>1. attached = {}
    BY <1>2, TasksAssumption DEF RingIInv, RingInv, TypeOK, Empty
  <2>2. n = 0
    BY <2>1, FS_EmptySet
  <2>3. q = << >>
    BY <1>1, <2>2, EmptySeq
  <2> QED  BY <1>2, <2>3 DEF RingAsQueue
<1>3. CASE ~Empty
  <2>1. n # 0
    BY <1>3, FS_EmptySet DEF RingIInv, RingInv, Empty, Reads
  <2>2. q # << >> /\ 1 \in 1..n
    BY <1>1, <2>1, EmptySeq
  <2>3. \A i \in 1..n : Position[i] = q[i]
    <3> DEFINE S == {i \in 1..n : Position[i] # q[i]}
    <3> SUFFICES ASSUME S # {} PROVE FALSE
      OBVIOUS
    <3>1. PICK i \in S : \A m \in S : i <= m
      <4>1. S \in SUBSET Nat
        BY <1>1
      <4> QED  BY <4>1, LeastExists
    <3>2. i \in 1..n /\ i \in Nat /\ Position[i] # q[i]
      BY <1>1, <3>1
    <3>3. Position[i] = IF i <= 1 THEN next[last] ELSE Follow(Position[i - 1])
      BY <1>3, <3>2, PositionStep DEF RingIInv
    <3>4. CASE i = 1
      BY <3>2, <3>3, <3>4, <2>2 DEF Reads
    <3>5. CASE i > 1
      <4>1. i - 1 \in 1..(n - 1) /\ i - 1 \in 1..n /\ i - 1 \notin S
        BY <1>1, <3>1, <3>2, <3>5
      <4>2. Position[i - 1] = q[i - 1]
        BY <4>1
      <4>3. q[i - 1] \in Tasks
        BY <1>1, <4>1, ElementOfSeq
      <4>4. next[q[i - 1]] = q[(i - 1) + 1] /\ (i - 1) + 1 = i
        BY <1>1, <3>2, <4>1 DEF Reads
      <4> QED  BY <3>2, <3>3, <3>5, <4>2, <4>3, <4>4 DEF Follow
    <3> QED  BY <1>1, <3>2, <3>4, <3>5
  <2>4. q = [i \in 1..n |-> q[i]]
    BY <1>1, LenProperties
  <2>5. RingAsQueue = [i \in 1..n |-> Position[i]]
    BY <1>3 DEF RingAsQueue
  <2>6. RingAsQueue = q
    BY <2>3, <2>4, <2>5
  <2> QED  BY <1>3, <2>2, <2>6
<1> QED  BY <1>2, <1>3

(* The abstract queue is the ring as it is read.                            *)
QueueReadOff ==
  \A q : RingIInv /\ Reads(q) => RingAsQueue = q /\ (q = << >> <=> Empty)

LEMMA QueueIsReadOff == QueueReadOff
BY QueueIsRead DEF QueueReadOff

LEMMA NextQueueIsRead ==
  ASSUME RingIInv', NEW q, Reads(q)'
  PROVE  RingAsQueue' = q /\ (q = << >> <=> Empty')
<1>1. QueueReadOff'
  BY QueueIsReadOff, PTL
<1> QED  BY <1>1 DEF QueueReadOff

(* yield(): the head goes to the back.                                      *)
LEMMA SwitchRotates ==
  ASSUME RingIInv, NEW q, Reads(q), NEW f \in Tasks, current = f, SwitchToNext(f)
  PROVE  q # << >> /\ Reads(Append(Tail(q), Head(q)))'
<1>1. /\ f \in attached /\ f = next[last] /\ next[f] \in attached
      /\ last' = f /\ next' = next /\ attached' = attached
  BY CurrentIsAttached DEF SwitchToNext
<1>2. /\ q \in Seq(attached) /\ IsFiniteSet(attached)
      /\ Len(q) = Cardinality(attached) /\ Len(q) \in Nat
  BY FS_CardinalityType DEF Reads
<1>3. q # << >> /\ Len(q) > 0
  BY <1>1, <1>2, EmptySeq DEF Reads
<1>4. q[1] = f /\ q[Len(q)] = last
  BY <1>1, <1>3 DEF Reads
<1> DEFINE n == Len(q)
<1>5. PICK r : r = Append(Tail(q), Head(q))
  OBVIOUS
<1>6. /\ r \in Seq(attached) /\ Len(r) = n /\ r # << >> /\ r[n] = f
      /\ \A i \in 1..(n - 1) : r[i] = q[i + 1]
  <2>1. /\ Head(q) = q[1] /\ Head(q) \in attached
        /\ Tail(q) \in Seq(attached) /\ Len(Tail(q)) = n - 1
        /\ \A i \in 1..(n - 1) : Tail(q)[i] = q[i + 1]
    BY <1>2, <1>3, HeadTailProperties
  <2>2. /\ r \in Seq(attached) /\ Len(r) = (n - 1) + 1 /\ r # << >>
        /\ r[(n - 1) + 1] = Head(q)
        /\ \A i \in 1..(n - 1) : r[i] = Tail(q)[i]
    BY <1>5, <2>1, AppendProperties
  <2>3. (n - 1) + 1 = n
    BY <1>2
  <2> QED  BY <1>4, <2>1, <2>2, <2>3
<1>7. ASSUME NEW t \in attached
      PROVE  \E i \in 1..n : r[i] = t
  <2>1. PICK i \in 1..n : q[i] = t
    BY DEF Reads
  <2>2. CASE i = 1
    BY <1>2, <1>3, <1>4, <1>6, <2>1, <2>2
  <2>3. CASE i # 1
    <3>1. i - 1 \in 1..(n - 1) /\ i - 1 \in 1..n /\ (i - 1) + 1 = i
      BY <1>2, <2>1, <2>3
    <3> QED  BY <1>6, <2>1, <3>1
  <2> QED  BY <2>2, <2>3
<1>8. r[1] = next[f]
  <2>1. CASE n = 1
    BY <1>1, <1>4, <1>6, <2>1
  <2>2. CASE n # 1
    <3>1. 1 \in 1..(n - 1)
      BY <1>2, <1>3, <2>2
    <3>2. next[q[1]] = q[1 + 1] /\ r[1] = q[1 + 1]
      BY <1>6, <3>1 DEF Reads
    <3> QED  BY <1>4, <3>2
  <2> QED  BY <2>1, <2>2
<1>9. ASSUME NEW i \in 1..(n - 1)
      PROVE  next[r[i]] = r[i + 1]
  <2>1. r[i] = q[i + 1]
    BY <1>6
  <2>2. CASE i = n - 1
    BY <1>1, <1>2, <1>4, <1>6, <2>1, <2>2
  <2>3. CASE i # n - 1
    <3>1. i + 1 \in 1..(n - 1)
      BY <1>2, <2>3
    <3>2. next[q[i + 1]] = q[(i + 1) + 1] /\ r[i + 1] = q[(i + 1) + 1]
      BY <1>6, <3>1 DEF Reads
    <3> QED  BY <2>1, <3>2
  <2> QED  BY <2>2, <2>3
<1>10. ASSUME NEW i \in 1..n, NEW j \in 1..n, r[i] = r[j]
       PROVE  i = j
  <2> DEFINE from(k) == IF k = n THEN 1 ELSE k + 1
  <2>1. ASSUME NEW k \in 1..n
        PROVE  from(k) \in 1..n /\ r[k] = q[from(k)]
    <3>1. CASE k = n
      BY <1>2, <1>3, <1>4, <1>6, <3>1
    <3>2. CASE k # n
      <4>1. k \in 1..(n - 1) /\ k + 1 \in 1..n
        BY <1>2, <3>2
      <4> QED  BY <1>6, <3>2, <4>1
    <3> QED  BY <3>1, <3>2
  <2>2. q[from(i)] = q[from(j)] /\ from(i) \in 1..n /\ from(j) \in 1..n
    BY <1>10, <2>1
  <2>3. from(i) = from(j)
    <3> HIDE DEF from
    <3> QED  BY <2>2 DEF Reads
  <2> QED  BY <1>2, <2>3
<1>11. Reads(r)'
  BY <1>1, <1>2, <1>6, <1>7, <1>8, <1>9, <1>10 DEF Reads
<1> QED  BY <1>3, <1>5, <1>11

(* add(): the task joins at the back.                                       *)
LEMMA AddAppends ==
  ASSUME RingIInv, NEW q, Reads(q), NEW t \in Tasks, t \notin attached, AddLast(t),
         attached' = attached \cup {t}
  PROVE  Reads(Append(q, t))'
<1>1. /\ q \in Seq(attached) /\ IsFiniteSet(attached)
      /\ Len(q) = Cardinality(attached) /\ Len(q) \in Nat
      /\ attached \subseteq Tasks /\ next \in [Tasks -> Pointers]
  BY FS_CardinalityType DEF Reads, RingIInv, TypeOK
<1> DEFINE n == Len(q)
<1>2. PICK r : r = Append(q, t)
  OBVIOUS
<1>3. q \in Seq(attached')
  BY <1>1, SeqMonotonic
<1>4. /\ r \in Seq(attached') /\ Len(r) = n + 1 /\ r # << >> /\ r[n + 1] = t
      /\ \A i \in 1..n : r[i] = q[i]
  <2>1. t \in attached'
    OBVIOUS
  <2> QED  BY <1>2, <1>3, <2>1, AppendProperties
<1>5. IsFiniteSet(attached') /\ Cardinality(attached') = n + 1
  BY <1>1, FS_AddElement
<1>6. \A u \in attached' : \E i \in 1..(n + 1) : r[i] = u
  <2>1. ASSUME NEW u \in attached
        PROVE  \E i \in 1..(n + 1) : r[i] = u
    <3>1. PICK i \in 1..n : q[i] = u
      BY DEF Reads
    <3>2. i \in 1..(n + 1) /\ r[i] = q[i]
      BY <1>1, <1>4
    <3> QED  BY <3>1, <3>2
  <2>2. n + 1 \in 1..(n + 1)
    BY <1>1
  <2> QED  BY <1>4, <2>1, <2>2
<1>7. ASSUME NEW i \in 1..(n + 1), NEW j \in 1..(n + 1), r[i] = r[j]
      PROVE  i = j
  <2>1. \A k \in 1..(n + 1) : k = n + 1 \/ k \in 1..n
    BY <1>1
  <2>2. \A k \in 1..n : r[k] = q[k] /\ q[k] \in attached
    BY <1>1, <1>4, ElementOfSeq
  <2>3. r[n + 1] \notin attached
    BY <1>4
  <2>4. CASE i = n + 1 \/ j = n + 1
    BY <1>7, <2>1, <2>2, <2>3, <2>4
  <2>5. CASE i \in 1..n /\ j \in 1..n
    BY <1>7, <2>2, <2>5 DEF Reads
  <2> QED  BY <2>1, <2>4, <2>5
<1>8. CASE Empty
  <2>1. n = 0
    BY <1>8, QueueIsRead, EmptySeq, <1>1
  <2>2. last' = t /\ next'[t] = t
    BY <1>1, <1>8 DEF AddLast
  <2>3. r[1] = t
    BY <1>4, <2>1
  <2>4. 1..((n + 1) - 1) = {} /\ n + 1 = 1
    BY <2>1
  <2>5. Reads(r)'
    BY <1>4, <1>5, <1>6, <1>7, <2>2, <2>3, <2>4 DEF Reads
  <2> QED  BY <1>2, <2>5
<1>9. CASE ~Empty
  <2>1. last \in attached /\ last \in Tasks /\ last # t
    BY <1>1, <1>9 DEF RingIInv, RingInv, Empty
  <2>2. /\ last' = t
        /\ next'[t] = next[last] /\ next'[last] = t
        /\ \A u \in attached \ {last} : next'[u] = next[u]
    BY <1>1, <1>9, <2>1 DEF AddLast
  <2>3. q # << >> /\ n > 0 /\ q[1] = next[last] /\ q[n] = last
    <3>1. q # << >>
      BY <1>9, QueueIsRead
    <3>2. n > 0
      BY <1>1, <3>1, EmptySeq
    <3> QED  BY <3>1, <3>2 DEF Reads
  <2>4. r[1] = next'[last']
    BY <1>1, <1>4, <2>2, <2>3
  <2>5. ASSUME NEW i \in 1..n
        PROVE  next'[r[i]] = r[i + 1]
    <3>1. r[i] = q[i] /\ q[i] \in attached
      BY <1>1, <1>4, ElementOfSeq
    <3>2. CASE i = n
      BY <1>1, <1>4, <2>2, <2>3, <3>1, <3>2
    <3>3. CASE i # n
      <4>1. i \in 1..(n - 1) /\ i + 1 \in 1..n
        BY <1>1, <3>3
      <4>2. next[q[i]] = q[i + 1]
        BY <4>1 DEF Reads
      <4>3. q[i] # last
        BY <1>1, <2>3, <3>3 DEF Reads
      <4> QED  BY <1>4, <2>2, <3>1, <4>1, <4>2, <4>3
    <3> QED  BY <3>2, <3>3
  <2>6. Reads(r)'
    BY <1>1, <1>4, <1>5, <1>6, <1>7, <2>2, <2>4, <2>5 DEF Reads
  <2> QED  BY <1>2, <2>6
<1> QED  BY <1>8, <1>9

(* unschedule(): the head leaves.                                           *)
LEMMA ReturnTakesHead ==
  ASSUME RingIInv, NEW q, Reads(q), NEW f \in Tasks, Return(f)
  PROVE  q # << >> /\ Reads(Tail(q))' /\ (Running' <=> Tail(q) # << >>)
<1>1. /\ current = f /\ f \in attached /\ f = next[last]
      /\ next[f] \in attached /\ last \in attached
      /\ attached \subseteq Tasks /\ next \in [Tasks -> Pointers]
      /\ attached' = attached \ {f}
  BY CurrentIsAttached DEF Return, Executing, RingIInv, TypeOK
<1>2. /\ q \in Seq(attached) /\ IsFiniteSet(attached)
      /\ Len(q) = Cardinality(attached) /\ Len(q) \in Nat
  BY FS_CardinalityType DEF Reads
<1>3. q # << >> /\ Len(q) > 0
  BY <1>1, <1>2, EmptySeq DEF Reads
<1>4. q[1] = f /\ q[Len(q)] = last
  BY <1>1, <1>3 DEF Reads
<1> DEFINE n == Len(q)
<1>5. PICK r : r = Tail(q)
  OBVIOUS
<1>6. /\ r \in Seq(attached) /\ Len(r) = n - 1
      /\ \A i \in 1..(n - 1) : r[i] = q[i + 1]
  BY <1>2, <1>3, <1>5, HeadTailProperties
<1>7. \A i \in 1..(n - 1) : i + 1 \in 1..n /\ r[i] # f
  <2> SUFFICES ASSUME NEW i \in 1..(n - 1) PROVE i + 1 \in 1..n /\ r[i] # f
    OBVIOUS
  <2>1. i + 1 \in 1..n /\ 1 \in 1..n /\ i + 1 # 1
    BY <1>2
  <2> QED  BY <1>4, <1>6, <2>1 DEF Reads
<1>8. r \in Seq(attached')
  <2>1. \A i \in 1..(n - 1) : r[i] \in attached'
    BY <1>1, <1>6, <1>7, ElementOfSeq
  <2>2. r \in [1..(n - 1) -> attached']
    BY <1>6, <2>1, LenProperties
  <2>3. n - 1 \in Nat
    BY <1>2, <1>3
  <2> QED  BY <2>2, <2>3, SeqDef
<1>9. IsFiniteSet(attached') /\ Cardinality(attached') = n - 1
  BY <1>1, <1>2, FS_RemoveElement
<1>10. ASSUME NEW t \in attached'
       PROVE  \E i \in 1..(n - 1) : r[i] = t
  <2>1. PICK i \in 1..n : q[i] = t
    BY <1>1 DEF Reads
  <2>2. i # 1
    BY <1>1, <1>4, <2>1
  <2>3. i - 1 \in 1..(n - 1) /\ (i - 1) + 1 = i
    BY <1>2, <2>1, <2>2
  <2> QED  BY <1>6, <2>1, <2>3
<1>11. ASSUME NEW i \in 1..(n - 1), NEW j \in 1..(n - 1), r[i] = r[j]
       PROVE  i = j
  <2>1. q[i + 1] = q[j + 1] /\ i + 1 \in 1..n /\ j + 1 \in 1..n
    BY <1>6, <1>7, <1>11
  <2>2. i + 1 = j + 1
    BY <2>1 DEF Reads
  <2> QED  BY <1>2, <2>2
<1>12. n = 1 <=> f = last
  <2>1. 1 \in 1..n /\ n \in 1..n
    BY <1>2, <1>3
  <2> QED  BY <1>4, <2>1 DEF Reads
<1>13. CASE f = last
  <2>1. n = 1 /\ r = << >>
    <3>1. n = 1 /\ n - 1 = 0
      BY <1>12, <1>13
    <3>2. Len(r) = 0
      BY <1>6, <3>1
    <3> QED  BY <1>6, <3>1, <3>2, EmptySeq
  <2>2. current' = NoTask
    BY <1>13 DEF Return
  <2>3. 1..((n - 1) - 1) = {}
    BY <2>1
  <2>4. Reads(r)'
    BY <1>6, <1>8, <1>9, <1>10, <1>11, <2>1, <2>3 DEF Reads
  <2> QED  BY <1>3, <1>5, <2>1, <2>2, <2>4 DEF Running
<1>14. CASE f # last
  <2>1. n > 1 /\ n - 1 \in 1..(n - 1) /\ 1 \in 1..(n - 1)
    BY <1>2, <1>3, <1>12, <1>14
  <2>2. /\ last' = last /\ current' = next[f]
        /\ next' = [next EXCEPT ![last] = next[f], ![f] = NoTask]
    BY <1>14 DEF Return, LastWithout, NextWithout
  <2>3. /\ next'[last] = next[f]
        /\ \A u \in attached' \ {last} : next'[u] = next[u]
    BY <1>1, <1>14, <2>2
  <2>4. Running' /\ r # << >>
    BY <1>1, <1>6, <2>1, <2>2, EmptySeq, TasksAssumption DEF Running
  <2>5. r[n - 1] = last
    <3>1. (n - 1) + 1 = n
      BY <1>2
    <3> QED  BY <1>4, <1>6, <2>1, <3>1
  <2>6. r[1] = next'[last']
    <3>1. 1 \in 1..(Len(q) - 1)
      BY <2>1
    <3>2. next[q[1]] = q[1 + 1]
      BY <3>1 DEF Reads
    <3> QED  BY <1>4, <1>6, <2>1, <2>2, <2>3, <3>2
  <2>7. ASSUME NEW i \in 1..((n - 1) - 1)
        PROVE  next'[r[i]] = r[i + 1]
    <3>1. i \in 1..(n - 1) /\ i + 1 \in 1..(n - 1) /\ i # n - 1
      BY <1>2, <2>1
    <3>2. r[i] # last
      BY <1>11, <2>1, <2>5, <3>1
    <3>3. r[i] \in attached'
      BY <1>6, <1>8, <3>1, ElementOfSeq
    <3>4. next[q[i + 1]] = q[(i + 1) + 1]
      BY <3>1 DEF Reads
    <3> QED  BY <1>6, <2>3, <3>1, <3>2, <3>3, <3>4
  <2>8. Reads(r)'
    BY <1>6, <1>8, <1>9, <1>10, <1>11, <2>2, <2>4, <2>5, <2>6, <2>7 DEF Reads
  <2> QED  BY <1>3, <1>5, <2>4, <2>8
<1> QED  BY <1>13, <1>14

LEMMA ReadsUnchanged ==
  ASSUME NEW q, Reads(q), UNCHANGED << last, next, attached >>
  PROVE  Reads(q)'
BY DEF Reads

-----------------------------------------------------------------------------
(* The refinement.  What a step may do to the queue that the ring is read   *)
(* as: nothing, Enter, Rotate, Leave or Add.                                *)
Moves(q) ==
  \E r :
    /\ Reads(r)'
    /\ \/ r = q /\ Running' = Running
       \/ r = q /\ q # << >> /\ ~Running /\ Running'
       \/ r = Append(Tail(q), Head(q)) /\ Running /\ Running'
       \/ r = Tail(q) /\ Running /\ (Running' <=> r # << >>)
       \/ \E t \in Tasks : t \notin attached /\ r = Append(q, t)
                           /\ Running' = Running

LEMMA EveryStepMoves ==
  ASSUME RingIInv, NEW q, Reads(q), [Next]_vars
  PROVE  Moves(q)
<1>1. ASSUME UNCHANGED << last, current, next, attached >>
      PROVE  Moves(q)
  <2>1. Reads(q)' /\ Running' = Running
    BY <1>1, ReadsUnchanged DEF Running
  <2> QED  BY <2>1 DEF Moves
<1>2. ASSUME NEW f \in Tasks, current = f, SwitchToNext(f)
      PROVE  Moves(q)
  <2>1. Reads(Append(Tail(q), Head(q)))'
    BY <1>2, SwitchRotates
  <2>2. current' \in Tasks /\ current \in Tasks
    BY <1>2, CurrentIsAttached DEF SwitchToNext, Jump
  <2>3. Running /\ Running'
    BY <2>2, TasksAssumption DEF Running
  <2> QED  BY <2>1, <2>3 DEF Moves
<1>3. ASSUME NEW watermark \in BOOLEAN, Run(watermark)
      PROVE  Moves(q)
  <2>1. Reads(q)' /\ ~Running /\ q # << >>
    BY <1>3, ReadsUnchanged, QueueIsRead DEF Run
  <2>2. next[last] \in Tasks /\ current' = next[last]
    BY <1>3 DEF RingIInv, RingInv, TypeOK, Run, Jump, Empty
  <2>3. Running'
    BY <2>2, TasksAssumption DEF Running
  <2> QED  BY <2>1, <2>3 DEF Moves
<1>4. ASSUME NEW f \in Tasks, Return(f)
      PROVE  Moves(q)
  <2>1. Reads(Tail(q))' /\ (Running' <=> Tail(q) # << >>)
    BY <1>4, ReturnTakesHead
  <2>2. Running
    BY <1>4, TasksAssumption DEF Return, Executing, Running
  <2> QED  BY <2>1, <2>2 DEF Moves
<1>5. ASSUME NEW t \in Tasks, StartTask(t)
      PROVE  Moves(q)
  <2>1. Reads(Append(q, t))' /\ t \notin attached
    BY <1>5, AddAppends DEF StartTask
  <2>2. Running' = Running
    BY <1>5 DEF StartTask, Running
  <2> QED  BY <2>1, <2>2 DEF Moves
<1>6. ASSUME NEW f \in Tasks, NEW t \in Tasks, Destroy(f, t)
      PROVE  Moves(q)
  <2>1. current = f /\ (SwitchToNext(f) \/ UNCHANGED ringVars)
    BY <1>6 DEF Destroy, Executing
  <2> QED  BY <1>1, <1>2, <2>1 DEF ringVars
<1>7. ASSUME NEW f \in Tasks, JoinPoll(f)
      PROVE  Moves(q)
  <2>1. current = f /\ (SwitchToNext(f) \/ UNCHANGED ringVars)
    BY <1>7 DEF JoinPoll
  <2> QED  BY <1>1, <1>2, <2>1 DEF ringVars
<1>8. ASSUME NEW f \in Tasks, Fiber(f)
      PROVE  Moves(q)
  <2>1. CASE Yield(f)
    BY <1>2, <2>1 DEF Yield, Executing
  <2>2. CASE \E t \in Tasks : JoinCall(f, t)
    BY <1>2, <2>2 DEF JoinCall, Executing
  <2> QED  BY <1>4, <1>6, <1>7, <1>8, <2>1, <2>2 DEF Fiber
<1>9. ASSUME NEW watermark \in BOOLEAN, RunEmpty(watermark)
      PROVE  Moves(q)
  BY <1>1, <1>9 DEF RunEmpty, ringVars
<1>10. ASSUME NEW t \in Tasks, RequestStop(t) \/ DestroyIdle(t)
       PROVE  Moves(q)
  BY <1>1, <1>10 DEF RequestStop, DestroyIdle, ringVars
<1>11. CASE UNCHANGED vars
  BY <1>1, <1>11 DEF vars, ringVars
<1>12. CASE Next
  BY <1>3, <1>5, <1>8, <1>9, <1>10, <1>12 DEF Next
<1> QED  BY <1>11, <1>12

(* There is a queue to be read.                                             *)
QueueInv == \E q : Reads(q)

LEMMA QueueInit == Init => QueueInv /\ RR!RRInit
<1> SUFFICES ASSUME Init PROVE QueueInv /\ RR!RRInit
  OBVIOUS
<1>1. IsFiniteSet(attached) /\ Cardinality(attached) = 0 /\ attached = {}
  BY FS_EmptySet DEF Init
<1>2. Reads(<< >>)
  <2>1. << >> \in Seq(attached) /\ Len(<< >>) = 0
    OBVIOUS
  <2> QED  BY <1>1, <2>1 DEF Reads
<1>3. RingAsQueue = << >> /\ ~Running
  BY DEF Init, RingAsQueue, Empty, Running
<1> QED  BY <1>2, <1>3 DEF QueueInv, RR!RRInit

LEMMA QueueStep == RingIInv /\ QueueInv /\ [Next]_vars => QueueInv'
BY EveryStepMoves DEF QueueInv, Moves

LEMMA StepRefines ==
  ASSUME RingIInv, RingIInv', QueueInv, [Next]_vars
  PROVE  [RR!RRNext]_(RR!rrVars)
<1>1. PICK q : Reads(q)
  BY DEF QueueInv
<1>2. PICK r :
        /\ Reads(r)'
        /\ \/ r = q /\ Running' = Running
           \/ r = q /\ q # << >> /\ ~Running /\ Running'
           \/ r = Append(Tail(q), Head(q)) /\ Running /\ Running'
           \/ r = Tail(q) /\ Running /\ (Running' <=> r # << >>)
           \/ \E t \in Tasks : t \notin attached /\ r = Append(q, t)
                               /\ Running' = Running
  BY <1>1, EveryStepMoves DEF Moves
<1>3. RingAsQueue = q /\ RingAsQueue' = r
  BY <1>1, <1>2, QueueIsRead, NextQueueIsRead
<1>4. {q[i] : i \in DOMAIN q} = attached
  <2>1. q \in Seq(attached) /\ DOMAIN q = 1..Len(q)
    BY <1>1, LenProperties DEF Reads
  <2>2. \A i \in 1..Len(q) : q[i] \in attached
    BY <2>1, ElementOfSeq
  <2> QED  BY <1>1, <2>1, <2>2 DEF Reads
<1>5. CASE r = q /\ Running' = Running
  BY <1>3, <1>5 DEF RR!rrVars
<1>6. CASE r = q /\ q # << >> /\ ~Running /\ Running'
  <2>1. RR!Enter
    BY <1>3, <1>6 DEF RR!Enter
  <2> QED  BY <2>1 DEF RR!RRNext
<1>7. CASE r = Append(Tail(q), Head(q)) /\ Running /\ Running'
  <2>1. RR!Rotate
    BY <1>3, <1>7 DEF RR!Rotate
  <2> QED  BY <2>1 DEF RR!RRNext
<1>8. CASE r = Tail(q) /\ Running /\ (Running' <=> r # << >>)
  <2>1. RR!Leave
    BY <1>3, <1>8 DEF RR!Leave, Running
  <2> QED  BY <2>1 DEF RR!RRNext
<1>9. ASSUME NEW t \in Tasks, t \notin attached, r = Append(q, t),
             Running' = Running
      PROVE  RR!RRNext
  <2>1. RR!Add(t)
    BY <1>3, <1>4, <1>9 DEF RR!Add, RR!Queued
  <2> QED  BY <2>1 DEF RR!RRNext
<1> QED  BY <1>2, <1>5, <1>6, <1>7, <1>8, <1>9

(* For every set of tasks the intrusive ring is a run queue in round-robin  *)
(* order: a fiber that yields goes behind all the others, also behind those *)
(* that were started meanwhile, and no operation changes the order.         *)
THEOREM RingIsRoundRobin == Spec => RR!RRInit /\ [][RR!RRNext]_(RR!rrVars)
<1>1. Init => RingIInv /\ QueueInv /\ RR!RRInit
  BY RingInit, QueueInit
<1>2. RingIInv /\ QueueInv /\ [Next]_vars => RingIInv' /\ QueueInv'
  BY RingStep, QueueStep
<1>3. RingIInv /\ RingIInv' /\ QueueInv /\ [Next]_vars => [RR!RRNext]_(RR!rrVars)
  BY StepRefines
<1> QED  BY <1>1, <1>2, <1>3, PTL DEF Spec
=============================================================================
