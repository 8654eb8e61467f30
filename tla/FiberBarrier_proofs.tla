----------------------- MODULE FiberBarrier_proofs -------------------------
(***************************************************************************)
(* What the barrier guarantees for every number of fibers.                 *)
(***************************************************************************)
EXTENDS FiberBarrier, FiniteSetTheorems, TLAPS

(* A fiber that has arrived has the token of this phase, and one that has   *)
(* the token of the phase before has not.  Tokens are never older, because  *)
(* no phase ends without each member: that makes the wrap-around harmless.  *)
Tokens ==
  \A f \in Fibers :
    /\ f \in arrived => token[f] = sequence
    /\ token[f] # NoToken => f \in members
    /\ token[f] = sequence => f \in arrived

IInv == TypeOK /\ CountsMissing /\ Tokens

LEMMA Finite ==
  ASSUME TypeOK
  PROVE  /\ IsFiniteSet(members) /\ IsFiniteSet(members \ arrived)
         /\ Cardinality(members) \in 0..Cardinality(Fibers)
         /\ Cardinality(members \ arrived) \in 0..Cardinality(Fibers)
<1>1. members \in SUBSET Fibers /\ members \ arrived \in SUBSET Fibers
  BY DEF TypeOK
<1>2. /\ IsFiniteSet(members) /\ Cardinality(members) <= Cardinality(Fibers)
      /\ IsFiniteSet(members \ arrived)
      /\ Cardinality(members \ arrived) <= Cardinality(Fibers)
  BY <1>1, FS_Subset, BarrierAssumption
<1>3. Cardinality(Fibers) \in Nat
  BY FS_CardinalityType, BarrierAssumption
<1>4. Cardinality(members) \in Nat /\ Cardinality(members \ arrived) \in Nat
  BY <1>2, FS_CardinalityType
<1> QED  BY <1>2, <1>3, <1>4

LEMMA InitIInv == Init => IInv
<1> SUFFICES ASSUME Init
             PROVE  IInv
  OBVIOUS
<1>1. Cardinality(Fibers) \in Nat
  BY FS_CardinalityType, BarrierAssumption
<1>2. members \ arrived = Fibers
  BY DEF Init
<1>3. TypeOK
  BY <1>1, BarrierAssumption DEF Init, TypeOK, Places
<1>4. CountsMissing
  BY <1>2 DEF Init, CountsMissing
<1>5. Tokens
  BY BarrierAssumption DEF Init, Tokens
<1> QED  BY <1>3, <1>4, <1>5 DEF IInv

(* The sequence stays in its range, and a step changes it.                  *)
LEMMA NextSequence ==
  ASSUME NEW s \in 0..(Sequences - 1)
  PROVE  (s + 1) % Sequences \in 0..(Sequences - 1) /\ (s + 1) % Sequences # s
<1>1. CASE s + 1 < Sequences
  <2>1. (s + 1) % Sequences = s + 1
    BY <1>1, BarrierAssumption
  <2> QED  BY <1>1, <2>1, BarrierAssumption
<1>2. CASE s + 1 = Sequences
  <2>1. Sequences % Sequences = 0
    BY BarrierAssumption
  <2> QED  BY <1>2, <2>1, BarrierAssumption
<1> QED  BY <1>1, <1>2, BarrierAssumption

(* arrive() tells the last fiber of a phase by the count.                   *)
LEMMA CompletesIffLast ==
  ASSUME IInv, NEW f \in members \ arrived
  PROVE  /\ Completes <=> members \ arrived = {f}
         /\ count >= 1 /\ expected >= 1
         /\ Cardinality((members \ arrived) \ {f}) = count - 1
         /\ Cardinality(members \ {f}) = expected - 1
<1>1. IsFiniteSet(members) /\ IsFiniteSet(members \ arrived)
  BY Finite DEF IInv
<1>2. /\ Cardinality((members \ arrived) \ {f}) = count - 1
      /\ Cardinality(members \ {f}) = expected - 1
  BY <1>1, FS_RemoveElement DEF IInv, CountsMissing
<1>3. /\ Cardinality((members \ arrived) \ {f}) \in Nat
      /\ Cardinality(members \ {f}) \in Nat
  BY <1>1, FS_RemoveElement, FS_CardinalityType
<1>4. (members \ arrived) \ {f} = {} <=> count - 1 = 0
  BY <1>1, <1>2, FS_RemoveElement, FS_EmptySet
<1>5. count \in Int /\ expected \in Int
  BY DEF IInv, TypeOK
<1> QED  BY <1>2, <1>3, <1>4, <1>5 DEF Completes

(* An arrival, with the parties of the next phase.                          *)
LEMMA ArriveStep ==
  ASSUME IInv, NEW f \in Fibers, NEW place \in {"running", "waiting"},
         ArriveAndStay(f, place) \/ ArriveAndDrop(f)
  PROVE  IInv'
<1>0. PICK parties, rest, mine, back :
        /\ Arrive(f, parties, rest, back)
        /\ \/ rest = members /\ parties = expected /\ mine = sequence
           \/ rest = members \ {f} /\ parties = expected - 1 /\ mine = NoToken
        /\ back \in {"running", "waiting"}
        /\ token' = [token EXCEPT ![f] = mine]
  <2>1. CASE ArriveAndStay(f, place)
    <3> WITNESS expected, members, sequence, place
    <3> QED  BY <2>1 DEF ArriveAndStay
  <2>2. CASE ArriveAndDrop(f)
    <3>1. f \in members \ arrived
      BY <2>2 DEF ArriveAndDrop, Arrive
    <3>2. /\ expected \in 0..Cardinality(Fibers) /\ Cardinality(Fibers) \in Nat
          /\ expected >= 1
      BY <3>1, CompletesIffLast, FS_CardinalityType, BarrierAssumption DEF IInv, TypeOK
    <3>3. ExpectedWithout = expected - 1
      BY <3>2 DEF ExpectedWithout
    <3> WITNESS expected - 1, members \ {f}, NoToken, "running"
    <3> QED  BY <2>2, <3>3 DEF ArriveAndDrop
  <2> QED  BY <2>1, <2>2
<1>1. /\ f \in members \ arrived
      /\ members \in SUBSET Fibers /\ arrived \in SUBSET members
      /\ sequence \in 0..(Sequences - 1)
      /\ NoToken \notin 0..(Sequences - 1)
      /\ token \in [Fibers -> 0..(Sequences - 1) \cup {NoToken}]
  BY <1>0, BarrierAssumption DEF Arrive, IInv, TypeOK
<1>2. /\ token'[f] = mine
      /\ \A g \in Fibers : g # f => token'[g] = token[g]
      /\ token' \in [Fibers -> 0..(Sequences - 1) \cup {NoToken}]
  BY <1>0, <1>1
<1>3. Cardinality(rest) = parties /\ rest \in SUBSET Fibers /\ members \ {f} \subseteq rest
  BY <1>0, <1>1, CompletesIffLast DEF IInv, CountsMissing
<1>4. /\ pc' \in [Fibers -> Places]
      /\ after' \in [Fibers -> {"running", "waiting"}]
      /\ turn' \in Fibers
  BY <1>0 DEF Arrive, IInv, TypeOK, Places
<1>5. /\ expected' = parties /\ members' = rest
      /\ arrived' = IF members \ arrived = {f} THEN {} ELSE (arrived \cup {f}) \cap rest
  BY <1>0 DEF Arrive
<1>6. /\ Cardinality(Fibers) \in Nat
      /\ expected \in 0..Cardinality(Fibers) /\ count \in 0..Cardinality(Fibers)
      /\ expected >= 1 /\ count >= 1
      /\ parties = expected \/ parties = expected - 1
  BY <1>0, <1>1, CompletesIffLast, FS_CardinalityType, BarrierAssumption DEF IInv, TypeOK
<1>7. parties \in 0..Cardinality(Fibers) /\ count - 1 \in 0..Cardinality(Fibers)
  BY <1>6
<1>8. CASE Completes
  <2>1. arrived' = {} /\ members \ arrived = {f}
    BY <1>1, <1>5, <1>8, CompletesIffLast
  <2>2. count' = parties /\ sequence' = (sequence + 1) % Sequences
    BY <1>0, <1>8 DEF Arrive, NewCount, NewSequence
  <2>3. sequence' \in 0..(Sequences - 1) /\ sequence' # sequence
    BY <1>1, <2>2, NextSequence
  <2>4. TypeOK'
    <3>1. expected' \in 0..Cardinality(Fibers) /\ count' \in 0..Cardinality(Fibers)
      BY <1>5, <1>7, <2>2
    <3> QED  BY <1>2, <1>3, <1>4, <1>5, <2>1, <2>3, <3>1 DEF TypeOK
  <2>5. CountsMissing'
    BY <1>3, <1>5, <2>1, <2>2 DEF CountsMissing
  <2>6. \A g \in Fibers : g # f /\ token[g] # NoToken => token[g] = sequence
    BY <1>1, <2>1 DEF IInv, Tokens
  <2>7. Tokens'
    <3>1. \A g \in Fibers : token'[g] # NoToken => token'[g] = sequence /\ g \in rest
      BY <1>0, <1>1, <1>2, <1>3, <2>6 DEF IInv, Tokens
    <3>2. \A g \in Fibers : token'[g] # sequence'
      BY <1>1, <2>3, <3>1
    <3> QED  BY <1>5, <2>1, <3>1, <3>2 DEF Tokens
  <2> QED  BY <2>4, <2>5, <2>7 DEF IInv
<1>9. CASE ~Completes
  <2>1. arrived' = (arrived \cup {f}) \cap rest /\ members \ arrived # {f}
    BY <1>1, <1>5, <1>9, CompletesIffLast
  <2>2. count' = count - 1 /\ sequence' = sequence
    BY <1>0, <1>9 DEF Arrive, NewCount, NewSequence
  <2>3. rest \ arrived' = (members \ arrived) \ {f}
    BY <1>0, <1>1, <2>1
  <2>4. TypeOK'
    <3>1. expected' \in 0..Cardinality(Fibers) /\ count' \in 0..Cardinality(Fibers)
      BY <1>5, <1>7, <2>2
    <3>2. arrived' \in SUBSET members'
      BY <1>0, <1>5, <2>1
    <3> QED  BY <1>1, <1>2, <1>3, <1>4, <1>5, <2>2, <3>1, <3>2 DEF TypeOK
  <2>5. CountsMissing'
    BY <1>1, <1>3, <1>5, <2>2, <2>3, CompletesIffLast DEF CountsMissing
  <2>6. Tokens'
    <3>1. ASSUME NEW g \in Fibers, g # f
          PROVE  /\ g \in arrived' => token'[g] = sequence'
                 /\ token'[g] # NoToken => g \in members'
                 /\ token'[g] = sequence' => g \in arrived'
      BY <1>0, <1>1, <1>2, <1>3, <1>5, <2>1, <2>2, <3>1 DEF IInv, Tokens
    <3>2. /\ f \in arrived' => token'[f] = sequence'
          /\ token'[f] # NoToken => f \in members'
          /\ token'[f] = sequence' => f \in arrived'
      BY <1>0, <1>1, <1>2, <1>5, <2>1, <2>2
    <3> QED  BY <3>1, <3>2 DEF Tokens
  <2> QED  BY <2>4, <2>5, <2>6 DEF IInv
<1> QED  BY <1>8, <1>9

(* The steps that leave the barrier alone.                                  *)
LEMMA Untouched ==
  ASSUME IInv, UNCHANGED << expected, count, sequence, members, arrived >>,
         turn' \in Fibers,
         pc' \in [Fibers -> Places],
         after' \in [Fibers -> {"running", "waiting"}],
         \/ UNCHANGED token
         \/ \E f \in Fibers : token[f] # sequence /\ token' = [token EXCEPT ![f] = NoToken]
  PROVE  IInv'
<1>1. CountsMissing'
  BY DEF IInv, CountsMissing
<1>2. CASE UNCHANGED token
  BY <1>1, <1>2 DEF IInv, TypeOK, Tokens
<1>3. ASSUME NEW f \in Fibers, token[f] # sequence, token' = [token EXCEPT ![f] = NoToken]
      PROVE  IInv'
  <2>1. /\ token \in [Fibers -> 0..(Sequences - 1) \cup {NoToken}]
        /\ sequence # NoToken
    BY BarrierAssumption DEF IInv, TypeOK
  <2>2. token'[f] = NoToken /\ \A g \in Fibers : g # f => token'[g] = token[g]
    BY <1>3, <2>1
  <2>3. Tokens'
    BY <1>3, <2>1, <2>2 DEF IInv, Tokens
  <2>4. TypeOK'
    BY <1>3, <2>1 DEF IInv, TypeOK
  <2> QED  BY <1>1, <2>3, <2>4 DEF IInv
<1> QED  BY <1>2, <1>3

LEMMA NextIInv == IInv /\ [Next]_vars => IInv'
<1> SUFFICES ASSUME IInv, [Next]_vars
             PROVE  IInv'
  OBVIOUS
<1>0. Successor \in [Fibers -> Fibers] /\ TypeOK
  BY BarrierAssumption DEF IInv
<1>1. ASSUME NEW f \in Fibers, Yield(f)
      PROVE  IInv'
  BY <1>0, <1>1, Untouched DEF Yield, TypeOK
<1>2. ASSUME NEW f \in Fibers, NEW place \in {"running", "waiting"}, ArriveAndStay(f, place)
      PROVE  IInv'
  BY <1>2, ArriveStep
<1>3. ASSUME NEW f \in Fibers, ArriveAndDrop(f)
      PROVE  IInv'
  BY <1>3, ArriveStep
<1>4. ASSUME NEW f \in Fibers, EndCompletion(f)
      PROVE  IInv'
  BY <1>0, <1>4, Untouched DEF EndCompletion, TypeOK, Places
<1>5. ASSUME NEW f \in Fibers, Wait(f)
      PROVE  IInv'
  BY <1>0, <1>5, Untouched DEF Wait, TypeOK, Places
<1>6. ASSUME NEW f \in Fibers, Poll(f)
      PROVE  IInv'
  <2>1. CASE token[f] = sequence
    BY <1>0, <1>6, <2>1, Untouched DEF Poll, TypeOK
  <2>2. CASE token[f] # sequence
    BY <1>0, <1>6, <2>2, Untouched DEF Poll, TypeOK, Places
  <2> QED  BY <2>1, <2>2
<1>7. CASE UNCHANGED vars
  BY <1>0, <1>7, Untouched DEF vars, TypeOK
<1> QED
  BY <1>1, <1>2, <1>3, <1>4, <1>5, <1>6, <1>7 DEF Next

(* The counters of the barrier are right for every number of fibers, also   *)
(* when some of them drop out.                                              *)
THEOREM BarrierCorrect == Spec => [](TypeOK /\ CountsMissing)
<1>1. IInv => TypeOK /\ CountsMissing
  BY DEF IInv
<1> QED
  BY <1>1, InitIInv, NextIInv, PTL DEF Spec

(* Only Poll ends a wait, and it does so for a token of an earlier phase.   *)
LEMMA PassStep ==
  ASSUME IInv, [Next]_vars, NEW f \in Fibers, pc[f] = "waiting", pc'[f] # "waiting"
  PROVE  f \notin arrived
<1>1. pc \in [Fibers -> Places] /\ pc' # pc
  BY DEF IInv, TypeOK
<1>2. ASSUME NEW g \in Fibers, Poll(g)
      PROVE  f \notin arrived
  <2>1. g = f /\ token[g] # sequence
    BY <1>1, <1>2 DEF Poll
  <2> QED  BY <2>1 DEF IInv, Tokens
<1>3. ASSUME NEW g \in Fibers, NEW place, pc[g] # "waiting", pc' = [pc EXCEPT ![g] = place]
      PROVE  FALSE
  BY <1>1, <1>3
<1>4. ASSUME NEW g \in Fibers,
             \/ Yield(g)
             \/ ArriveAndStay(g, "running")
             \/ ArriveAndStay(g, "waiting")
             \/ ArriveAndDrop(g)
             \/ EndCompletion(g)
             \/ Wait(g)
      PROVE  FALSE
  BY <1>1, <1>3, <1>4
     DEF Yield, ArriveAndStay, ArriveAndDrop, Arrive, EndCompletion, Wait, At
<1> QED
  BY <1>1, <1>2, <1>4 DEF Next, vars

(* No fiber passes the barrier before all others of its phase have arrived. *)
THEOREM PassingCorrect == Spec => NobodyPassesEarly
<1>1. IInv /\ [Next]_vars =>
        [\A f \in Fibers : pc[f] = "waiting" /\ pc'[f] # "waiting" => f \notin arrived]_vars
  BY PassStep
<1> QED
  BY <1>1, InitIInv, NextIInv, PTL DEF Spec, NobodyPassesEarly
=============================================================================
