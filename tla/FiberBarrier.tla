---------------------------- MODULE FiberBarrier ----------------------------
(***************************************************************************)
(* modm::fiber::barrier, used by fibers in round-robin order, of which     *)
(* each arrives once in a phase, and whose completion function may yield.  *)
(***************************************************************************)
EXTENDS Integers, FiniteSets

CONSTANTS
  Fibers,     \* the fibers, all of which take part at first
  Successor,  \* the fiber that yield() resumes, for each fiber
  Sequences,  \* 2^16, the number of values of barrier::sequence
  NoToken     \* a fiber has no arrival token

ASSUME BarrierAssumption ==
  /\ IsFiniteSet(Fibers)
  /\ Successor \in [Fibers -> Fibers]
  /\ Sequences \in Nat /\ Sequences > 1
  /\ NoToken \notin Int

VARIABLES
  turn,       \* Scheduler::current
  pc,         \* where each fiber is
  after,      \* where its arrive() returns to
  token,      \* the arrival_token that each fiber has
  expected,   \* barrier::expected
  count,      \* barrier::count
  sequence,   \* barrier::sequence
  members,    \* history: the fibers that have not dropped out
  arrived     \* history: the members that have arrived in this phase

vars == << turn, pc, after, token, expected, count, sequence, members, arrived >>

(* A fiber `completes' inside the completion function, after a yield.       *)
Places == {"running", "completing", "waiting"}

TypeOK ==
  /\ turn \in Fibers
  /\ pc \in [Fibers -> Places]
  /\ after \in [Fibers -> {"running", "waiting"}]
  /\ token \in [Fibers -> 0..(Sequences - 1) \cup {NoToken}]
  /\ expected \in 0..Cardinality(Fibers)
  /\ count \in 0..Cardinality(Fibers)
  /\ sequence \in 0..(Sequences - 1)
  /\ members \in SUBSET Fibers
  /\ arrived \in SUBSET members

Init ==
  /\ turn \in Fibers
  /\ pc = [f \in Fibers |-> "running"]
  /\ after = [f \in Fibers |-> "running"]
  /\ token = [f \in Fibers |-> NoToken]
  /\ expected = Cardinality(Fibers)
  /\ count = Cardinality(Fibers)
  /\ sequence = 0
  /\ members = Fibers
  /\ arrived = {}

-----------------------------------------------------------------------------
At(f, place) == turn = f /\ pc[f] = place

(* Fibers yield in their own code and in the completion function.           *)
Yield(f) ==
  /\ At(f, "running") \/ At(f, "completing")
  /\ turn' = Successor[f]
  /\ UNCHANGED << pc, after, token, expected, count, sequence, members, arrived >>

(* `else' of arrive(): this arrival completes the phase.  And a mutant with *)
(* the comparison off by one.                                               *)
AllButOne == count <= 2

Completes == count <= 1

(* The values that arrive() stores when the next phase has `parties', and   *)
(* a mutant that forgets to count the phases.                               *)
NewCount(parties) == IF Completes THEN parties ELSE count - 1

SequenceKept == sequence

NewSequence == IF Completes THEN (sequence + 1) % Sequences ELSE sequence

(* Fiber f arrives, drops out or not, and returns to `place', unless its    *)
(* completion function yields.                                              *)
Arrive(f, parties, rest, place) ==
  /\ At(f, "running")
  /\ f \in members \ arrived
  /\ expected' = parties
  /\ count' = NewCount(parties)
  /\ sequence' = NewSequence
  /\ members' = rest
  /\ arrived' = IF members \ arrived = {f} THEN {} ELSE (arrived \cup {f}) \cap rest
  /\ \/ /\ pc' = [pc EXCEPT ![f] = place]
        /\ UNCHANGED after
     \/ /\ Completes
        /\ pc' = [pc EXCEPT ![f] = "completing"]
        /\ after' = [after EXCEPT ![f] = place]
  /\ UNCHANGED turn

(* arrive() and arrive_and_wait().                                          *)
ArriveAndStay(f, place) ==
  /\ Arrive(f, expected, members, place)
  /\ token' = [token EXCEPT ![f] = sequence]

(* arrive_and_drop(), and a mutant that expects the fiber again.            *)
StillExpected == expected

ExpectedWithout == IF expected > 0 THEN expected - 1 ELSE expected

ArriveAndDrop(f) ==
  /\ Arrive(f, ExpectedWithout, members \ {f}, "running")
  /\ token' = [token EXCEPT ![f] = NoToken]

(* The completion function returns.                                         *)
EndCompletion(f) ==
  /\ At(f, "completing")
  /\ pc' = [pc EXCEPT ![f] = after[f]]
  /\ after' = [after EXCEPT ![f] = "running"]
  /\ UNCHANGED << turn, token, expected, count, sequence, members, arrived >>

(* wait() for the token that an earlier arrive() has returned.              *)
Wait(f) ==
  /\ At(f, "running")
  /\ token[f] # NoToken
  /\ pc' = [pc EXCEPT ![f] = "waiting"]
  /\ UNCHANGED << turn, after, token, expected, count, sequence, members, arrived >>

(* The loop of wait(), after which the token is used up.                    *)
Poll(f) ==
  /\ At(f, "waiting")
  /\ IF token[f] = sequence
       THEN turn' = Successor[f] /\ UNCHANGED << pc, token >>
       ELSE /\ pc' = [pc EXCEPT ![f] = "running"]
            /\ token' = [token EXCEPT ![f] = NoToken]
            /\ UNCHANGED turn
  /\ UNCHANGED << after, expected, count, sequence, members, arrived >>

-----------------------------------------------------------------------------
Next ==
  \E f \in Fibers :
    \/ Yield(f)
    \/ ArriveAndStay(f, "running")
    \/ ArriveAndStay(f, "waiting")
    \/ ArriveAndDrop(f)
    \/ EndCompletion(f)
    \/ Wait(f)
    \/ Poll(f)

(* Fibers cooperate: no fiber keeps the turn for ever.                      *)
TurnPasses == (\E f \in Fibers : Yield(f) \/ Poll(f)) /\ turn' # turn

Fairness == WF_vars(\E f \in Fibers : Poll(f)) /\ SF_vars(TurnPasses)

Spec == Init /\ [][Next]_vars /\ Fairness

-----------------------------------------------------------------------------
(* The counters tell who takes part and who is still to arrive, also after  *)
(* fibers have dropped out, in the middle of a phase or at its end.         *)
CountsMissing ==
  /\ expected = Cardinality(members)
  /\ count = Cardinality(members \ arrived)

(* A fiber passes wait() only when every fiber that took part in its phase  *)
(* has arrived or dropped out, although the sequence wraps around.          *)
NobodyPassesEarly ==
  [][\A f \in Fibers :
       pc[f] = "waiting" /\ pc'[f] # "waiting" => f \notin arrived]_vars

(* Whoever waits for a phase that is complete passes.                       *)
EveryonePasses ==
  \A f \in Fibers : (pc[f] = "waiting" /\ f \notin arrived) ~> (pc[f] # "waiting")

(* std::barrier calls the completion function before it releases the fibers *)
(* that wait.  This one need not: see the README.                           *)
CompletionBeforePass ==
  [][\A f \in Fibers :
       pc[f] = "waiting" /\ pc'[f] # "waiting" =>
         \A g \in Fibers : pc[g] # "completing"]_vars
=============================================================================
