---------------------------- MODULE AtomicQueue -----------------------------
(***************************************************************************)
(* modm::atomic::Queue, with one producer and one consumer.  One of them   *)
(* is an interrupt of the other or of the same processor's main program,   *)
(* and each reads the index that the other writes.  Every access to an     *)
(* index of the other side is a step, in the order of the source.          *)
(***************************************************************************)
EXTENDS Integers, Sequences

CONSTANTS
  Values,     \* what the queue holds
  NoValue,    \* a slot that has not been written
  None,       \* a side has no size
  N,          \* the template parameter: how much the queue holds
  Indices     \* 2^8 or 2^16, the number of values of Queue::Index

ASSUME QueueAssumption ==
  /\ Indices \in Nat
  /\ N \in Nat \ {0} /\ N < Indices
  /\ NoValue \notin Values
  /\ None \notin Int

VARIABLES
  head,       \* Queue::head, written by the producer
  tail,       \* Queue::tail, written by the consumer
  buffer,     \* Queue::buffer
  place,      \* where each side is
  arg,        \* the argument of push()
  got,        \* what get() refers to
  loaded,     \* tmphead of a side's getSize()
  size,       \* what getSize() has returned to a side, until its next call
  accepted,   \* history: what the last push() has returned
  taken       \* history: the value that the consumer has taken last

vars == << head, tail, buffer, place, arg, got, loaded, size, accepted, taken >>

Sides == {"producer", "consumer"}

(* writing   push() has found room     written   and stored the value       *)
(* nonempty  isEmpty() is false        reading   get() has been read        *)
(* sizing    between the two loads of getSize()                             *)
Places == {"idle", "writing", "written", "nonempty", "reading", "sizing"}

TypeOK ==
  /\ head \in 0..N
  /\ tail \in 0..N
  /\ buffer \in [0..N -> Values \cup {NoValue}]
  /\ place \in [Sides -> Places]
  /\ arg \in Values \cup {NoValue}
  /\ got \in Values \cup {NoValue}
  /\ loaded \in [Sides -> 0..N]
  /\ size \in [Sides -> Int \cup {None}]
  /\ accepted \in BOOLEAN
  /\ taken \in Values \cup {NoValue}

Init ==
  /\ head = 0
  /\ tail = 0
  /\ buffer = [i \in 0..N |-> NoValue]
  /\ place = [s \in Sides |-> "idle"]
  /\ arg = NoValue
  /\ got = NoValue
  /\ loaded = [s \in Sides |-> 0]
  /\ size = [s \in Sides |-> None]
  /\ accepted = TRUE
  /\ taken = NoValue

-----------------------------------------------------------------------------
At(s, p) == place[s] = p

Goto(s, p) == place' = [place EXCEPT ![s] = p]

(* The next index.                                                          *)
NextIndex(i) ==
  LET following == (i + 1) % Indices
  IN  IF following >= N + 1 THEN 0 ELSE following

(* One slot stays empty, to tell a full queue from an empty one; and a      *)
(* mutant that uses it.                                                     *)
FullNever == FALSE

Full == NextIndex(head) = tail

-----------------------------------------------------------------------------
(* push().                                                                 *)
TestFull(v) ==
  /\ At("producer", "idle")
  /\ IF Full
       THEN accepted' = FALSE /\ UNCHANGED << place, arg >>
       ELSE Goto("producer", "writing") /\ arg' = v /\ UNCHANGED accepted
  /\ size' = [size EXCEPT !["producer"] = None]
  /\ UNCHANGED << head, tail, buffer, got, loaded, taken >>

StoreValue ==
  /\ At("producer", "writing")
  /\ buffer' = [buffer EXCEPT ![head] = arg]
  /\ Goto("producer", "written")
  /\ UNCHANGED << head, tail, arg, got, loaded, size, accepted, taken >>

StoreHead ==
  /\ At("producer", "written")
  /\ head' = NextIndex(head)
  /\ arg' = NoValue
  /\ accepted' = TRUE
  /\ Goto("producer", "idle")
  /\ UNCHANGED << tail, buffer, got, loaded, size, taken >>

-----------------------------------------------------------------------------
(* isEmpty(), get() and pop(), as the consumer uses them.                  *)
TestEmpty ==
  /\ At("consumer", "idle")
  /\ head # tail
  /\ Goto("consumer", "nonempty")
  /\ size' = [size EXCEPT !["consumer"] = None]
  /\ UNCHANGED << head, tail, buffer, arg, got, loaded, accepted, taken >>

Get ==
  /\ At("consumer", "nonempty")
  /\ got' = buffer[tail]
  /\ Goto("consumer", "reading")
  /\ UNCHANGED << head, tail, buffer, arg, loaded, size, accepted, taken >>

Pop ==
  /\ At("consumer", "reading")
  /\ tail' = NextIndex(tail)
  /\ taken' = got
  /\ got' = NoValue
  /\ Goto("consumer", "idle")
  /\ UNCHANGED << head, buffer, arg, loaded, size, accepted >>

-----------------------------------------------------------------------------
(* getSize(), also inside isNearlyFull() and isNearlyEmpty().              *)
LoadHead(s) ==
  /\ At(s, "idle")
  /\ loaded' = [loaded EXCEPT ![s] = head]
  /\ size' = [size EXCEPT ![s] = None]
  /\ Goto(s, "sizing")
  /\ UNCHANGED << head, tail, buffer, arg, got, accepted, taken >>

(* The number of values between two indices, and a mutant that forgets the  *)
(* slot that stays empty.                                                   *)
StoredInN(h, t) == IF h >= t THEN h - t ELSE N - t + h

Stored(h, t) == IF h >= t THEN h - t ELSE (N + 1) - t + h

LoadTail(s) ==
  /\ At(s, "sizing")
  /\ size' = [size EXCEPT ![s] = Stored(loaded[s], tail)]
  /\ loaded' = [loaded EXCEPT ![s] = 0]
  /\ Goto(s, "idle")
  /\ UNCHANGED << head, tail, buffer, arg, got, accepted, taken >>

Next ==
  \/ \E v \in Values : TestFull(v)
  \/ StoreValue
  \/ StoreHead
  \/ TestEmpty
  \/ Get
  \/ Pop
  \/ \E s \in Sides : LoadHead(s) \/ LoadTail(s)

Spec == Init /\ [][Next]_vars

-----------------------------------------------------------------------------
Inside == IF head >= tail THEN head - tail ELSE N + 1 - tail + head

Slot(i) == IF tail + i - 1 <= N THEN tail + i - 1 ELSE tail + i - 1 - (N + 1)

Fifo ==
  INSTANCE BoundedFifo WITH queue <- [i \in 1..Inside |-> buffer[Slot(i)]]

(* The queue is a bounded FIFO, whichever side interrupts the other between *)
(* any two accesses: no value is lost, repeated or read before it has been  *)
(* written, and push() fails only when N values are inside.                 *)
FifoSpec == Fifo!FifoSpec

(* What getSize() has returned is on the safe side, as long as its caller   *)
(* has not pushed or popped: for the producer there is at least as much     *)
(* room, for the consumer there are at least as many values.                *)
SizesAreBounds ==
  /\ size["producer"] # None => size["producer"] \in Inside..N
  /\ size["consumer"] # None => size["consumer"] \in 0..Inside
=============================================================================
