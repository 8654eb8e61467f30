---------------------------- MODULE BoundedFifo -----------------------------
(***************************************************************************)
(* What modm::atomic::Queue promises to a producer and a consumer of which *)
(* one interrupts the other: values leave in the order in which they came, *)
(* and push() is refused only when N of them are inside.                   *)
(*                                                                         *)
(* This is an abstract specification.  AtomicQueue implements it with a    *)
(* ring buffer and two indices.                                            *)
(***************************************************************************)
EXTENDS Naturals, Sequences

CONSTANTS
  Values,     \* what the queue holds
  NoValue,    \* nothing has been taken yet
  N           \* how much it holds

VARIABLES
  queue,      \* the values inside, oldest first
  accepted,   \* what the last push() has returned
  taken       \* the value that the consumer has taken last

fifoVars == << queue, accepted, taken >>

FifoInit ==
  /\ queue = << >>
  /\ accepted = TRUE
  /\ taken = NoValue

Put(v) ==
  /\ Len(queue) < N
  /\ queue' = Append(queue, v)
  /\ accepted' = TRUE
  /\ UNCHANGED taken

Refuse ==
  /\ Len(queue) = N
  /\ accepted' = FALSE
  /\ UNCHANGED << queue, taken >>

Take ==
  /\ queue # << >>
  /\ taken' = Head(queue)
  /\ queue' = Tail(queue)
  /\ UNCHANGED accepted

FifoNext ==
  \/ \E v \in Values : Put(v)
  \/ Refuse
  \/ Take

FifoSpec == FifoInit /\ [][FifoNext]_fifoVars
=============================================================================
