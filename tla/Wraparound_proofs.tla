------------------------- MODULE Wraparound_proofs --------------------------
(***************************************************************************)
(* Two components count in integers that wrap around: the indexes of the   *)
(* queue, and the time stamps of the software timers.  For every capacity  *)
(* and width, the queue is a bounded FIFO, and the sizes that it reports   *)
(* are on the safe side; a timer is an ideal one, that never wraps, as long *)
(* as it is executed in time.                                              *)
(***************************************************************************)
EXTENDS AtomicQueue, SoftwareTimer, SequenceTheorems, FiniteSetTheorems,
        WellFoundedInduction, TLAPS

-----------------------------------------------------------------------------
(* atomic::Queue                                                           *)

(* Between its test and its store, no step of the consumer can fill the     *)
(* queue under the producer.                                                *)
Producing ==
  /\ place["producer"] \in {"writing", "written"} =>
       Stored(head, tail) < N /\ arg \in Values
  /\ At("producer", "written") => buffer[head] = arg

(* Nor can the producer empty it, or write to the slot that is being read.  *)
Consuming ==
  /\ place["consumer"] \in {"nonempty", "reading"} => head # tail
  /\ At("consumer", "reading") => got = buffer[tail]

(* A side that is inside a call has forgotten its last size.  The index     *)
(* that getSize() loads first is the producer's own, or not past the head.  *)
Sizing ==
  /\ \A s \in Sides : ~At(s, "idle") => size[s] = None
  /\ At("producer", "sizing") => loaded["producer"] = head
  /\ At("consumer", "sizing") => Stored(loaded["consumer"], tail) <= Inside

IInv == TypeOK /\ Producing /\ Consuming /\ Sizing /\ SizesAreBounds

-----------------------------------------------------------------------------
(* The test for the wrap-around is right even where the index wraps first.  *)
LEMMA NextIndexWraps ==
  ASSUME NEW i \in 0..N
  PROVE  NextIndex(i) = IF i = N THEN 0 ELSE i + 1
<1>1. CASE i + 1 < Indices
  <2>1. (i + 1) % Indices = i + 1
    BY <1>1, QueueAssumption
  <2> QED  BY <2>1, QueueAssumption DEF NextIndex
<1>2. CASE i + 1 = Indices
  <2>1. Indices % Indices = 0
    BY QueueAssumption
  <2>2. (i + 1) % Indices = 0 /\ i = N
    BY <1>2, <2>1, QueueAssumption
  <2> QED  BY <2>2, QueueAssumption DEF NextIndex
<1> QED  BY <1>1, <1>2, QueueAssumption

LEMMA StoredBounds ==
  ASSUME NEW h \in 0..N, NEW t \in 0..N
  PROVE  Stored(h, t) \in 0..N /\ (Stored(h, t) = 0 <=> h = t)
BY QueueAssumption DEF Stored

LEMMA StoredGrows ==
  ASSUME NEW h \in 0..N, NEW t \in 0..N, Stored(h, t) < N
  PROVE  /\ NextIndex(h) \in 0..N
         /\ Stored(NextIndex(h), t) = Stored(h, t) + 1
BY NextIndexWraps, QueueAssumption DEF Stored

LEMMA StoredShrinks ==
  ASSUME NEW h \in 0..N, NEW t \in 0..N, h # t
  PROVE  /\ NextIndex(t) \in 0..N
         /\ Stored(h, NextIndex(t)) = Stored(h, t) - 1
BY NextIndexWraps, QueueAssumption DEF Stored

LEMMA FullMeansN ==
  ASSUME NEW h \in 0..N, NEW t \in 0..N
  PROVE  NextIndex(h) = t <=> Stored(h, t) = N
BY NextIndexWraps, QueueAssumption DEF Stored

LEMMA InsideIsStored ==
  ASSUME TypeOK
  PROVE  Inside = Stored(head, tail)
<1>1. head \in 0..N /\ tail \in 0..N
  BY DEF TypeOK
<1> QED  BY <1>1, QueueAssumption DEF Inside, Stored

LEMMA InsideIsStoredNext ==
  ASSUME TypeOK'
  PROVE  Inside' = Stored(head', tail')
<1>1. head' \in 0..N /\ tail' \in 0..N
  BY DEF TypeOK
<1> QED  BY <1>1, QueueAssumption DEF Inside, Stored

-----------------------------------------------------------------------------
LEMMA InitIInv == Init => IInv
<1> SUFFICES ASSUME Init
             PROVE  IInv
  OBVIOUS
<1>1. TypeOK
  BY QueueAssumption DEF Init, TypeOK, Sides, Places
<1>2. Producing /\ Consuming /\ Sizing
  BY DEF Init, Producing, Consuming, Sizing, At, Sides
<1>3. SizesAreBounds
  BY DEF Init, SizesAreBounds, Sides
<1> QED  BY <1>1, <1>2, <1>3 DEF IInv

LEMMA NextIInv == IInv /\ [Next]_vars => IInv'
<1> SUFFICES ASSUME IInv, [Next]_vars
             PROVE  IInv'
  OBVIOUS
<1> USE DEF IInv, At, Goto
<1>0. /\ head \in 0..N /\ tail \in 0..N
      /\ Inside = Stored(head, tail)
      /\ Inside \in 0..N /\ (Inside = 0 <=> head = tail)
      /\ loaded \in [Sides -> 0..N]
      /\ UNCHANGED << head, tail >> => Inside' = Inside
  <2>1. Inside = Stored(head, tail)
    BY InsideIsStored
  <2>2. UNCHANGED << head, tail >> => Inside' = Inside
    BY DEF Inside
  <2>3. head \in 0..N /\ tail \in 0..N /\ loaded \in [Sides -> 0..N]
    BY DEF TypeOK
  <2> QED  BY <2>1, <2>2, <2>3, StoredBounds
<1>a. "producer" \in Sides /\ "consumer" \in Sides /\ "producer" # "consumer"
  BY DEF Sides
<1>1. CASE UNCHANGED vars
  BY <1>1 DEF vars, TypeOK, Producing, Consuming, Sizing, SizesAreBounds, Inside
<1>2. ASSUME NEW v \in Values, TestFull(v)
      PROVE  IInv'
  <2>1. TypeOK'
    BY <1>2 DEF TestFull, TypeOK, Places
  <2>2. Producing'
    <3>1. CASE Full
      BY <1>2, <3>1, <1>a DEF TestFull, Producing
    <3>2. CASE ~Full
      <4>1. Stored(head, tail) < N
        BY <3>2, <1>0, FullMeansN, StoredBounds, QueueAssumption DEF Full
      <4>2. place' = [place EXCEPT !["producer"] = "writing"] /\ arg' = v
            /\ UNCHANGED << head, tail >>
        BY <1>2, <3>2 DEF TestFull
      <4> QED  BY <4>1, <4>2, <1>a DEF Producing, TypeOK
    <3> QED  BY <3>1, <3>2
  <2>3. Consuming' /\ Sizing'
    BY <1>2, <1>a, <1>0 DEF TestFull, Consuming, Sizing, TypeOK
  <2>4. SizesAreBounds'
    BY <1>2, <1>a, <1>0 DEF TestFull, SizesAreBounds, TypeOK
  <2> QED  BY <2>1, <2>2, <2>3, <2>4
<1>3. CASE StoreValue
  <2>1. TypeOK'
    BY <1>3, <1>0 DEF StoreValue, TypeOK, Places
  <2>2. Producing'
    BY <1>3, <1>a, <1>0 DEF StoreValue, Producing, TypeOK
  <2>3. Consuming'
    BY <1>3, <1>a, <1>0 DEF StoreValue, Consuming, TypeOK
  <2>4. Sizing' /\ SizesAreBounds'
    BY <1>3, <1>a, <1>0 DEF StoreValue, Sizing, SizesAreBounds, TypeOK
  <2> QED  BY <2>1, <2>2, <2>3, <2>4
<1>4. CASE StoreHead
  <2>0. head' = NextIndex(head) /\ tail' = tail /\ head' \in 0..N
    BY <1>4, <1>0, StoredGrows DEF StoreHead, Producing
  <2>2. TypeOK'
    BY <1>4, <2>0 DEF StoreHead, TypeOK, Places
  <2>1. /\ head' = NextIndex(head) /\ tail' = tail /\ head' \in 0..N
        /\ Inside' = Inside + 1 /\ Inside' \in 0..N
        /\ Inside' = Stored(head', tail')
    BY <1>4, <1>0, <2>0, <2>2, InsideIsStoredNext, StoredGrows, StoredBounds
       DEF StoreHead, Producing
  <2>3. Producing'
    BY <1>4, <1>a DEF StoreHead, Producing, TypeOK
  <2>4. Consuming'
    <3>1. head' # tail'
      BY <2>1, <1>0, StoredBounds, QueueAssumption
    <3> QED  BY <3>1, <1>4, <1>a DEF StoreHead, Consuming, TypeOK
  <2>5. Sizing'
    <3>1. At("producer", "sizing")' = FALSE
      BY <1>4, <1>a DEF StoreHead, TypeOK
    <3>2. place'["consumer"] = place["consumer"]
      BY <1>4, <1>a DEF StoreHead, TypeOK
    <3>3. loaded' = loaded /\ tail' = tail
      BY <1>4 DEF StoreHead
    <3>4. Stored(loaded["consumer"], tail) \in 0..N
      BY <1>0, <1>a, StoredBounds
    <3>5. (\A s \in Sides : ~At(s, "idle") => size[s] = None)'
      BY <1>4, <1>a DEF StoreHead, Sizing, TypeOK
    <3> QED  BY <3>1, <3>2, <3>3, <3>4, <3>5, <2>1, <1>0, QueueAssumption DEF Sizing
  <2>6. SizesAreBounds'
    <3>1. size' = size /\ size["producer"] = None
      BY <1>4, <1>a DEF StoreHead, Sizing
    <3>2. size["consumer"] # None => size["consumer"] \in 0..Inside'
      BY <2>1, <1>0, QueueAssumption DEF SizesAreBounds
    <3> QED  BY <3>1, <3>2 DEF SizesAreBounds
  <2> QED  BY <2>2, <2>3, <2>4, <2>5, <2>6
<1>5. CASE TestEmpty
  <2>1. TypeOK'
    BY <1>5 DEF TestEmpty, TypeOK, Places
  <2>2. Producing' /\ Consuming'
    BY <1>5, <1>a DEF TestEmpty, Producing, Consuming, TypeOK
  <2>3. Sizing' /\ SizesAreBounds'
    BY <1>5, <1>a, <1>0 DEF TestEmpty, Sizing, SizesAreBounds, TypeOK
  <2> QED  BY <2>1, <2>2, <2>3
<1>6. CASE Get
  <2>1. TypeOK'
    BY <1>6, <1>0 DEF Get, TypeOK, Places
  <2>2. Producing' /\ Consuming'
    BY <1>6, <1>a DEF Get, Producing, Consuming, TypeOK
  <2>3. Sizing' /\ SizesAreBounds'
    BY <1>6, <1>a, <1>0 DEF Get, Sizing, SizesAreBounds, TypeOK
  <2> QED  BY <2>1, <2>2, <2>3
<1>7. CASE Pop
  <2>0. tail' = NextIndex(tail) /\ head' = head /\ tail' \in 0..N
    BY <1>7, <1>0, StoredShrinks DEF Pop, Consuming
  <2>2. TypeOK'
    BY <1>7, <2>0 DEF Pop, TypeOK, Places
  <2>1. /\ tail' = NextIndex(tail) /\ head' = head /\ tail' \in 0..N
        /\ Inside' = Inside - 1 /\ Inside' \in 0..N
        /\ Inside' = Stored(head', tail')
    BY <1>7, <1>0, <2>0, <2>2, InsideIsStoredNext, StoredShrinks, StoredBounds
       DEF Pop, Consuming
  <2>3. Producing'
    <3>1. Stored(head', tail') < N
      BY <2>1, <1>0, QueueAssumption
    <3> QED  BY <3>1, <1>7, <1>a DEF Pop, Producing, TypeOK
  <2>4. Consuming' /\ Sizing'
    BY <1>7, <1>a DEF Pop, Consuming, Sizing, TypeOK
  <2>5. SizesAreBounds'
    <3>1. size' = size
      BY <1>7 DEF Pop
    <3>2. size["producer"]' # None => size["producer"]' \in Inside'..N
      BY <3>1, <1>0, <2>1, QueueAssumption DEF SizesAreBounds
    <3>3. size["consumer"] = None
      BY <1>7, <1>a DEF Pop, Sizing
    <3> QED  BY <3>1, <3>2, <3>3 DEF SizesAreBounds
  <2> QED  BY <2>2, <2>3, <2>4, <2>5
<1>8. ASSUME NEW s \in Sides, LoadHead(s)
      PROVE  IInv'
  <2>1. TypeOK'
    BY <1>8, <1>0 DEF LoadHead, TypeOK, Places
  <2>2. Producing' /\ Consuming'
    BY <1>8, <1>a DEF LoadHead, Producing, Consuming, TypeOK
  <2>3. Sizing'
    BY <1>8, <1>a, <1>0, QueueAssumption DEF LoadHead, Sizing, TypeOK
  <2>4. SizesAreBounds'
    BY <1>8, <1>a, <1>0 DEF LoadHead, SizesAreBounds, TypeOK
  <2> QED  BY <2>1, <2>2, <2>3, <2>4
<1>9. ASSUME NEW s \in Sides, LoadTail(s)
      PROVE  IInv'
  <2>1. Stored(loaded[s], tail) \in 0..N
    BY <1>0, StoredBounds
  <2>2. TypeOK'
    BY <1>9, <2>1, QueueAssumption DEF LoadTail, TypeOK, Places
  <2>3. Producing' /\ Consuming' /\ Sizing'
    BY <1>9, <1>a, <1>0 DEF LoadTail, Producing, Consuming, Sizing, TypeOK
  <2>4. SizesAreBounds'
    <3>1. CASE s = "producer"
      BY <3>1, <1>9, <1>a, <1>0, <2>1, QueueAssumption
         DEF LoadTail, SizesAreBounds, Sizing, TypeOK
    <3>2. CASE s = "consumer"
      BY <3>2, <1>9, <1>a, <1>0, <2>1, QueueAssumption
         DEF LoadTail, SizesAreBounds, Sizing, TypeOK
    <3> QED  BY <3>1, <3>2 DEF Sides
  <2> QED  BY <2>2, <2>3, <2>4
<1> QED  BY <1>1, <1>2, <1>3, <1>4, <1>5, <1>6, <1>7, <1>8, <1>9 DEF Next

-----------------------------------------------------------------------------
(* The invariant of AtomicQueue: every index stays inside the buffer, what  *)
(* is about to be read has been written, and getSize() errs on the safe     *)
(* side.                                                                    *)
THEOREM QueueInvariant == Spec => []IInv
<1>1. Init => IInv
  BY InitIInv
<1>2. IInv /\ [Next]_vars => IInv'
  BY NextIInv
<1> QED  BY <1>1, <1>2, PTL DEF Spec

(* Queue::head and Queue::tail stay within the N + 1 slots, whatever N is   *)
(* and wherever the index type wraps around.                                *)
THEOREM TypeCorrect == Spec => []TypeOK
<1>1. IInv => TypeOK
  BY DEF IInv
<1> QED  BY <1>1, QueueInvariant, PTL

(* getSize() may be out of date, but never so that the producer finds less  *)
(* room or the consumer fewer values than it has been told.                 *)
THEOREM SizesCorrect == Spec => []SizesAreBounds
<1>1. IInv => SizesAreBounds
  BY DEF IInv
<1> QED  BY <1>1, QueueInvariant, PTL

-----------------------------------------------------------------------------
(* The refinement.  The values inside, oldest first.                        *)
Content == [i \in 1..Inside |-> buffer[Slot(i)]]

LEMMA ContentIsSeq ==
  ASSUME IInv
  PROVE  /\ Inside \in 0..N
         /\ \A i \in 1..Inside : Slot(i) \in 0..N /\ Slot(i) # head
         /\ Content \in Seq(Values \cup {NoValue})
         /\ Len(Content) = Inside
         /\ \A i \in 1..Inside : Content[i] = buffer[Slot(i)]
<1>1. head \in 0..N /\ tail \in 0..N
  BY DEF IInv, TypeOK
<1>2. Inside \in 0..N
  BY <1>1, QueueAssumption DEF Inside
<1>3. \A i \in 1..Inside : Slot(i) \in 0..N /\ Slot(i) # head
  BY <1>1, QueueAssumption DEF Inside, Slot
<1>4. \A i \in 1..Inside : buffer[Slot(i)] \in Values \cup {NoValue}
  BY <1>3 DEF IInv, TypeOK
<1>5. Content \in [1..Inside -> Values \cup {NoValue}]
  BY <1>4 DEF Content
<1>6. Content \in Seq(Values \cup {NoValue})
  BY <1>2, <1>5, SeqDef, QueueAssumption
<1>7. Len(Content) = Inside
  BY <1>2, <1>5, <1>6, LenProperties, QueueAssumption
<1> QED  BY <1>2, <1>3, <1>6, <1>7 DEF Content

LEMMA ContentUnchanged ==
  ASSUME IInv, UNCHANGED << head, tail >>,
         \A i \in 0..N : i # head => buffer'[i] = buffer[i]
  PROVE  Content' = Content
<1>1. \A i \in 1..Inside : buffer'[Slot(i)] = buffer[Slot(i)]
  BY ContentIsSeq
<1>2. Inside' = Inside /\ (\A i : Slot(i)' = Slot(i))
  BY DEF Inside, Slot
<1> QED  BY <1>1, <1>2 DEF Content

LEMMA PutRefines ==
  ASSUME IInv, IInv', StoreHead
  PROVE  Content' = Append(Content, arg) /\ Len(Content) < N /\ arg \in Values
<1> DEFINE T == Values \cup {NoValue}
<1>0. /\ head \in 0..N /\ tail \in 0..N /\ tail' = tail /\ buffer' = buffer
      /\ head' = NextIndex(head) /\ buffer[head] = arg /\ arg \in Values
      /\ Stored(head, tail) < N /\ Inside = Stored(head, tail)
      /\ Inside' = Stored(head', tail')
  <2>1. Inside = Stored(head, tail) /\ Inside' = Stored(head', tail')
    BY InsideIsStored, InsideIsStoredNext DEF IInv
  <2> QED  BY <2>1 DEF IInv, TypeOK, StoreHead, Producing, At
<1>1. Inside < N /\ Inside' = Inside + 1 /\ Inside \in 0..N
  BY <1>0, StoredGrows, StoredBounds
<1>2. Slot(Inside + 1) = head /\ (\A i : Slot(i)' = Slot(i))
  BY <1>0, QueueAssumption DEF Slot, Inside
<1>3. /\ Content \in Seq(T) /\ Len(Content) = Inside
      /\ Content' \in Seq(T) /\ Len(Content') = Inside + 1
  <2>1. (Content \in Seq(Values \cup {NoValue}) /\ Len(Content) = Inside)'
    BY ContentIsSeq, PTL
  <2> QED  BY <1>1, <2>1, ContentIsSeq
<1>4. \A i \in 1..(Inside + 1) : Content'[i] = buffer[Slot(i)]
  BY <1>0, <1>1, <1>2 DEF Content
<1>5. /\ Append(Content, arg) \in Seq(T)
      /\ Len(Append(Content, arg)) = Inside + 1
      /\ \A i \in 1..Inside : Append(Content, arg)[i] = Content[i]
      /\ Append(Content, arg)[Inside + 1] = arg
  BY <1>0, <1>3, AppendProperties
<1>6. \A i \in 1..(Inside + 1) : Content'[i] = Append(Content, arg)[i]
  <2> SUFFICES ASSUME NEW i \in 1..(Inside + 1)
               PROVE  Content'[i] = Append(Content, arg)[i]
    OBVIOUS
  <2>1. CASE i = Inside + 1
    BY <2>1, <1>0, <1>2, <1>4, <1>5
  <2>2. CASE i \in 1..Inside
    BY <2>2, <1>4, <1>5, ContentIsSeq
  <2>3. i = Inside + 1 \/ i \in 1..Inside
    BY <1>1, QueueAssumption
  <2> QED  BY <2>1, <2>2, <2>3
<1>7. Content' = Append(Content, arg)
  BY <1>3, <1>5, <1>6, SeqEqual
<1> QED  BY <1>0, <1>1, <1>3, <1>7

LEMMA TakeRefines ==
  ASSUME IInv, IInv', Pop
  PROVE  /\ Content # << >> /\ Content' = Tail(Content)
         /\ taken' = Head(Content)
<1> DEFINE T == Values \cup {NoValue}
<1>0. /\ head \in 0..N /\ tail \in 0..N /\ head # tail /\ head' = head
      /\ tail' = NextIndex(tail) /\ buffer' = buffer
      /\ taken' = buffer[tail]
      /\ Inside = Stored(head, tail) /\ Inside' = Stored(head', tail')
  <2>1. Inside = Stored(head, tail) /\ Inside' = Stored(head', tail')
    BY InsideIsStored, InsideIsStoredNext DEF IInv
  <2> QED  BY <2>1 DEF IInv, TypeOK, Pop, Consuming, At
<1>1. Inside' = Inside - 1 /\ Inside \in 1..N
  BY <1>0, StoredShrinks, StoredBounds, QueueAssumption
<1>2. Slot(1) = tail /\ (\A i \in 1..(Inside - 1) : Slot(i)' = Slot(i + 1))
  BY <1>0, <1>1, NextIndexWraps, QueueAssumption DEF Slot
<1>3. /\ Content \in Seq(T) /\ Len(Content) = Inside
      /\ Content' \in Seq(T) /\ Len(Content') = Inside - 1
  <2>1. (Content \in Seq(Values \cup {NoValue}) /\ Len(Content) = Inside)'
    BY ContentIsSeq, PTL
  <2> QED  BY <1>1, <2>1, ContentIsSeq
<1>4. Content # << >>
  BY <1>1, <1>3, EmptySeq, QueueAssumption
<1>5. /\ Tail(Content) \in Seq(T) /\ Len(Tail(Content)) = Inside - 1
      /\ \A i \in 1..(Inside - 1) : Tail(Content)[i] = Content[i + 1]
      /\ Head(Content) = Content[1]
  BY <1>3, <1>4, HeadTailProperties
<1>6. \A i \in 1..(Inside - 1) : Content'[i] = Tail(Content)[i]
  <2> SUFFICES ASSUME NEW i \in 1..(Inside - 1)
               PROVE  Content'[i] = Tail(Content)[i]
    OBVIOUS
  <2>1. Content'[i] = buffer[Slot(i + 1)]
    BY <1>0, <1>1, <1>2 DEF Content
  <2>2. i + 1 \in 1..Inside
    BY <1>1, QueueAssumption
  <2> QED  BY <2>1, <2>2, <1>5, ContentIsSeq
<1>7. Content' = Tail(Content)
  BY <1>3, <1>5, <1>6, SeqEqual
<1>8. Head(Content) = buffer[tail]
  BY <1>1, <1>2, <1>5, ContentIsSeq, QueueAssumption
<1> QED  BY <1>0, <1>4, <1>7, <1>8

LEMMA StepRefines ==
  ASSUME IInv, IInv', [Next]_vars
  PROVE  [Fifo!FifoNext]_(Fifo!fifoVars)
<1> USE DEF Fifo!FifoNext, Fifo!fifoVars
<1>0. Content = [i \in 1..Inside |-> buffer[Slot(i)]]
  BY DEF Content
<1>1. ASSUME UNCHANGED << Content, accepted, taken >>
      PROVE  UNCHANGED Fifo!fifoVars
  BY <1>1 DEF Content
<1>2. CASE UNCHANGED vars
  <2>1. Content' = Content
    BY <1>2, ContentUnchanged DEF vars
  <2> QED  BY <2>1, <1>1, <1>2 DEF vars
<1>3. ASSUME NEW v \in Values, TestFull(v)
      PROVE  [Fifo!FifoNext]_(Fifo!fifoVars)
  <2>1. Content' = Content
    BY <1>3, ContentUnchanged DEF TestFull
  <2>2. CASE Full
    <3>1. Inside = N
      <4>1. head \in 0..N /\ tail \in 0..N /\ Inside = Stored(head, tail)
        BY InsideIsStored DEF IInv, TypeOK
      <4> QED  BY <4>1, <2>2, FullMeansN DEF Full
    <3>2. Len(Content) = N /\ accepted' = FALSE /\ taken' = taken
      BY <3>1, <1>3, <2>2, ContentIsSeq DEF TestFull
    <3>3. Fifo!Refuse
      BY <3>2, <2>1 DEF Fifo!Refuse, Content
    <3> QED  BY <3>3
  <2>3. CASE ~Full
    BY <2>1, <2>3, <1>1, <1>3 DEF TestFull
  <2> QED  BY <2>2, <2>3
<1>4. CASE StoreValue
  <2>1. \A i \in 0..N : i # head => buffer'[i] = buffer[i]
    BY <1>4 DEF StoreValue, IInv, TypeOK
  <2>2. Content' = Content
    BY <1>4, <2>1, ContentUnchanged DEF StoreValue
  <2> QED  BY <2>2, <1>1, <1>4 DEF StoreValue
<1>5. CASE StoreHead
  <2>1. accepted' = TRUE /\ taken' = taken
    BY <1>5 DEF StoreHead
  <2>2. arg \in Values /\ Fifo!Put(arg)
    BY <1>5, <2>1, PutRefines DEF Fifo!Put, Content
  <2> QED  BY <2>2
<1>6. CASE Pop
  <2>1. accepted' = accepted
    BY <1>6 DEF Pop
  <2>2. Fifo!Take
    BY <1>6, <2>1, TakeRefines DEF Fifo!Take, Content
  <2> QED  BY <2>2
<1>7. CASE TestEmpty \/ Get \/ (\E s \in Sides : LoadHead(s) \/ LoadTail(s))
  <2>1. UNCHANGED << head, tail, buffer, accepted, taken >>
    BY <1>7 DEF TestEmpty, Get, LoadHead, LoadTail
  <2>2. Content' = Content
    BY <2>1, ContentUnchanged
  <2> QED  BY <2>1, <2>2, <1>1
<1> QED  BY <1>2, <1>3, <1>4, <1>5, <1>6, <1>7 DEF Next

(* modm::atomic::Queue is a bounded FIFO for every N: an interrupt between  *)
(* any two accesses of push(), isEmpty(), get() and pop() loses no value,   *)
(* repeats none, and sees none before it has been written.                  *)
THEOREM QueueIsFifo == Spec => FifoSpec
<1>1. Init => Fifo!FifoInit
  <2> SUFFICES ASSUME Init
               PROVE  Fifo!FifoInit
    OBVIOUS
  <2>1. Inside = 0
    BY QueueAssumption DEF Init, Inside
  <2>2. [i \in 1..Inside |-> buffer[Slot(i)]] = << >>
    BY <2>1
  <2> QED  BY <2>2 DEF Init, Fifo!FifoInit
<1>2. IInv /\ IInv' /\ [Next]_vars => [Fifo!FifoNext]_(Fifo!fifoVars)
  BY StepRefines
<1> QED  BY <1>1, <1>2, QueueInvariant, PTL DEF Spec, FifoSpec, Fifo!FifoSpec

-----------------------------------------------------------------------------
(* modm::Timeout and modm::PeriodicTimer                                   *)

(* While a timer waits, or is a periodic one that has to be executed, its   *)
(* start is younger than the range of the time stamps; what is expired has  *)
(* reached its time.                                                        *)
TimerIInv ==
  /\ kind \in {"Timeout", "PeriodicTimer"}
  /\ time \in Nat /\ began \in 0..time
  /\ _start = began % Ticks
  /\ _interval \in 0..(Ticks - 1)
  /\ _state \in {{"STOPPED"}, {"ARMED"}, {"EXPIRED"}, {"EXPIRED", "EXECUTED"}}
  /\ "ARMED" \in _state => time - began < Ticks
  /\ kind = "PeriodicTimer" /\ "STOPPED" \notin _state =>
       "EXECUTED" \notin _state /\ time - began < Ticks
  /\ "EXPIRED" \in _state => time >= began + _interval

-----------------------------------------------------------------------------
(* Every set of naturals has a least element.                               *)
LEMMA LeastExists ==
  ASSUME NEW S \in SUBSET Nat, S # {}
  PROVE  \E x \in S : \A y \in S : x <= y
<1> DEFINE R == OpToRel(<, Nat)
<1>1. \A x, y \in Nat : y < x => << y, x >> \in R
  BY DEF OpToRel
<1>2. IsWellFoundedOn(R, Nat)
  BY NatLessThanWellFounded
<1> HIDE DEF R
<1>3. PICK x \in S : \A y \in S : ~ (<< y, x >> \in R)
  BY <1>2, WFMin
<1>4. \A y \in S : ~ (y < x)
  BY <1>1, <1>3, Zenon
<1>5. \A y \in S : x <= y
  BY <1>4
<1> QED  BY <1>5

LEMMA MinIsLeast ==
  ASSUME NEW S \in SUBSET Nat, S # {}
  PROVE  Min(S) \in S /\ \A y \in S : Min(S) <= y
BY LeastExists DEF Min

LEMMA Division ==
  ASSUME NEW a \in Nat, NEW t \in Nat \ {0}
  PROVE  \E q \in Nat, r \in 0..(t - 1) : a = q * t + r
<1> DEFINE S == {r \in Nat : \E q \in Nat : a = q * t + r}
<1>1. a = 0 * t + a
  OBVIOUS
<1>2. S # {}
  BY <1>1
<1>3. PICK r \in S : \A y \in S : r <= y
  BY <1>2, LeastExists
<1>4. PICK q \in Nat : a = q * t + r
  BY <1>3
<1>5. r < t
  <2> SUFFICES ASSUME r >= t PROVE FALSE
    BY <1>3
  <2>1. a = (q + 1) * t + (r - t) /\ r - t \in Nat
    BY <1>3, <1>4
  <2>2. r - t \in S
    BY <2>1
  <2> QED  BY <1>3, <2>2
<1> QED  BY <1>3, <1>4, <1>5

LEMMA Residue ==
  ASSUME NEW c \in 0..(Ticks - 1), NEW n \in Int
  PROVE  (c + Ticks * n) % Ticks = c
BY TimerAssumption

(* The difference of two time stamps, less x, is that of the times.         *)
LEMMA StampsDiffer ==
  ASSUME NEW a \in Nat, NEW b \in Nat, NEW x \in Int, a - b - x \in 0..(Ticks - 1)
  PROVE  Minus(a % Ticks, (b % Ticks) + x) = a - b - x
<1>1. Ticks \in Nat \ {0}
  BY TimerAssumption
<1>2. PICK p \in Nat, r \in 0..(Ticks - 1) : a = p * Ticks + r
  BY <1>1, Division
<1>3. PICK q \in Nat, s \in 0..(Ticks - 1) : b = q * Ticks + s
  BY <1>1, Division
<1>4. a % Ticks = r
  <2>1. a = r + Ticks * p
    BY <1>1, <1>2
  <2> QED  BY <2>1, Residue
<1>5. b % Ticks = s
  <2>1. b = s + Ticks * q
    BY <1>1, <1>3
  <2> QED  BY <2>1, Residue
<1>6. r - (s + x) = (a - b - x) + Ticks * (q - p)
  BY <1>1, <1>2, <1>3
<1>7. (r - (s + x)) % Ticks = a - b - x
  BY <1>6, Residue
<1> QED  BY <1>4, <1>5, <1>7 DEF Minus

-----------------------------------------------------------------------------
(* checkExpiration() is right although the time stamps wrap around.         *)
LEMMA ExpirationIsTrue ==
  ASSUME TimerIInv, "ARMED" \in _state
  PROVE  CheckExpiration <=> time >= began + _interval
<1>1. time - began - 0 \in 0..(Ticks - 1)
  BY TimerAssumption DEF TimerIInv
<1>2. Minus(time % Ticks, (began % Ticks) + 0) = time - began - 0
  BY <1>1, StampsDiffer DEF TimerIInv
<1>3. (began % Ticks) + 0 = _start /\ time - began - 0 = time - began
  BY TimerAssumption DEF TimerIInv
<1> QED  BY <1>2, <1>3 DEF TimerIInv, CheckExpiration, Now

LEMMA ExpiresIsTrue ==
  ASSUME TimerIInv
  PROVE  Expires <=> /\ _state \cap {"STOPPED", "EXECUTED"} = {}
                     /\ time >= began + _interval
<1>1. CASE "ARMED" \in _state
  BY <1>1, ExpirationIsTrue DEF TimerIInv, Expires
<1>2. CASE "ARMED" \notin _state
  BY <1>2 DEF TimerIInv, Expires, CheckExpiration
<1> QED  BY <1>1, <1>2

(* The loop of execute() ends at the number of periods that have begun.     *)
LEMMA LoopsCountPeriods ==
  ASSUME TimerIInv, kind = "PeriodicTimer", Expires, _interval # 0
  PROVE  \E r \in 0..(_interval - 1) :
           /\ Loops \in Nat \ {0}
           /\ time - began = Loops * _interval + r
           /\ Count = IF r = 0 /\ Loops > 1 THEN Loops - 1 ELSE Loops
<1> DEFINE d == time - began
           i == _interval
<1>1. d \in Nat /\ i \in Nat \ {0} /\ d >= i /\ d < Ticks /\ Ticks \in Nat
  BY ExpiresIsTrue, TimerAssumption DEF TimerIInv
<1>2. PICK q \in Nat, r \in 0..(i - 1) : d = q * i + r
  BY <1>1, Division
<1>3. q >= 1
  <2>1. q = 0 => d = r
    BY <1>1, <1>2
  <2> QED  BY <1>1, <1>2, <2>1
<1>4. \A k \in 0..q : Diff(k) = d - k * i
  <2> SUFFICES ASSUME NEW k \in 0..q
               PROVE  Diff(k) = d - k * i
    OBVIOUS
  <2>1. k * i \in Nat /\ d - k * i = (q - k) * i + r /\ (q - k) * i \in Nat
    BY <1>1, <1>2
  <2>2. time - began - k * i \in 0..(Ticks - 1)
    BY <1>1, <1>2, <2>1
  <2>3. Minus(time % Ticks, (began % Ticks) + k * i) = time - began - k * i
    BY <2>1, <2>2, StampsDiffer DEF TimerIInv
  <2> QED  BY <2>3 DEF Diff, Now, TimerIInv
<1>5. Diff(q) = r
  BY <1>1, <1>2, <1>4
<1>6. \A k \in 0..(q - 1) : Diff(k) = (q - k) * i + r /\ (q - k) * i >= i
  <2> SUFFICES ASSUME NEW k \in 0..(q - 1)
               PROVE  Diff(k) = (q - k) * i + r /\ (q - k) * i >= i
    OBVIOUS
  <2>1. Diff(k) = d - k * i
    BY <1>3, <1>4
  <2>2. PICK n \in Nat : q - k = n + 1
    BY <1>3
  <2>3. n * i \in Nat /\ (n + 1) * i = n * i + i
    BY <1>1, <2>2
  <2>4. d - k * i = (q - k) * i + r
    BY <1>1, <1>2
  <2> QED  BY <1>1, <2>1, <2>2, <2>3, <2>4
<1>7. q <= Ticks
  <2>1. q * i >= q
    BY <1>1
  <2> QED  BY <1>1, <1>2, <2>1
<1>8. Loops = q
  <2> DEFINE S == {k \in 1..Ticks : Diff(k) < i}
  <2>1. q \in S
    BY <1>1, <1>2, <1>3, <1>5, <1>7
  <2>2. \A k \in 1..(q - 1) : k \notin S
    BY <1>1, <1>2, <1>6
  <2>3. S \in SUBSET (1..Ticks) /\ Loops = Min(S)
    BY DEF Loops
  <2> HIDE DEF S
  <2>4. S \in SUBSET Nat
    BY <2>3
  <2>5. Min(S) \in S /\ \A y \in S : Min(S) <= y
    BY <2>1, <2>4, MinIsLeast
  <2>6. Min(S) <= q /\ Min(S) \in Nat \ {0}
    <3>1. S \in SUBSET (1..Ticks)
      BY <2>3
    <3>2. Min(S) <= q /\ Min(S) \in 1..Ticks
      BY <2>1, <2>5, <3>1
    <3> QED  BY <1>1, <3>2
  <2>7. ~(Min(S) \in 1..(q - 1))
    BY <2>2, <2>5
  <2> QED  BY <1>3, <2>3, <2>6, <2>7
<1>9. Count = IF r = 0 /\ q > 1 THEN q - 1 ELSE q
  <2> DEFINE S == {k \in 1..q : Diff(k) # i}
  <2>1. Count = Cardinality(S)
    BY <1>8 DEF Count
  <2>2. IsFiniteSet(1..q) /\ Cardinality(1..q) = q
    BY <1>3, FS_Interval
  <2>3. \A k \in 1..q : Diff(k) = i => k = q - 1 /\ r = 0
    <3> SUFFICES ASSUME NEW k \in 1..q, Diff(k) = i
                 PROVE  k = q - 1 /\ r = 0
      OBVIOUS
    <3>1. k # q
      BY <1>1, <1>2, <1>5
    <3>2. (q - k) * i + r = i /\ (q - k) * i >= i
      BY <1>3, <1>6, <3>1
    <3>3. r = 0 /\ (q - k) * i = i
      BY <1>1, <1>2, <3>2
    <3>4. (q - k - 1) * i = 0
      BY <1>1, <3>3
    <3> QED  BY <1>1, <3>3, <3>4
  <2>4. CASE r = 0 /\ q > 1
    <3>1. Diff(q - 1) = i
      BY <1>1, <1>6, <2>4
    <3>2. S = (1..q) \ {q - 1}
      BY <1>3, <2>3, <2>4, <3>1
    <3>3. q - 1 \in 1..q
      BY <2>4
    <3>4. Cardinality((1..q) \ {q - 1}) = Cardinality(1..q) - 1
      BY <2>2, <3>3, FS_RemoveElement
    <3> QED  BY <2>1, <2>2, <2>4, <3>2, <3>4
  <2>5. CASE ~(r = 0 /\ q > 1)
    <3>1. S = 1..q
      BY <1>3, <2>3, <2>5
    <3> QED  BY <2>1, <2>2, <2>5, <3>1
  <2> QED  BY <2>4, <2>5
<1> QED  BY <1>2, <1>3, <1>8, <1>9

-----------------------------------------------------------------------------
LEMMA TimerInitIInv == TimerInit => TimerIInv
<1> SUFFICES ASSUME TimerInit PROVE TimerIInv
  OBVIOUS
<1>1. 0 % Ticks = 0
  BY TimerAssumption
<1> QED  BY <1>1, TimerAssumption DEF TimerInit, TimerIInv

LEMMA TimerNextIInv == TimerIInv /\ [TimerNext]_timerVars => TimerIInv'
<1> SUFFICES ASSUME TimerIInv, [TimerNext]_timerVars
             PROVE  TimerIInv'
  OBVIOUS
<1>1. CASE UNCHANGED timerVars
  BY <1>1 DEF timerVars, TimerIInv
<1>2. CASE Tick
  BY <1>2, TimerAssumption DEF Tick, LookedAtInTime, TimerIInv
<1>3. ASSUME NEW i \in Intervals \cup {_interval}, Restart(i)
      PROVE  TimerIInv'
  BY <1>3, TimerAssumption DEF Restart, Now, TimerIInv
<1>4. CASE Stop
  BY <1>4, TimerAssumption DEF Stop, TimerIInv
<1>5. CASE State
  BY <1>5, ExpirationIsTrue DEF State, LookedAt, CheckExpiration, TimerIInv
<1>6. CASE ExecuteFalse
  BY <1>6 DEF ExecuteFalse, TimerIInv
<1>7. CASE ExecuteTimeout
  BY <1>7, ExpiresIsTrue DEF ExecuteTimeout, TimerIInv
<1>8. CASE ExecutePeriodicTimer
  <2>1. /\ began' = NewStart /\ _start' = NewStart % Ticks /\ _state' = {"ARMED"}
        /\ UNCHANGED << kind, time, _interval >>
        /\ kind = "PeriodicTimer" /\ Expires
    BY <1>8 DEF ExecutePeriodicTimer
  <2>2. NewStart \in 0..time /\ time - NewStart < Ticks
    <3>1. CASE _interval = 0
      BY <3>1, TimerAssumption DEF NewStart, TimerIInv
    <3>2. CASE _interval # 0
      <4>1. PICK r \in 0..(_interval - 1) :
              Loops \in Nat \ {0} /\ time - began = Loops * _interval + r
        BY <2>1, <3>2, LoopsCountPeriods
      <4>2. Loops * _interval \in Nat
        BY <4>1 DEF TimerIInv
      <4> QED  BY <3>2, <4>1, <4>2, TimerAssumption DEF NewStart, TimerIInv
    <3> QED  BY <3>1, <3>2
  <2> QED  BY <2>1, <2>2 DEF TimerIInv
<1> QED
  BY <1>1, <1>2, <1>3, <1>4, <1>5, <1>6, <1>7, <1>8 DEF TimerNext

-----------------------------------------------------------------------------
(* For every width of the time stamps and every interval below their range: *)
(* state() says Expired if and only if the time is up.                      *)
THEOREM StatusCorrect == TimerSpec => []StatusIsTrue
<1>1. TimerIInv => StatusIsTrue
  <2> SUFFICES ASSUME TimerIInv PROVE StatusIsTrue
    OBVIOUS
  <2>1. LookedAt \cap {"ARMED", "EXPIRED", "STOPPED"} =
          IF "STOPPED" \in _state THEN {"STOPPED"}
          ELSE IF time >= began + _interval THEN {"EXPIRED"} ELSE {"ARMED"}
    BY ExpirationIsTrue DEF LookedAt, CheckExpiration, TimerIInv
  <2>2. Cardinality(LookedAt \cap {"ARMED", "EXPIRED", "STOPPED"}) = 1
    BY <2>1, FS_Singleton
  <2>3. "STOPPED" \in LookedAt <=> "STOPPED" \in _state
    BY <2>1
  <2>4. "STOPPED" \notin _state => ("EXPIRED" \in LookedAt <=> time >= began + _interval)
    BY <2>1
  <2> QED  BY <2>2, <2>3, <2>4 DEF StatusIsTrue
<1> QED  BY <1>1, TimerInitIInv, TimerNextIInv, PTL DEF TimerSpec

-----------------------------------------------------------------------------
(* Every step of the timer is a step of the ideal one, or changes nothing   *)
(* that the ideal one has.                                                  *)
LEMMA DueIsExpires ==
  ASSUME TimerIInv
  PROVE  Ideal!Due <=> Expires
<1>1. began + _interval # Never /\ Never = Never
  BY TimerAssumption DEF TimerIInv
<1> QED  BY <1>1, ExpiresIsTrue DEF Ideal!Due, deadline, TimerIInv

(* The periods that ended before now; and the next deadline.                *)
LEMMA PeriodsAreIdeal ==
  ASSUME TimerIInv, ExecutePeriodicTimer
  PROVE  Ideal!FirePeriod
<1>1. /\ kind = "PeriodicTimer" /\ Expires
      /\ began' = NewStart /\ _state' = {"ARMED"}
      /\ returned' = IF _interval = 0 THEN 1 ELSE Count
      /\ UNCHANGED << kind, time, _interval >>
  BY DEF ExecutePeriodicTimer
<1>2. deadline = began + _interval /\ deadline' = NewStart + _interval
  BY <1>1, ExpiresIsTrue DEF deadline
<1>3. CASE _interval = 0
  <2>1. NewStart = time /\ deadline' = time
    BY <1>2, <1>3 DEF NewStart, TimerIInv
  <2> QED  BY <1>1, <1>3, <2>1, DueIsExpires DEF Ideal!FirePeriod
<1>4. CASE _interval # 0
  <2> DEFINE q == Loops
             i == _interval
  <2>1. PICK r \in 0..(i - 1) :
          /\ q \in Nat \ {0}
          /\ time - began = q * i + r
          /\ Count = IF r = 0 /\ q > 1 THEN q - 1 ELSE q
    BY <1>1, <1>4, LoopsCountPeriods
  <2>2. i \in Nat \ {0} /\ time \in Nat /\ began \in 0..time
    BY <1>4 DEF TimerIInv
  <2> DEFINE last == IF r = 0 THEN q - 2 ELSE q - 1
  <2>3. Ideal!Ended = 0..last
    <3>1. q <= time
      <4>1. q * i >= q
        BY <2>1, <2>2
      <4> QED  BY <2>1, <2>2, <4>1
    <3>2. ASSUME NEW k \in Nat
          PROVE  deadline + k * i < time <=> k <= last
      <4>1. (q - 1 - k) * i = q * i - i - k * i /\ k * i \in Nat
        BY <2>1, <2>2
      <4>2. deadline + k * i < time <=> (q - 1 - k) * i + r > 0
        BY <1>2, <2>1, <2>2, <4>1
      <4>3. CASE k <= q - 1
        <5>1. PICK n \in Nat : q - 1 - k = n
          BY <2>1, <4>3
        <5>2. n * i \in Nat /\ (n * i = 0 <=> n = 0)
          BY <2>2
        <5> QED  BY <2>1, <2>2, <4>2, <4>3, <5>1, <5>2
      <4>4. CASE k >= q
        <5>1. PICK n \in Nat : q - 1 - k = -1 - n
          BY <2>1, <4>4
        <5>2. (-1 - n) * i = -i - n * i /\ n * i \in Nat
          BY <2>2
        <5> QED  BY <2>1, <2>2, <4>2, <4>4, <5>1, <5>2
      <4> QED  BY <2>1, <4>3, <4>4
    <3>3. \A k \in 0..last : k \in Nat /\ k <= time
      BY <2>1, <2>2, <3>1
    <3> QED  BY <2>2, <3>2, <3>3 DEF Ideal!Ended
  <2>4. returned' = IF Ideal!Ended = {} THEN 1 ELSE Cardinality(Ideal!Ended)
    <3>1. Cardinality(0..last) = IF 0 > last THEN 0 ELSE last + 1
      <4>1. last \in Int
        BY <2>1
      <4> HIDE DEF last
      <4>2. Cardinality(0..last) = IF 0 > last THEN 0 ELSE last - 0 + 1
        BY <4>1, FS_Interval
      <4> QED  BY <4>1, <4>2
    <3>2. 0..last = {} <=> last < 0
      <4>1. last \in Int
        BY <2>1
      <4> QED  BY <4>1
    <3> QED  BY <1>1, <1>4, <2>1, <2>3, <3>1, <3>2
  <2>5. /\ q \in 1..(time + 1)
        /\ deadline' = deadline + q * i
        /\ time < deadline' /\ deadline' <= time + i
    <3>1. NewStart = began + q * i
      BY <1>4 DEF NewStart
    <3>2. q * i \in Nat /\ q * i >= q
      BY <2>1, <2>2
    <3> QED  BY <1>2, <2>1, <2>2, <3>1, <3>2
  <2> HIDE DEF q
  <2>6. \E k \in 1..(time + 1) :
          /\ deadline' = deadline + k * _interval
          /\ time < deadline' /\ deadline' <= time + _interval
    BY <2>5
  <2>7. Ideal!Cardinality(Ideal!Ended) = Cardinality(Ideal!Ended)
    BY DEF Ideal!Cardinality, Cardinality, Ideal!IsFiniteSet, IsFiniteSet
  <2> QED  BY <1>1, <1>4, <2>4, <2>6, <2>7, DueIsExpires DEF Ideal!FirePeriod
<1> QED  BY <1>3, <1>4

LEMMA TimerStepIsIdeal ==
  ASSUME TimerIInv, [TimerNext]_timerVars
  PROVE  [Ideal!IdealNext]_(Ideal!idealVars)
<1>1. CASE UNCHANGED timerVars
  BY <1>1 DEF timerVars, Ideal!idealVars, deadline
<1>2. CASE Tick
  BY <1>2 DEF Tick, Ideal!IdealNext, Ideal!Pass, deadline
<1>3. ASSUME NEW i \in Intervals \cup {_interval}, Restart(i)
      PROVE  Ideal!IdealNext
  <2>1. Ideal!Set(i)
    BY <1>3 DEF Restart, Ideal!Set, deadline
  <2> QED  BY <2>1 DEF Ideal!IdealNext
<1>4. CASE Stop
  BY <1>4 DEF Stop, Ideal!IdealNext, Ideal!Cancel, deadline
<1>5. CASE State
  BY <1>5 DEF State, LookedAt, Ideal!idealVars, deadline, TimerIInv
<1>6. CASE ExecuteFalse
  BY <1>6, DueIsExpires DEF ExecuteFalse, Ideal!IdealNext, Ideal!TooEarly, deadline
<1>7. CASE ExecuteTimeout
  BY <1>7, DueIsExpires DEF ExecuteTimeout, Ideal!IdealNext, Ideal!FireOnce, deadline
<1>8. CASE ExecutePeriodicTimer
  BY <1>8, PeriodsAreIdeal DEF Ideal!IdealNext
<1> QED
  BY <1>1, <1>2, <1>3, <1>4, <1>5, <1>6, <1>7, <1>8 DEF TimerNext

(* For every width of the time stamps and every interval below their range, *)
(* both classes of timers are the timers that IdealTimer describes.         *)
THEOREM TimerCorrect == TimerSpec => TimerIsIdeal
<1>1. TimerInit => Ideal!IdealInit
  BY DEF TimerInit, Ideal!IdealInit, deadline
<1> QED
  BY <1>1, TimerStepIsIdeal, TimerInitIInv, TimerNextIInv, PTL
     DEF TimerSpec, TimerIsIdeal, Ideal!IdealSpec
=============================================================================
