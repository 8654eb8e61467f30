------------------------ MODULE Communication_proofs ------------------------
(***************************************************************************)
(* The two protocols between devices.  For every number of nodes, every    *)
(* list of services and every buffer, one fiber of an amnb node sends, it  *)
(* gives messages up after the right number of tries, and what request()   *)
(* returns is an answer to the call.  For every number of boards,          *)
(* components and messages, an xpcc callback is called at most once, an    *)
(* action runs at most three times for a call, an acknowledge is for a     *)
(* message that was delivered, and a response that arrives ends the wait.  *)
(***************************************************************************)
EXTENDS AmnbNode, XpccDispatcher, FiniteSetTheorems, SequenceTheorems,
        WellFoundedInduction, TLAPS

-----------------------------------------------------------------------------
(* modm::amnb::Node                                                        *)

(* The message that a fiber sends exists, and it still asks what the        *)
(* application has asked.                                                   *)
OutgoingExists ==
  \A n \in Nodes :
    /\ place[n]["transmit"] \in {"idle"} \cup Sending
    /\ place[n]["transmit"] \in Sending => tx_queue[n] # << >>
    /\ place[n]["request"] # "idle" =>
         /\ asked[n] # NoMessage /\ request_msg[n] # NoMessage
         /\ request_msg[n].address = asked[n].address
         /\ request_msg[n].command = asked[n].command

(* The tries that are left, with the ones that have been made.              *)
TriesLeft ==
  (\A c \in Commands : Priority[c] > 0) =>
    \A n \in Nodes :
      /\ ~is_sending[n] => tries[n] = 0
      /\ \A f \in Fibers :
           /\ place[n][f] \in {"busy", "backoff"} =>
                tx_counter[n] >= 1 /\ tries[n] + tx_counter[n] <= MinTxTries
           /\ place[n][f] = "air" =>
                tx_counter[n] >= 1 /\ tries[n] + tx_counter[n] <= MinTxTries + 1

(* TellsOf(), as it is when the answer is made: that the action has been    *)
(* called stays true, and one that was refused is never called.             *)
Told(msg, r) ==
  /\ msg.address = r.address /\ msg.command = r.command /\ msg.call = r.call
  /\ \/ /\ << msg.type, msg.payload >> = << "Error", "NoAction" >>
        /\ r.command \notin Actions[r.address]
     \/ /\ << msg.type, msg.payload >> = << "Response", "Refused" >>
        /\ r.payload = "misfit"
     \/ /\ << msg.type, msg.payload >> \in Outcomes
        /\ r \in executed[r.address]

(* The messages that a node may have sent: a request that was made, the     *)
(* truth about one.                                                         *)
Genuine ==
  {m \in Messages :
     /\ m.type = "Request" => m \in requests /\ m.payload \in {"argument", "misfit"}
     /\ IsAnswer(m) => \E r \in requests : Told(m, r)}

(* An action is called only with an argument that it takes.                 *)
ExecutedFits == \A n \in Nodes : \A r \in executed[n] : r.payload = "argument"

(* Whatever is on its way is genuine: in a queue, in a receive buffer, or   *)
(* taken for the answer of a request that has not returned.                 *)
AllGenuine ==
  /\ tx_queue \in [Nodes -> Seq(Genuine)]
  /\ inbox \in [Nodes -> Seq([msg : Genuine, whole : BOOLEAN])]
  /\ \A n \in Nodes : rx[n] # NoMessage =>
       /\ rx[n].arrival.msg \in Genuine
       /\ rx[n].ours /\ rx[n].arrival.msg.type = "Request" =>
            rx[n].arrival.msg.address = n
  /\ \A n \in Nodes :
       place[n]["request"] # "idle" => request_msg[n] \in Genuine

(* A response is received for a request that is in send() or after it.      *)
Statuses ==
  \A n \in Nodes :
    /\ response_status[n] # "NotWaiting" =>
         place[n]["request"] \notin {"idle", "claim"}
    /\ response_status[n] = "Received" => IsAnswer(request_msg[n])

(* What request() has returned.                                             *)
Returned ==
  \A n \in Nodes :
    place[n]["request"] = "idle" /\ asked[n] # NoMessage =>
      \/ request_msg[n] = NotAllocated
      \/ /\ request_msg[n].type = "Error"
         /\ request_msg[n].payload = "RequestTimeout"
         /\ request_msg[n].address = n
         /\ request_msg[n].command = asked[n].command
      \/ \E r \in requests :
           /\ r.address = asked[n].address /\ r.command = asked[n].command
           /\ Told(request_msg[n], r)

IInv ==
  /\ TypeOK
  /\ SendersExclude
  /\ OutgoingExists
  /\ TriesLeft
  /\ AllGenuine
  /\ Statuses
  /\ ExecutedFits
  /\ Returned

-----------------------------------------------------------------------------
LEMMA PushTyped ==
  ASSUME NEW S, tx_queue \in [Nodes -> Seq(S)], NEW n \in Nodes, NEW msg \in S,
         Push(n, msg)
  PROVE  /\ tx_queue' \in [Nodes -> Seq(S)]
         /\ \A m \in Nodes : tx_queue[m] # << >> => tx_queue'[m] # << >>
<1>1. Append(tx_queue[n], msg) \in Seq(S) /\ Append(tx_queue[n], msg) # << >>
  BY AppendProperties, EmptySeq
<1> QED  BY <1>1 DEF Push

LEMMA DeliverTyped ==
  ASSUME NEW S, inbox \in [Nodes -> Seq([msg : S, whole : BOOLEAN])],
         NEW n \in Nodes, NEW msg \in S, Deliver(n, msg)
  PROVE  inbox' \in [Nodes -> Seq([msg : S, whole : BOOLEAN])]
<1> DEFINE A == [msg : S, whole : BOOLEAN]
<1>1. [msg |-> msg, whole |-> TRUE] \in A /\ [msg |-> msg, whole |-> FALSE] \in A
  OBVIOUS
<1>2. \A m \in Nodes :
        /\ Append(inbox[m], [msg |-> msg, whole |-> TRUE]) \in Seq(A)
        /\ Append(inbox[m], [msg |-> msg, whole |-> FALSE]) \in Seq(A)
  BY <1>1, AppendProperties
<1>3. PICK whole, header \in SUBSET
             {m \in Nodes \ OnAir : Len(inbox[m]) < InboxSize} :
        inbox' = [m \in Nodes |->
          IF m \in whole
            THEN Append(inbox[m], [msg |-> msg, whole |-> TRUE])
            ELSE IF m \in header
              THEN Append(inbox[m], [msg |-> msg, whole |-> FALSE])
              ELSE inbox[m]]
  BY Zenon DEF Deliver
<1>4. \A m \in Nodes : inbox[m] \in Seq(A)
  OBVIOUS
<1> HIDE DEF A
<1>5. inbox' \in [Nodes -> Seq(A)]
  BY <1>2, <1>3, <1>4
<1> QED  BY <1>5 DEF A

LEMMA TailTyped ==
  ASSUME NEW S, NEW s \in Seq(S), s # << >>
  PROVE  Head(s) \in S /\ Tail(s) \in Seq(S)
BY HeadTailProperties

(* What is genuine stays so: an action that has been called has been.       *)
LEMMA ToldGrows ==
  ASSUME TypeOK, requests \subseteq requests',
         \A n \in Nodes : executed[n] \subseteq executed'[n],
         NEW m, NEW r \in requests, Told(m, r)
  PROVE  Told(m, r)'
<1>1. r.address \in Nodes
  BY DEF TypeOK, Messages
<1> QED  BY <1>1 DEF Told

LEMMA GenuineGrows ==
  ASSUME TypeOK, requests \subseteq requests',
         \A n \in Nodes : executed[n] \subseteq executed'[n]
  PROVE  /\ Genuine \subseteq Genuine'
         /\ Seq(Genuine) \subseteq Seq(Genuine')
         /\ Seq([msg : Genuine, whole : BOOLEAN])
              \subseteq Seq([msg : Genuine', whole : BOOLEAN])
<1>1. Genuine \subseteq Genuine'
  <2> SUFFICES ASSUME NEW m \in Genuine
               PROVE  m \in Genuine'
    OBVIOUS
  <2>1. IsAnswer(m) => \E r \in requests' : Told(m, r)'
    BY ToldGrows DEF Genuine
  <2> QED  BY <2>1 DEF Genuine
<1> QED  BY <1>1, SeqMonotonic

(* What has been returned stays as good as it was.                          *)
LEMMA ReturnedKept ==
  ASSUME TypeOK, Returned, requests \subseteq requests',
         \A n \in Nodes : executed[n] \subseteq executed'[n],
         \A n \in Nodes : place'[n]["request"] = "idle" =>
           /\ place[n]["request"] = "idle"
           /\ request_msg'[n] = request_msg[n] /\ asked'[n] = asked[n]
  PROVE  Returned'
<1> SUFFICES ASSUME NEW n \in Nodes, place'[n]["request"] = "idle",
                    asked'[n] # NoMessage
             PROVE  \/ request_msg'[n] = NotAllocated
                    \/ /\ request_msg'[n].type = "Error"
                       /\ request_msg'[n].payload = "RequestTimeout"
                       /\ request_msg'[n].address = n
                       /\ request_msg'[n].command = asked'[n].command
                    \/ \E r \in requests' :
                         /\ r.address = asked'[n].address
                         /\ r.command = asked'[n].command
                         /\ Told(request_msg[n], r)'
  BY DEF Returned, Told
<1> QED  BY ToldGrows DEF Returned

(* Nothing that is on its way changes, or a receiver has read a message.    *)
LEMMA GenuineKept ==
  ASSUME TypeOK, AllGenuine, UNCHANGED << tx_queue, inbox, executed, requests >>,
         \A m \in Nodes : rx'[m] # NoMessage => rx'[m] = rx[m],
         \A m \in Nodes :
           place'[m]["request"] # "idle" => request_msg'[m] \in Genuine
  PROVE  AllGenuine'
<1>1. Genuine' = Genuine
  BY DEF Genuine, Told
<1>2. /\ tx_queue' \in [Nodes -> Seq(Genuine')]
      /\ inbox' \in [Nodes -> Seq([msg : Genuine', whole : BOOLEAN])]
  <2>1. /\ tx_queue' \in [Nodes -> Seq(Genuine)]
        /\ inbox' \in [Nodes -> Seq([msg : Genuine, whole : BOOLEAN])]
    BY DEF AllGenuine
  <2> QED  BY <1>1, <2>1
<1>3. \A m \in Nodes : rx'[m] # NoMessage =>
        /\ rx'[m].arrival.msg \in Genuine'
        /\ rx'[m].ours /\ rx'[m].arrival.msg.type = "Request" =>
             rx'[m].arrival.msg.address = m
  <2> SUFFICES ASSUME NEW m \in Nodes, rx'[m] # NoMessage
               PROVE  /\ rx'[m].arrival.msg \in Genuine'
                      /\ rx'[m].ours /\ rx'[m].arrival.msg.type = "Request" =>
                           rx'[m].arrival.msg.address = m
    OBVIOUS
  <2>1. rx'[m] = rx[m]
    OBVIOUS
  <2>2. /\ rx[m].arrival.msg \in Genuine
        /\ rx[m].ours /\ rx[m].arrival.msg.type = "Request" =>
             rx[m].arrival.msg.address = m
    BY <2>1 DEF AllGenuine
  <2> QED  BY <1>1, <2>1, <2>2
<1>4. \A m \in Nodes :
        place'[m]["request"] # "idle" => request_msg'[m] \in Genuine'
  BY <1>1
<1> QED  BY <1>2, <1>3, <1>4 DEF AllGenuine

(* A step that executes nothing, and after which no call has returned that  *)
(* had not before.                                                          *)
LEMMA Undisturbed ==
  ASSUME IInv, UNCHANGED << executed, requests, asked >>,
         \A n \in Nodes : place'[n]["request"] = "idle" =>
           place[n]["request"] = "idle" /\ request_msg'[n] = request_msg[n]
  PROVE  ExecutedFits' /\ Returned'
<1>1. ExecutedFits'
  BY DEF IInv, ExecutedFits
<1>2. Returned'
  BY ReturnedKept DEF IInv
<1> QED  BY <1>1, <1>2

LEMMA AnswerTold ==
  ASSUME NEW msg \in Messages, NEW type \in Types, NEW payload \in Payloads
  PROVE  /\ Answer(msg, type, payload) \in Messages
         /\ Answer(msg, type, payload).type = type
         /\ Answer(msg, type, payload).payload = payload
         /\ Answer(msg, type, payload).address = msg.address
         /\ Answer(msg, type, payload).command = msg.command
         /\ Answer(msg, type, payload).call = msg.call
BY DEF Answer, Messages

(* The message in send().                                                   *)
LEMMA OutgoingGenuine ==
  ASSUME IInv, NEW n \in Nodes, NEW f \in Fibers,
         \/ place[n][f] \in Sending
         \/ f = "request" /\ place[n][f] = "claim"
         \/ f = "transmit" /\ tx_queue[n] # << >>
  PROVE  Outgoing(n, f) \in Genuine /\ Outgoing(n, f) \in Messages
<1>1. Genuine \subseteq Messages
  BY DEF Genuine
<1>2. CASE f = "request"
  <2>1. place[n]["request"] # "idle"
    BY <1>2 DEF Sending
  <2> QED  BY <1>1, <1>2, <2>1 DEF IInv, AllGenuine, Outgoing
<1>3. CASE f = "transmit"
  <2>1. tx_queue[n] # << >> /\ tx_queue[n] \in Seq(Genuine)
    BY <1>3 DEF IInv, OutgoingExists, AllGenuine
  <2>2. Head(tx_queue[n]) \in Genuine
    BY <2>1, TailTyped
  <2> QED  BY <1>1, <1>3, <2>2 DEF Outgoing
<1> QED  BY <1>2, <1>3 DEF Fibers

LEMMA PlaceMoved ==
  ASSUME TypeOK, NEW n \in Nodes, NEW f \in Fibers, NEW p \in Places,
         place' = [place EXCEPT ![n][f] = p]
  PROVE  /\ place' \in [Nodes -> [Fibers -> Places]]
         /\ place'[n][f] = p
         /\ \A g \in Fibers : g # f => place'[n][g] = place[n][g]
         /\ \A m \in Nodes : m # n => place'[m] = place[m]
         /\ (p = "idle" <=> place[n][f] = "idle") =>
              \A m \in Nodes :
                place'[m]["request"] = "idle" <=> place[m]["request"] = "idle"
         /\ f = "transmit" =>
              \A m \in Nodes : place'[m]["request"] = place[m]["request"]
<1>1. /\ place \in [Nodes -> [Fibers -> Places]]
      /\ "request" \in Fibers /\ "request" # "transmit"
  BY DEF TypeOK, Fibers
<1>2. place' = [place EXCEPT ![n] = [place[n] EXCEPT ![f] = p]]
  OBVIOUS
<1>3. [place[n] EXCEPT ![f] = p] \in [Fibers -> Places]
  BY <1>1
<1>4. /\ place' \in [Nodes -> [Fibers -> Places]]
      /\ \A m \in Nodes : m # n => place'[m] = place[m]
      /\ place'[n] = [place[n] EXCEPT ![f] = p]
  BY <1>1, <1>2, <1>3
<1>5. /\ place'[n][f] = p
      /\ \A g \in Fibers : g # f => place'[n][g] = place[n][g]
  BY <1>1, <1>4
<1> QED  BY <1>1, <1>4, <1>5

LEMMA AttemptTyped ==
  ASSUME TypeOK, NEW n \in Nodes, NEW f \in Fibers, NEW before \in Nat,
         Attempt(n, f, before)
  PROVE  /\ \E p \in {"busy", "air"} :
              /\ place' = [place EXCEPT ![n][f] = p]
              /\ tries' = [tries EXCEPT ![n] =
                             IF p = "air" THEN before + 1 ELSE before]
         /\ garbled' \subseteq Nodes
<1>1. garbled \subseteq Nodes /\ OnAir \subseteq Nodes
  BY DEF TypeOK, OnAir
<1>2. Collide(n) => garbled' \subseteq Nodes
  BY <1>1 DEF Collide
<1> QED  BY <1>1, <1>2 DEF Attempt, Goto

LEMMA InitialTriesBounds ==
  ASSUME NEW c \in Commands
  PROVE  /\ InitialTries(c) \in 0..(Counters - 1) /\ InitialTries(c) <= MinTxTries
         /\ Priority[c] > 0 => InitialTries(c) >= 1
<1>1. Priority[c] \in Nat
  BY AmnbAssumption
<1> QED  BY <1>1, AmnbAssumption DEF InitialTries

LEMMA DecrementBounds ==
  ASSUME TypeOK, NEW n \in Nodes
  PROVE  /\ Decrement(n) \in 0..(Counters - 1)
         /\ tx_counter[n] >= 1 => Decrement(n) = tx_counter[n] - 1
<1>1. tx_counter[n] \in 0..(Counters - 1) /\ Counters \in Nat
  BY AmnbAssumption DEF TypeOK
<1>2. CASE tx_counter[n] = 0
  BY <1>1, <1>2 DEF Decrement
<1>3. CASE tx_counter[n] >= 1
  <2> DEFINE x == tx_counter[n] - 1
  <2>1. x \in 0..(Counters - 1) /\ tx_counter[n] + Counters - 1 = Counters + x
    BY <1>1, <1>3
  <2> HIDE DEF x
  <2>2. (Counters + x) % Counters = x
    BY <2>1, <1>1
  <2> QED  BY <2>1, <2>2, <1>1, <1>3 DEF Decrement, x
<1> QED  BY <1>1, <1>2, <1>3

-----------------------------------------------------------------------------
LEMMA InitIInv == Init => IInv
<1> SUFFICES ASSUME Init
             PROVE  IInv
  OBVIOUS
<1>1. TypeOK
  BY EmptySeq, AmnbAssumption DEF Init, TypeOK, Fibers, Places
<1>2. SendersExclude /\ OutgoingExists
  BY DEF Init, SendersExclude, OutgoingExists, Sending, Fibers
<1>3. TriesLeft
  BY DEF Init, TriesLeft
<1>4. AllGenuine
  BY EmptySeq DEF Init, AllGenuine, Fibers
<1>5. Statuses /\ ExecutedFits /\ Returned
  BY DEF Init, Statuses, ExecutedFits, Returned
<1> QED  BY <1>1, <1>2, <1>3, <1>4, <1>5 DEF IInv

-----------------------------------------------------------------------------
(* The start of send(), for either caller.                                  *)
LEMMA ClaimKeeps ==
  ASSUME IInv, NEW n \in Nodes, NEW f \in Fibers, Claim(n, f),
         \/ /\ f = "request" /\ place[n][f] = "claim"
            /\ response_status' = [response_status EXCEPT ![n] = "Waiting"]
         \/ /\ f = "transmit" /\ place[n][f] = "idle" /\ tx_queue[n] # << >>
            /\ UNCHANGED response_status
  PROVE  IInv'
<1> USE DEF IInv
<1>1. /\ Outgoing(n, f).command \in Commands
      /\ InitialTries(Outgoing(n, f).command) \in 0..(Counters - 1)
  <2>1. Outgoing(n, f) \in Messages
    BY OutgoingGenuine
  <2> QED  BY <2>1, InitialTriesBounds DEF Messages
<1>2. /\ is_sending[n] = FALSE
      /\ is_sending' = [is_sending EXCEPT ![n] = TRUE]
      /\ tx_counter' = [tx_counter EXCEPT ![n] =
                          InitialTries(Outgoing(n, f).command)]
      /\ UNCHANGED << tx_queue, request_msg, calls, asked, requests, inbox, rx, executed >>
  BY DEF Claim, Free, receiverVars, TypeOK
<1>a. PICK p \in {"busy", "air"} :
        /\ place' = [place EXCEPT ![n][f] = p]
        /\ tries' = [tries EXCEPT ![n] = IF p = "air" THEN 0 + 1 ELSE 0]
  BY AttemptTyped DEF Claim
<1>b. /\ place' \in [Nodes -> [Fibers -> Places]]
      /\ place'[n][f] = p
      /\ \A g \in Fibers : g # f => place'[n][g] = place[n][g]
      /\ \A m \in Nodes : m # n => place'[m] = place[m]
      /\ f = "transmit" =>
           \A m \in Nodes : place'[m]["request"] = place[m]["request"]
  BY <1>a, PlaceMoved DEF Places
<1>c. /\ tries' \in [Nodes -> Nat]
      /\ tries'[n] = (IF p = "air" THEN 1 ELSE 0)
      /\ \A m \in Nodes : m # n => tries'[m] = tries[m]
  BY <1>a DEF TypeOK
<1>d. garbled' \subseteq Nodes
  BY AttemptTyped DEF Claim
<1>e. \A m \in Nodes :
        place'[m]["request"] = "idle" <=> place[m]["request"] = "idle"
  <2>1. CASE f = "request"
    BY <2>1, <1>b DEF Fibers
  <2>2. CASE f = "transmit"
    BY <2>2, <1>b
  <2> QED  BY <2>1, <2>2 DEF Fibers
<1>3. \A g \in Fibers : g # f => place'[n][g] \notin Sending
  BY <1>2, <1>b DEF SendersExclude
<1>4. TypeOK'
  BY <1>1, <1>2, <1>b, <1>c, <1>d DEF TypeOK
<1>5. SendersExclude'
  <2>1. is_sending'[n] /\ place'[n][f] \in Sending
    BY <1>2, <1>b DEF TypeOK, Sending
  <2>2. \A m \in Nodes : m # n => is_sending'[m] = is_sending[m]
    BY <1>2 DEF TypeOK
  <2> QED  BY <2>1, <2>2, <1>3, <1>b DEF SendersExclude
<1>6. OutgoingExists'
  <2>1. place'[n]["transmit"] \in {"idle"} \cup Sending
    BY <1>b DEF OutgoingExists, Sending, Fibers
  <2>2. place'[n]["transmit"] \in Sending => tx_queue[n] # << >>
    BY <1>3 DEF Fibers
  <2> QED  BY <2>1, <2>2, <1>2, <1>b, <1>e DEF OutgoingExists
<1>7. TriesLeft'
  <2> SUFFICES ASSUME \A c \in Commands : Priority[c] > 0
               PROVE  TriesLeft'
    BY DEF TriesLeft
  <2>1. /\ tx_counter'[n] >= 1 /\ tx_counter'[n] <= MinTxTries
        /\ tx_counter'[n] \in Nat
    BY <1>1, <1>2, InitialTriesBounds, AmnbAssumption DEF TypeOK
  <2>2. \A g \in Fibers :
          /\ place'[n][g] \in {"busy", "backoff"} =>
               tries'[n] + tx_counter'[n] <= MinTxTries
          /\ place'[n][g] = "air" =>
               tries'[n] + tx_counter'[n] <= MinTxTries + 1
    BY <2>1, <1>3, <1>b, <1>c, AmnbAssumption DEF Sending
  <2>3. \A m \in Nodes : m # n =>
          /\ place'[m] = place[m] /\ tries'[m] = tries[m]
          /\ tx_counter'[m] = tx_counter[m] /\ is_sending'[m] = is_sending[m]
    BY <1>2, <1>b, <1>c DEF TypeOK
  <2>4. is_sending'[n] = TRUE
    BY <1>2 DEF TypeOK
  <2> QED  BY <2>1, <2>2, <2>3, <2>4 DEF TriesLeft
<1>8. AllGenuine'
  <2>1. Genuine' = Genuine
    BY <1>2 DEF Genuine, Told
  <2> QED  BY <1>2, <2>1, <1>e DEF AllGenuine
<1>9. ExecutedFits' /\ Returned'
  BY <1>2, <1>e, Undisturbed
<1>10. Statuses'
  <2>1. CASE f = "request"
    <3>1. place'[n]["request"] \notin {"idle", "claim"}
      BY <2>1, <1>b
    <3>2. /\ response_status'[n] = "Waiting"
          /\ \A m \in Nodes : m # n => response_status'[m] = response_status[m]
      BY <2>1 DEF TypeOK
    <3> QED  BY <3>1, <3>2, <1>b, <1>2 DEF Statuses, IsAnswer
  <2>2. CASE f = "transmit"
    BY <2>2, <1>b, <1>2 DEF Statuses, IsAnswer
  <2> QED  BY <2>1, <2>2 DEF Fibers
<1> QED  BY <1>4, <1>5, <1>6, <1>7, <1>8, <1>9, <1>10

LEMMA RescheduleKeeps ==
  ASSUME IInv, NEW n \in Nodes, NEW f \in Fibers, Reschedule(n, f)
  PROVE  IInv'
<1> USE DEF IInv
<1>1. /\ place[n][f] = "busy" /\ place' = [place EXCEPT ![n][f] = "backoff"]
      /\ UNCHANGED << is_sending, tx_counter, tries, tx_queue, request_msg,
                      response_status, calls, asked, requests, inbox, rx, garbled,
                      executed >>
  BY DEF Reschedule, Goto, requestVars, receiverVars
<1>a. /\ place' \in [Nodes -> [Fibers -> Places]]
      /\ place'[n][f] = "backoff"
      /\ \A g \in Fibers : g # f => place'[n][g] = place[n][g]
      /\ \A m \in Nodes : m # n => place'[m] = place[m]
      /\ \A m \in Nodes :
           place'[m]["request"] = "idle" <=> place[m]["request"] = "idle"
  BY <1>1, PlaceMoved DEF Places
<1>2. TypeOK'
  BY <1>1, <1>a DEF TypeOK
<1>3. SendersExclude' /\ OutgoingExists'
  <2>1. \A m \in Nodes, g \in Fibers :
          place'[m][g] \in Sending <=> place[m][g] \in Sending
    BY <1>1, <1>a DEF Sending
  <2>2. place'[n]["transmit"] \in {"idle"} \cup Sending
    BY <1>a DEF OutgoingExists, Sending, Fibers
  <2> QED  BY <1>1, <1>a, <2>1, <2>2 DEF SendersExclude, OutgoingExists, Fibers
<1>4. TriesLeft'
  BY <1>1, <1>a DEF TriesLeft
<1>5. AllGenuine' /\ ExecutedFits' /\ Returned'
  <2>1. Genuine' = Genuine
    BY <1>1 DEF Genuine, Told
  <2>8. ExecutedFits' /\ Returned'
    BY <1>1, <1>a, <2>1, Undisturbed
  <2> QED  BY <1>1, <1>a, <2>1, <2>8 DEF AllGenuine
<1>6. Statuses'
  <2>1. \A m \in Nodes :
          place[m]["request"] \notin {"idle", "claim"} =>
            place'[m]["request"] \notin {"idle", "claim"}
    BY <1>1, <1>a DEF Fibers
  <2> QED  BY <1>1, <2>1 DEF Statuses, IsAnswer
<1> QED  BY <1>2, <1>3, <1>4, <1>5, <1>6

LEMMA TryAgainKeeps ==
  ASSUME IInv, NEW n \in Nodes, NEW f \in Fibers, TryAgain(n, f)
  PROVE  IInv'
<1> USE DEF IInv
<1>0. tries[n] \in Nat
  BY DEF TypeOK
<1>1. /\ place[n][f] = "backoff"
      /\ UNCHANGED << is_sending, tx_counter, tx_queue, request_msg,
                      response_status, calls, asked, requests, inbox, rx, executed >>
  BY DEF TryAgain, requestVars, receiverVars
<1>a. PICK p \in {"busy", "air"} :
        /\ place' = [place EXCEPT ![n][f] = p]
        /\ tries' = [tries EXCEPT ![n] =
                       IF p = "air" THEN tries[n] + 1 ELSE tries[n]]
  BY <1>0, AttemptTyped DEF TryAgain
<1>b. /\ place' \in [Nodes -> [Fibers -> Places]]
      /\ place'[n][f] = p
      /\ \A g \in Fibers : g # f => place'[n][g] = place[n][g]
      /\ \A m \in Nodes : m # n => place'[m] = place[m]
      /\ \A m \in Nodes :
           place'[m]["request"] = "idle" <=> place[m]["request"] = "idle"
  BY <1>1, <1>a, PlaceMoved DEF Places
<1>c. /\ tries' \in [Nodes -> Nat]
      /\ tries'[n] = (IF p = "air" THEN tries[n] + 1 ELSE tries[n])
      /\ \A m \in Nodes : m # n => tries'[m] = tries[m]
  BY <1>0, <1>a DEF TypeOK
<1>d. garbled' \subseteq Nodes
  BY <1>0, AttemptTyped DEF TryAgain
<1>3. TypeOK'
  BY <1>1, <1>b, <1>c, <1>d DEF TypeOK
<1>4. SendersExclude' /\ OutgoingExists'
  <2>1. \A m \in Nodes, g \in Fibers :
          place'[m][g] \in Sending <=> place[m][g] \in Sending
    BY <1>1, <1>b DEF Sending
  <2>2. place'[n]["transmit"] \in {"idle"} \cup Sending
    BY <1>b DEF OutgoingExists, Sending, Fibers
  <2> QED  BY <1>1, <1>b, <2>1, <2>2 DEF SendersExclude, OutgoingExists, Fibers
<1>5. TriesLeft'
  <2>1. is_sending[n] /\ \A g \in Fibers : g # f => place'[n][g] \notin Sending
    BY <1>1, <1>b DEF SendersExclude, Sending
  <2>2. tx_counter[n] \in Nat
    BY AmnbAssumption DEF TypeOK
  <2>3. MinTxTries \in Nat
    BY AmnbAssumption
  <2> SUFFICES ASSUME \A c \in Commands : Priority[c] > 0, NEW m \in Nodes
               PROVE  /\ ~is_sending[m] => tries'[m] = 0
                      /\ \A g \in Fibers :
                           /\ place'[m][g] \in {"busy", "backoff"} =>
                                /\ tx_counter[m] >= 1
                                /\ tries'[m] + tx_counter[m] <= MinTxTries
                           /\ place'[m][g] = "air" =>
                                /\ tx_counter[m] >= 1
                                /\ tries'[m] + tx_counter[m] <= MinTxTries + 1
    BY <1>1 DEF TriesLeft
  <2>4. CASE m # n
    BY <1>b, <1>c, <2>4 DEF TriesLeft
  <2>5. CASE m = n
    <3>1. tx_counter[n] >= 1 /\ tries[n] + tx_counter[n] <= MinTxTries
      BY <1>1 DEF TriesLeft
    <3>2. p = "air" => tries'[n] + tx_counter[n] <= MinTxTries + 1
      BY <1>0, <1>c, <2>2, <2>3, <3>1
    <3>3. p = "busy" => tries'[n] + tx_counter[n] <= MinTxTries
      BY <1>c, <3>1
    <3> QED  BY <1>b, <2>1, <2>5, <3>1, <3>2, <3>3 DEF Sending
  <2> QED  BY <2>4, <2>5
<1>6. AllGenuine' /\ ExecutedFits' /\ Returned'
  <2>1. Genuine' = Genuine
    BY <1>1 DEF Genuine, Told
  <2>8. ExecutedFits' /\ Returned'
    BY <1>1, <1>b, <2>1, Undisturbed
  <2> QED  BY <1>1, <1>b, <2>1, <2>8 DEF AllGenuine
<1>7. Statuses'
  <2>1. \A m \in Nodes :
          place[m]["request"] \notin {"idle", "claim"} =>
            place'[m]["request"] \notin {"idle", "claim"}
    BY <1>1, <1>b DEF Fibers
  <2> QED  BY <1>1, <2>1 DEF Statuses, IsAnswer
<1> QED  BY <1>3, <1>4, <1>5, <1>6, <1>7

(* send() returns.                                                          *)
LEMMA LeaveKeeps ==
  ASSUME IInv, NEW n \in Nodes, NEW f \in Fibers, place[n][f] = "air",
         Leave(n, f), tx_counter' \in [Nodes -> 0..(Counters - 1)],
         \A m \in Nodes : m # n => tx_counter'[m] = tx_counter[m],
         inbox' = inbox \/ Deliver(n, Outgoing(n, f)),
         garbled' \subseteq Nodes,
         UNCHANGED << request_msg, response_status, calls, asked, requests, rx, executed >>
  PROVE  IInv'
<1> USE DEF IInv
<1>0. place[n][f] \in Sending /\ is_sending[n]
  BY DEF SendersExclude, Sending
<1>1. /\ is_sending' = [is_sending EXCEPT ![n] = FALSE]
      /\ tries' = [tries EXCEPT ![n] = 0]
      /\ \/ /\ f = "request" /\ place' = [place EXCEPT ![n][f] = "waiting"]
            /\ tx_queue' = tx_queue
         \/ /\ f = "transmit" /\ place' = [place EXCEPT ![n][f] = "idle"]
            /\ tx_queue' = [tx_queue EXCEPT ![n] = Tail(tx_queue[n])]
  BY DEF Leave, Goto, SendingAfter, Popped, Fibers
<1>2. f = "transmit" => tx_queue[n] # << >>
  BY <1>0 DEF OutgoingExists
<1>3. tx_queue' \in [Nodes -> Seq(Messages)] /\ tx_queue' \in [Nodes -> Seq(Genuine)]
  <2>1. f = "transmit" =>
          Tail(tx_queue[n]) \in Seq(Messages) /\ Tail(tx_queue[n]) \in Seq(Genuine)
    <3>1. tx_queue[n] \in Seq(Messages) /\ tx_queue[n] \in Seq(Genuine)
      BY DEF TypeOK, AllGenuine
    <3> QED  BY <1>2, <3>1, TailTyped
  <2> QED  BY <1>1, <2>1 DEF TypeOK, AllGenuine
<1>4. /\ inbox' \in [Nodes -> Seq(Arrivals)]
      /\ inbox' \in [Nodes -> Seq([msg : Genuine, whole : BOOLEAN])]
  <2>1. Outgoing(n, f) \in Genuine /\ Outgoing(n, f) \in Messages
    BY <1>0, OutgoingGenuine
  <2> QED  BY <2>1, DeliverTyped DEF TypeOK, AllGenuine, Arrivals
<1>a. /\ place' \in [Nodes -> [Fibers -> Places]]
      /\ place'[n][f] = (IF f = "request" THEN "waiting" ELSE "idle")
      /\ \A g \in Fibers : g # f => place'[n][g] = place[n][g]
      /\ \A m \in Nodes : m # n => place'[m] = place[m]
      /\ f = "transmit" =>
           \A m \in Nodes : place'[m]["request"] = place[m]["request"]
  BY <1>1, PlaceMoved DEF Places
<1>5. TypeOK'
  BY <1>1, <1>3, <1>4, <1>a DEF TypeOK
<1>6. \A g \in Fibers : place'[n][g] \notin Sending
  BY <1>0, <1>a DEF SendersExclude, Sending
<1>7. \A m \in Nodes : m # n =>
        /\ place'[m] = place[m] /\ is_sending'[m] = is_sending[m]
        /\ tries'[m] = tries[m] /\ tx_queue'[m] = tx_queue[m]
        /\ tx_counter'[m] = tx_counter[m]
  BY <1>1, <1>a DEF TypeOK, AllGenuine
<1>8. is_sending'[n] = FALSE /\ tries'[n] = 0
  BY <1>1 DEF TypeOK
<1>9. SendersExclude'
  BY <1>6, <1>7, <1>8 DEF SendersExclude
<1>10. \A m \in Nodes :
         place'[m]["request"] = "idle" <=> place[m]["request"] = "idle"
  <2>1. CASE f = "request"
    BY <2>1, <1>a DEF Fibers
  <2>2. CASE f = "transmit"
    BY <2>2, <1>a
  <2> QED  BY <2>1, <2>2 DEF Fibers
<1>11. OutgoingExists'
  <2>1. place'[n]["transmit"] \in {"idle"} \cup Sending
    BY <1>a DEF OutgoingExists, Fibers
  <2> QED  BY <1>6, <1>7, <1>10, <2>1 DEF OutgoingExists, Fibers
<1>12. TriesLeft'
  <2>1. "busy" \in Sending /\ "backoff" \in Sending /\ "air" \in Sending
    BY DEF Sending
  <2> QED  BY <1>6, <1>7, <1>8, <2>1 DEF TriesLeft
<1>13. Genuine' = Genuine
  BY DEF Genuine, Told
<1>14. AllGenuine'
  BY <1>3, <1>4, <1>13, <1>10 DEF AllGenuine
<1>16. ExecutedFits' /\ Returned'
  BY <1>10, Undisturbed
<1>15. Statuses'
  <2>1. f = "request" => place'[n]["request"] = "waiting"
    BY <1>a
  <2> QED  BY <1>a, <2>1 DEF Statuses, IsAnswer, Fibers
<1> QED  BY <1>5, <1>9, <1>11, <1>12, <1>14, <1>15, <1>16

LEMMA TransmittedKeeps ==
  ASSUME IInv, NEW n \in Nodes, NEW f \in Fibers, Transmitted(n, f)
  PROVE  IInv'
<1>1. garbled' \subseteq Nodes /\ tx_counter' \in [Nodes -> 0..(Counters - 1)]
  BY DEF IInv, TypeOK, Transmitted
<1> QED  BY <1>1, LeaveKeeps DEF Transmitted, requestVars

LEMMA FailedKeeps ==
  ASSUME IInv, NEW n \in Nodes, NEW f \in Fibers, Failed(n, f)
  PROVE  IInv'
<1> USE DEF IInv
<1>1. /\ tx_counter' \in [Nodes -> 0..(Counters - 1)]
      /\ \A m \in Nodes : m # n => tx_counter'[m] = tx_counter[m]
      /\ tx_counter'[n] = Decrement(n)
  BY DecrementBounds DEF Failed, TypeOK
<1>2. /\ place[n][f] = "air" /\ garbled' \subseteq Nodes
      /\ inbox' = inbox \/ Deliver(n, Outgoing(n, f))
      /\ UNCHANGED << request_msg, response_status, calls, asked, requests, rx, executed >>
  BY DEF Failed, requestVars, TypeOK
<1>3. CASE GiveUp(n)
  BY <1>1, <1>2, <1>3, LeaveKeeps DEF Failed
<1>4. CASE ~GiveUp(n)
  <2>0. /\ place' = [place EXCEPT ![n][f] = "busy"]
        /\ UNCHANGED << is_sending, tries, tx_queue >>
    BY <1>4 DEF Failed, Goto
  <2>a. /\ place' \in [Nodes -> [Fibers -> Places]]
        /\ place'[n][f] = "busy"
        /\ \A g \in Fibers : g # f => place'[n][g] = place[n][g]
        /\ \A m \in Nodes : m # n => place'[m] = place[m]
        /\ \A m \in Nodes :
             place'[m]["request"] = "idle" <=> place[m]["request"] = "idle"
    BY <1>2, <2>0, PlaceMoved DEF Places
  <2>1. /\ inbox' \in [Nodes -> Seq(Arrivals)]
        /\ inbox' \in [Nodes -> Seq([msg : Genuine, whole : BOOLEAN])]
    <3>1. Outgoing(n, f) \in Genuine /\ Outgoing(n, f) \in Messages
      BY <1>2, OutgoingGenuine DEF Sending
    <3> QED  BY <1>2, <3>1, DeliverTyped DEF TypeOK, AllGenuine, Arrivals
  <2>2. TypeOK'
    BY <1>1, <1>2, <2>0, <2>a, <2>1 DEF TypeOK
  <2>3. SendersExclude' /\ OutgoingExists'
    <3>1. \A m \in Nodes, g \in Fibers :
            place'[m][g] \in Sending <=> place[m][g] \in Sending
      BY <1>2, <2>a DEF Sending
    <3>2. place'[n]["transmit"] \in {"idle"} \cup Sending
      BY <2>a DEF OutgoingExists, Sending, Fibers
    <3> QED  BY <1>2, <2>0, <2>a, <3>1, <3>2
             DEF SendersExclude, OutgoingExists, Fibers
  <2>4. TriesLeft'
    <3>1. is_sending[n] /\ \A g \in Fibers : g # f => place'[n][g] \notin Sending
      BY <1>2, <2>a DEF SendersExclude, Sending
    <3>2. /\ tx_counter[n] \in Nat /\ tries[n] \in Nat /\ tx_counter[n] # 1
          /\ tx_counter[n] >= 1 => tx_counter'[n] = tx_counter[n] - 1
      BY <1>1, <1>4, DecrementBounds, AmnbAssumption DEF TypeOK, GiveUp
    <3> QED  BY <1>1, <1>2, <2>0, <2>a, <3>1, <3>2, AmnbAssumption
             DEF TriesLeft, Sending
  <2>5. AllGenuine' /\ ExecutedFits' /\ Returned'
    <3>1. Genuine' = Genuine
      BY <1>2 DEF Genuine, Told
    <3>8. ExecutedFits' /\ Returned'
      BY <1>2, <2>0, <2>1, <2>a, <3>1, Undisturbed
    <3> QED  BY <1>2, <2>0, <2>1, <2>a, <3>1, <3>8 DEF AllGenuine
  <2>6. Statuses'
    <3>1. \A m \in Nodes :
            place[m]["request"] \notin {"idle", "claim"} =>
              place'[m]["request"] \notin {"idle", "claim"}
      BY <1>2, <2>a DEF Fibers
    <3> QED  BY <1>2, <3>1 DEF Statuses, IsAnswer
  <2> QED  BY <2>2, <2>3, <2>4, <2>5, <2>6
<1> QED  BY <1>3, <1>4

-----------------------------------------------------------------------------
(* The application.                                                         *)
LEMMA BroadcastKeeps ==
  ASSUME IInv, NEW n \in Nodes, NEW msg \in Calls[n], Broadcast(n, msg)
  PROVE  IInv'
<1> USE DEF IInv
<1>1. /\ msg.type = "Broadcast" /\ Push(n, msg)
      /\ calls' = [calls EXCEPT ![n] = calls[n] + 1]
      /\ UNCHANGED << place, is_sending, tx_counter, tries, request_msg,
                      response_status, asked, requests, inbox, rx, garbled, executed >>
  BY DEF Broadcast, Called, senderVars, requestVars, receiverVars
<1>2. msg \in Messages /\ msg \in Genuine
  BY <1>1, AmnbAssumption DEF Genuine, IsAnswer
<1>3. /\ tx_queue' \in [Nodes -> Seq(Messages)]
      /\ tx_queue' \in [Nodes -> Seq(Genuine)]
      /\ \A m \in Nodes : tx_queue[m] # << >> => tx_queue'[m] # << >>
  <2>1. /\ tx_queue \in [Nodes -> Seq(Messages)]
        /\ tx_queue \in [Nodes -> Seq(Genuine)]
    BY DEF TypeOK, AllGenuine
  <2> QED  BY <1>1, <1>2, <2>1, PushTyped
<1>4. TypeOK'
  <2>1. calls' \in [Nodes -> Nat]
    BY <1>1 DEF TypeOK
  <2> QED  BY <1>1, <1>3, <2>1 DEF TypeOK
<1>5. SendersExclude' /\ OutgoingExists' /\ TriesLeft' /\ Statuses'
  BY <1>1, <1>3 DEF SendersExclude, OutgoingExists, TriesLeft, Statuses, IsAnswer
<1>6. AllGenuine' /\ ExecutedFits' /\ Returned'
  <2>1. Genuine' = Genuine
    BY <1>1 DEF Genuine, Told
  <2>8. ExecutedFits' /\ Returned'
    BY <1>1, <1>3, <2>1, Undisturbed
  <2> QED  BY <1>1, <1>3, <2>1, <2>8 DEF AllGenuine
<1> QED  BY <1>4, <1>5, <1>6

LEMMA RequestKeeps ==
  ASSUME IInv, NEW n \in Nodes, NEW call \in Calls[n], Request(n, call)
  PROVE  IInv'
<1> USE DEF IInv
<1>0. PICK msg : msg = [call EXCEPT !.call = << n, calls[n] + 1 >>]
  OBVIOUS
<1>1. /\ call.type = "Request" /\ place[n]["request"] = "idle"
      /\ calls' = [calls EXCEPT ![n] = calls[n] + 1]
      /\ request_msg' = [request_msg EXCEPT ![n] = msg]
      /\ asked' = [asked EXCEPT ![n] = msg]
      /\ requests' = requests \cup {msg}
      /\ UNCHANGED << is_sending, tx_counter, tries, tx_queue, response_status,
                      inbox, rx, garbled, executed >>
  BY <1>0 DEF Request, Called, Goto, receiverVars
<1>2. /\ msg \in Messages /\ msg # NoMessage /\ msg.type = "Request"
      /\ msg.payload \in {"argument", "misfit"}
  <2>1. call \in Messages /\ call.payload \in {"argument", "misfit"}
    BY AmnbAssumption
  <2>2. << n, calls[n] + 1 >> \in Nodes \X Nat
    BY DEF TypeOK
  <2> QED  BY <1>0, <1>1, <2>1, <2>2, AmnbAssumption DEF Messages
<1>c. /\ requests \subseteq requests' /\ executed' = executed
      /\ Genuine \subseteq Genuine'
      /\ Seq(Genuine) \subseteq Seq(Genuine')
      /\ Seq([msg : Genuine, whole : BOOLEAN])
           \subseteq Seq([msg : Genuine', whole : BOOLEAN])
  BY <1>1, GenuineGrows
<1>d. msg \in Genuine'
  BY <1>1, <1>2 DEF Genuine, IsAnswer
<1>a. /\ place' \in [Nodes -> [Fibers -> Places]]
      /\ place'[n]["request"] = "claim"
      /\ \A g \in Fibers : g # "request" => place'[n][g] = place[n][g]
      /\ \A m \in Nodes : m # n => place'[m] = place[m]
  BY PlaceMoved DEF Places, Fibers, Request, Goto
<1>b. \A m \in Nodes, g \in Fibers :
        \A p \in Sending : place'[m][g] = p <=> place[m][g] = p
  <2>1. "claim" \notin Sending /\ "idle" \notin Sending
    BY DEF Sending
  <2> QED  BY <1>1, <1>a, <2>1
<1>3. TypeOK'
  <2>1. calls' \in [Nodes -> Nat]
    BY <1>1 DEF TypeOK
  <2>2. /\ request_msg' \in [Nodes -> Messages \cup {NoMessage, NotAllocated}]
        /\ asked' \in [Nodes -> Messages \cup {NoMessage}]
        /\ requests' \subseteq Messages
    BY <1>1, <1>2 DEF TypeOK
  <2> QED  BY <1>1, <1>a, <2>1, <2>2 DEF TypeOK
<1>4. SendersExclude' /\ TriesLeft'
  <2>1. "busy" \in Sending /\ "backoff" \in Sending /\ "air" \in Sending
    BY DEF Sending
  <2>2. \A m \in Nodes, g \in Fibers :
          place'[m][g] \in Sending <=> place[m][g] \in Sending
    BY <1>b
  <2> QED  BY <1>1, <1>b, <2>1, <2>2 DEF SendersExclude, TriesLeft
<1>5. OutgoingExists'
  <2>1. \A m \in Nodes : place'[m]["transmit"] = place[m]["transmit"]
    BY <1>a DEF Fibers
  <2>2. /\ request_msg'[n] = msg /\ asked'[n] = msg
        /\ \A m \in Nodes : m # n =>
             request_msg'[m] = request_msg[m] /\ asked'[m] = asked[m]
    BY <1>1 DEF TypeOK
  <2> QED  BY <1>1, <1>2, <1>a, <2>1, <2>2 DEF OutgoingExists
<1>6. AllGenuine' /\ ExecutedFits' /\ Returned'
  <2>2. /\ request_msg'[n] = msg
        /\ \A m \in Nodes : m # n =>
             request_msg'[m] = request_msg[m] /\ asked'[m] = asked[m]
    BY <1>1 DEF TypeOK
  <2>3. AllGenuine'
    <3>1. \A m \in Nodes :
            place'[m]["request"] # "idle" => request_msg'[m] \in Genuine'
      BY <1>a, <1>c, <1>d, <2>2 DEF AllGenuine
    <3>2. /\ tx_queue' \in [Nodes -> Seq(Genuine')]
          /\ inbox' \in [Nodes -> Seq([msg : Genuine', whole : BOOLEAN])]
      BY <1>1, <1>c DEF AllGenuine
    <3> QED  BY <1>1, <1>c, <3>1, <3>2 DEF AllGenuine
  <2>4. Returned'
    BY <1>a, <1>c, <2>2, ReturnedKept
  <2> QED  BY <1>1, <2>3, <2>4 DEF ExecutedFits
<1>7. Statuses'
  <2>1. response_status[n] = "NotWaiting"
    BY <1>1 DEF Statuses
  <2>2. \A m \in Nodes : m # n => request_msg'[m] = request_msg[m]
    BY <1>1 DEF TypeOK
  <2> QED  BY <1>1, <1>a, <2>1, <2>2 DEF Statuses, IsAnswer
<1> QED  BY <1>3, <1>4, <1>5, <1>6, <1>7

LEMMA RequestUnallocatedKeeps ==
  ASSUME IInv, NEW n \in Nodes, NEW msg \in Calls[n], RequestUnallocated(n, msg)
  PROVE  IInv'
<1> USE DEF IInv
<1>1. /\ place[n]["request"] = "idle"
      /\ calls' = [calls EXCEPT ![n] = calls[n] + 1]
      /\ request_msg' = [request_msg EXCEPT ![n] = NotAllocated]
      /\ UNCHANGED << place, is_sending, tx_counter, tries, tx_queue,
                      response_status, asked, requests, inbox, rx, garbled,
                      executed >>
  BY DEF RequestUnallocated, Called, senderVars, receiverVars
<1>2. /\ request_msg' \in [Nodes -> Messages \cup {NoMessage, NotAllocated}]
      /\ request_msg'[n] = NotAllocated
      /\ \A m \in Nodes : m # n => request_msg'[m] = request_msg[m]
      /\ calls' \in [Nodes -> Nat]
  BY <1>1 DEF TypeOK
<1>3. TypeOK'
  BY <1>1, <1>2 DEF TypeOK
<1>4. SendersExclude' /\ OutgoingExists' /\ TriesLeft' /\ ExecutedFits'
  BY <1>1, <1>2 DEF SendersExclude, OutgoingExists, TriesLeft, ExecutedFits
<1>5. AllGenuine'
  <2>1. \A m \in Nodes :
          place'[m]["request"] # "idle" => request_msg'[m] \in Genuine
    BY <1>1, <1>2 DEF AllGenuine
  <2>2. \A m \in Nodes : rx'[m] # NoMessage => rx'[m] = rx[m]
    BY <1>1
  <2> QED  BY <1>1, <2>1, <2>2, GenuineKept
<1>6. Statuses'
  BY <1>1, <1>2 DEF Statuses, IsAnswer
<1>7. Returned'
  <2>1. \A r, m : Told(m, r)' <=> Told(m, r)
    BY <1>1 DEF Told
  <2> QED  BY <1>1, <1>2, <2>1 DEF Returned, Told
<1> QED  BY <1>3, <1>4, <1>5, <1>6, <1>7

LEMMA ReturnKeeps ==
  ASSUME IInv, NEW n \in Nodes, NEW expired \in BOOLEAN, Return(n, expired)
  PROVE  IInv'
<1> USE DEF IInv
<1> DEFINE timeout == [request_msg[n] EXCEPT !.type = "Error", !.address = n,
                                             !.payload = "RequestTimeout"]
           answer == IF expired THEN timeout ELSE request_msg[n]
<1>1. /\ place[n]["request"] = "waiting"
      /\ response_status[n] = "Received" \/ expired
      /\ response_status' = [response_status EXCEPT ![n] = "NotWaiting"]
      /\ request_msg' = [request_msg EXCEPT ![n] = answer]
      /\ place' = [place EXCEPT ![n]["request"] = "idle"]
      /\ UNCHANGED << is_sending, tx_counter, tries, tx_queue, calls, asked, requests,
                      inbox, rx, garbled, executed >>
  BY DEF Return, Goto, receiverVars
<1>a. /\ place' \in [Nodes -> [Fibers -> Places]]
      /\ place'[n]["request"] = "idle"
      /\ \A g \in Fibers : g # "request" => place'[n][g] = place[n][g]
      /\ \A m \in Nodes : m # n => place'[m] = place[m]
  BY <1>1, PlaceMoved DEF Places, Fibers
<1>2. /\ request_msg[n] \in Genuine /\ request_msg[n] \in Messages
      /\ asked[n] # NoMessage
      /\ request_msg[n].address = asked[n].address
      /\ request_msg[n].command = asked[n].command
  BY <1>1 DEF AllGenuine, OutgoingExists, Genuine
<1>3. /\ timeout \in Messages /\ timeout.type = "Error" /\ timeout.address = n
      /\ timeout.command = request_msg[n].command
      /\ timeout.payload = "RequestTimeout"
  BY <1>2 DEF Messages, Types, Payloads
<1>4. answer \in Messages
  BY <1>2, <1>3
<1> HIDE DEF timeout, answer
<1>5. /\ request_msg' \in [Nodes -> Messages \cup {NoMessage, NotAllocated}]
      /\ request_msg'[n] = answer
      /\ \A m \in Nodes : m # n => request_msg'[m] = request_msg[m]
  BY <1>1, <1>4 DEF TypeOK
<1>6. TypeOK'
  BY <1>1, <1>5, <1>a DEF TypeOK
<1>7. SendersExclude' /\ TriesLeft'
  <2>1. /\ "busy" \in Sending /\ "backoff" \in Sending /\ "air" \in Sending
        /\ "idle" \notin Sending /\ "waiting" \notin Sending
    BY DEF Sending
  <2>2. \A m \in Nodes, g \in Fibers :
          \A p \in Sending : place'[m][g] = p <=> place[m][g] = p
    BY <1>1, <1>a, <2>1
  <2>3. \A m \in Nodes, g \in Fibers :
          place'[m][g] \in Sending <=> place[m][g] \in Sending
    BY <2>2
  <2> QED  BY <1>1, <2>1, <2>2, <2>3 DEF SendersExclude, TriesLeft
<1>8. OutgoingExists'
  <2>1. \A m \in Nodes : place'[m]["transmit"] = place[m]["transmit"]
    BY <1>a DEF Fibers
  <2> QED  BY <1>1, <1>5, <1>a, <2>1 DEF OutgoingExists
<1>9. AllGenuine' /\ Statuses'
  <2>1. Genuine' = Genuine
    BY <1>1 DEF Genuine, Told
  <2>2. /\ response_status'[n] = "NotWaiting"
        /\ \A m \in Nodes : m # n => response_status'[m] = response_status[m]
    BY <1>1 DEF TypeOK
  <2> QED  BY <1>1, <1>5, <1>a, <2>1, <2>2 DEF AllGenuine, Statuses, IsAnswer
<1>10. ExecutedFits' /\ Returned'
  <2>0. \A r, m : Told(m, r)' <=> Told(m, r)
    BY <1>1 DEF Told
  <2>1. CASE expired
    <3>1. /\ answer.type = "Error" /\ answer.payload = "RequestTimeout"
          /\ answer.address = n /\ answer.command = asked[n].command
      BY <1>2, <1>3, <2>1 DEF answer
    <3> QED  BY <1>1, <1>5, <1>a, <2>0, <3>1 DEF ExecutedFits, Returned, Told
  <2>2. CASE ~expired
    <3>1. answer = request_msg[n] /\ IsAnswer(answer)
      BY <1>1, <2>2 DEF answer, Statuses
    <3>2. PICK r \in requests : Told(answer, r)
      BY <1>2, <3>1 DEF Genuine
    <3>3. r.address = asked[n].address /\ r.command = asked[n].command
      BY <1>2, <3>1, <3>2 DEF Told
    <3> QED  BY <1>1, <1>5, <1>a, <2>0, <3>2, <3>3 DEF ExecutedFits, Returned, Told
  <2> QED  BY <2>1, <2>2
<1> QED  BY <1>6, <1>7, <1>8, <1>9, <1>10

-----------------------------------------------------------------------------
(* update_receive().                                                        *)
LEMMA ReceiveHeaderKeeps ==
  ASSUME IInv, NEW n \in Nodes, ReceiveHeader(n)
  PROVE  IInv'
<1> USE DEF IInv
<1> DEFINE arrival == Head(inbox[n])
           reply == Answer(arrival.msg, "Error", "NoAction")
<1>1. /\ inbox[n] # << >>
      /\ rx' = [rx EXCEPT ![n] = [arrival |-> arrival,
                                  ours |-> Interested(n, arrival.msg)]]
      /\ inbox' = [inbox EXCEPT ![n] = Tail(inbox[n])]
      /\ UNCHANGED << place, is_sending, tx_counter, tries, request_msg,
                      response_status, asked, requests, calls, garbled, executed >>
  BY DEF ReceiveHeader, senderVars, requestVars
<1>2. \/ HasNoAction(n, arrival.msg) /\ Push(n, reply)
      \/ UNCHANGED tx_queue
  BY DEF ReceiveHeader
<1>3. /\ arrival \in Arrivals /\ arrival \in [msg : Genuine, whole : BOOLEAN]
      /\ Tail(inbox[n]) \in Seq(Arrivals)
      /\ Tail(inbox[n]) \in Seq([msg : Genuine, whole : BOOLEAN])
  <2>1. /\ inbox[n] \in Seq(Arrivals)
        /\ inbox[n] \in Seq([msg : Genuine, whole : BOOLEAN])
    BY DEF TypeOK, AllGenuine
  <2> QED  BY <1>1, <2>1, TailTyped
<1>4. arrival.msg \in Genuine /\ arrival.msg \in Messages
  BY <1>3 DEF Genuine
<1>5. HasNoAction(n, arrival.msg) => reply \in Messages /\ reply \in Genuine
  <2> SUFFICES ASSUME HasNoAction(n, arrival.msg)
               PROVE  reply \in Messages /\ reply \in Genuine
    OBVIOUS
  <2>1. arrival.msg \in requests /\ arrival.msg.command \notin Actions[n]
    BY <1>4 DEF HasNoAction, Genuine
  <2>2. Told(reply, arrival.msg) /\ reply \in Messages
    BY <1>4, <2>1, AnswerTold DEF HasNoAction, Types, Payloads, Told
  <2>3. reply.type = "Error"
    BY <1>4, AnswerTold DEF Types, Payloads
  <2> QED  BY <2>1, <2>2, <2>3 DEF Genuine
<1>6. Interested(n, arrival.msg) \in BOOLEAN
  BY DEF Interested
<1> HIDE DEF arrival, reply
<1>7. /\ tx_queue' \in [Nodes -> Seq(Messages)]
      /\ tx_queue' \in [Nodes -> Seq(Genuine)]
      /\ \A m \in Nodes : tx_queue[m] # << >> => tx_queue'[m] # << >>
  <2>1. /\ tx_queue \in [Nodes -> Seq(Messages)]
        /\ tx_queue \in [Nodes -> Seq(Genuine)]
    BY DEF TypeOK, AllGenuine
  <2>2. CASE UNCHANGED tx_queue
    BY <2>1, <2>2
  <2>3. CASE HasNoAction(n, arrival.msg) /\ Push(n, reply)
    BY <1>5, <2>1, <2>3, PushTyped
  <2> QED  BY <1>2, <2>2, <2>3
<1>8. /\ rx'[n] = [arrival |-> arrival, ours |-> Interested(n, arrival.msg)]
      /\ rx'[n] \in [arrival : Arrivals, ours : BOOLEAN]
      /\ \A m \in Nodes : m # n => rx'[m] = rx[m]
      /\ rx' \in [Nodes -> [arrival : Arrivals, ours : BOOLEAN] \cup {NoMessage}]
  BY <1>1, <1>3, <1>6 DEF TypeOK
<1>9. TypeOK'
  BY <1>1, <1>3, <1>7, <1>8 DEF TypeOK
<1>10. SendersExclude' /\ OutgoingExists' /\ TriesLeft' /\ Statuses'
  BY <1>1, <1>7 DEF SendersExclude, OutgoingExists, TriesLeft, Statuses, IsAnswer
<1>11. Genuine' = Genuine
  BY <1>1 DEF Genuine, Told
<1>12. AllGenuine'
  <2>1. Interested(n, arrival.msg) /\ arrival.msg.type = "Request" =>
          arrival.msg.address = n
    BY DEF Interested, IsAnswer
  <2> QED  BY <1>1, <1>3, <1>4, <1>7, <1>8, <1>11, <2>1 DEF AllGenuine
<1>13. ExecutedFits' /\ Returned'
  BY <1>1, Undisturbed
<1> QED  BY <1>9, <1>10, <1>12, <1>13

LEMMA ReceiveDataKeeps ==
  ASSUME IInv, NEW n \in Nodes, ReceiveData(n)
  PROVE  IInv'
<1> USE DEF IInv
<1>0. PICK msg : msg = rx[n].arrival.msg
  OBVIOUS
<1>1. /\ rx[n] # NoMessage
      /\ rx' = [rx EXCEPT ![n] = NoMessage]
      /\ UNCHANGED << place, is_sending, tx_counter, tries, asked, requests, calls, inbox,
                      garbled >>
  BY DEF ReceiveData, senderVars
<1>2. /\ msg \in Genuine /\ msg \in Messages
      /\ rx[n].ours /\ msg.type = "Request" => msg.address = n
  BY <1>0, <1>1 DEF AllGenuine, Genuine
<1>3. \/ msg.type = "Request" /\ Act(n, msg) /\ rx[n].ours
      \/ IsAnswer(msg) /\ Accept(n, msg)
      \/ UNCHANGED << executed, tx_queue, request_msg, response_status >>
  BY <1>0 DEF ReceiveData
<1>4. CASE UNCHANGED << executed, tx_queue, request_msg, response_status >>
  <2>1. TypeOK'
    BY <1>1, <1>4 DEF TypeOK
  <2>2. SendersExclude' /\ OutgoingExists' /\ TriesLeft' /\ Statuses'
    BY <1>1, <1>4 DEF SendersExclude, OutgoingExists, TriesLeft, Statuses, IsAnswer
  <2>4. \A m \in Nodes : rx'[m] # NoMessage => rx'[m] = rx[m]
    BY <1>1 DEF TypeOK
  <2>5. AllGenuine'
    <3>1. \A m \in Nodes :
            place'[m]["request"] # "idle" => request_msg'[m] \in Genuine
      BY <1>1, <1>4 DEF AllGenuine
    <3> QED  BY <1>1, <1>4, <2>4, <3>1, GenuineKept
  <2>6. ExecutedFits' /\ Returned'
    BY <1>1, <1>4, Undisturbed
  <2> QED  BY <2>1, <2>2, <2>5, <2>6
<1>5. CASE IsAnswer(msg) /\ Accept(n, msg)
  <2>1. UNCHANGED << executed, tx_queue >>
    BY <1>5 DEF Accept
  <2>2. CASE UNCHANGED << request_msg, response_status >>
    BY <1>4, <2>1, <2>2
  <2>3. CASE /\ response_status[n] = "Waiting" /\ Matches(n, msg)
             /\ request_msg' = [request_msg EXCEPT ![n] = msg]
             /\ response_status' = [response_status EXCEPT ![n] = "Received"]
    <3>1. /\ request_msg'[n] = msg /\ response_status'[n] = "Received"
          /\ \A m \in Nodes : m # n =>
               /\ request_msg'[m] = request_msg[m]
               /\ response_status'[m] = response_status[m]
      BY <2>3 DEF TypeOK
    <3>2. /\ place[n]["request"] \notin {"idle", "claim"}
          /\ request_msg[n].address = msg.address
          /\ request_msg[n].command = msg.command
      BY <2>3 DEF Statuses, Matches
    <3>3. TypeOK'
      BY <1>1, <1>2, <2>1, <2>3 DEF TypeOK
    <3>4. SendersExclude' /\ TriesLeft'
      BY <1>1 DEF SendersExclude, TriesLeft
    <3>5. OutgoingExists'
      BY <1>1, <1>2, <2>1, <3>1, <3>2, AmnbAssumption DEF OutgoingExists
    <3>6. Statuses'
      BY <1>1, <1>5, <3>1, <3>2 DEF Statuses, IsAnswer
    <3>8. \A m \in Nodes : rx'[m] # NoMessage => rx'[m] = rx[m]
      BY <1>1 DEF TypeOK
    <3>9. AllGenuine'
      <4>1. \A m \in Nodes :
              place'[m]["request"] # "idle" => request_msg'[m] \in Genuine
        BY <1>1, <1>2, <3>1 DEF AllGenuine
      <4> QED  BY <1>1, <2>1, <3>8, <4>1, GenuineKept
    <3>10. ExecutedFits' /\ Returned'
      BY <1>1, <2>1, <3>1, <3>2, Undisturbed
    <3> QED  BY <3>3, <3>4, <3>5, <3>6, <3>9, <3>10
  <2> QED  BY <1>5, <2>2, <2>3 DEF Accept
<1>6. CASE msg.type = "Request" /\ Act(n, msg) /\ rx[n].ours
  <2>1. /\ Refuse(n, msg) \/ Execute(n, msg)
        /\ UNCHANGED << request_msg, response_status >>
    BY <1>6 DEF Act
  <2>2. /\ executed' \in [Nodes -> SUBSET Messages]
        /\ \A m \in Nodes : executed[m] \subseteq executed'[m]
        /\ ExecutedFits'
    <3>1. executed \in [Nodes -> SUBSET Messages]
      BY DEF TypeOK
    <3>2. CASE UNCHANGED executed
      BY <3>1, <3>2 DEF ExecutedFits
    <3>3. CASE Fits(msg) /\ executed' = [executed EXCEPT ![n] = executed[n] \cup {msg}]
      BY <1>2, <3>1, <3>3 DEF Fits, ExecutedFits
    <3> QED  BY <2>1, <3>2, <3>3 DEF Refuse, Execute
  <2>3. /\ Genuine \subseteq Genuine'
        /\ Seq(Genuine) \subseteq Seq(Genuine')
        /\ Seq([msg : Genuine, whole : BOOLEAN])
             \subseteq Seq([msg : Genuine', whole : BOOLEAN])
    BY <1>1, <2>2, GenuineGrows
  <2>4. PICK type, payload : /\ Push(n, Answer(msg, type, payload))
                             /\ type \in Types \ {"Request"} /\ payload \in Payloads
                             /\ \/ /\ << type, payload >> = << "Response", "Refused" >>
                                   /\ ~Fits(msg)
                                \/ /\ << type, payload >> \in Outcomes
                                   /\ Execute(n, msg)
    BY <2>1 DEF Refuse, Execute, Outcomes, Types, Payloads
  <2>0. PICK response : response = Answer(msg, type, payload)
    OBVIOUS
  <2>a. /\ response \in Messages /\ response.type = type
        /\ response.payload = payload
        /\ response.address = msg.address /\ response.command = msg.command
        /\ response.call = msg.call
    BY <1>2, <2>4, <2>0, AnswerTold
  <2>b. /\ msg \in requests /\ msg.payload \in {"argument", "misfit"}
        /\ msg.address = n /\ requests' = requests
    BY <1>1, <1>2, <1>6 DEF Genuine
  <2>c. Execute(n, msg) => msg \in executed'[n]
    BY DEF Execute, TypeOK
  <2>d. Told(response, msg)'
    BY <2>4, <2>a, <2>b, <2>c DEF Told, Fits
  <2>e. response \in Genuine'
    BY <2>4, <2>a, <2>b, <2>d DEF Genuine
  <2>5. /\ tx_queue' \in [Nodes -> Seq(Messages)]
        /\ tx_queue' \in [Nodes -> Seq(Genuine')]
        /\ \A m \in Nodes : tx_queue[m] # << >> => tx_queue'[m] # << >>
    <3>1. /\ tx_queue \in [Nodes -> Seq(Messages)]
          /\ tx_queue \in [Nodes -> Seq(Genuine')]
      BY <2>3 DEF TypeOK, AllGenuine
    <3>2. Push(n, response)
      BY <2>4, <2>0
    <3> QED  BY <2>a, <2>e, <3>1, <3>2, PushTyped
  <2>6. TypeOK'
    BY <1>1, <2>1, <2>2, <2>5 DEF TypeOK
  <2>7. SendersExclude' /\ OutgoingExists' /\ TriesLeft' /\ Statuses'
    BY <1>1, <2>1, <2>5
       DEF SendersExclude, OutgoingExists, TriesLeft, Statuses, IsAnswer
  <2>8. AllGenuine'
    <3>1. inbox' \in [Nodes -> Seq([msg : Genuine', whole : BOOLEAN])]
      BY <1>1, <2>3 DEF AllGenuine
    <3>2. \A m \in Nodes : rx'[m] # NoMessage => rx'[m] = rx[m]
      BY <1>1 DEF TypeOK
    <3> QED  BY <1>1, <2>1, <2>3, <2>5, <3>1, <3>2 DEF AllGenuine
  <2>9. Returned'
    BY <1>1, <2>1, <2>2, ReturnedKept
  <2> QED  BY <2>2, <2>6, <2>7, <2>8, <2>9
<1> QED  BY <1>3, <1>4, <1>5, <1>6

LEMMA NextIInv == IInv /\ [Next]_vars => IInv'
<1> SUFFICES ASSUME IInv, [Next]_vars
             PROVE  IInv'
  OBVIOUS
<1>1. CASE UNCHANGED vars
  <2>1. Genuine' = Genuine
    BY <1>1 DEF vars, Genuine, Told
  <2>2. TypeOK' /\ SendersExclude' /\ OutgoingExists' /\ TriesLeft'
    BY <1>1 DEF IInv, vars, TypeOK, SendersExclude, OutgoingExists, TriesLeft
  <2>3. AllGenuine' /\ Statuses'
    BY <1>1, <2>1 DEF IInv, vars, AllGenuine, Statuses, IsAnswer
  <2>4. ExecutedFits' /\ Returned'
    BY <1>1, Undisturbed DEF vars
  <2> QED  BY <2>2, <2>3, <2>4 DEF IInv
<1>2. ASSUME NEW n \in Nodes, ClaimForRequest(n)
      PROVE  IInv'
  BY <1>2, ClaimKeeps DEF ClaimForRequest, Fibers
<1>3. ASSUME NEW n \in Nodes, ClaimForQueue(n)
      PROVE  IInv'
  BY <1>3, ClaimKeeps DEF ClaimForQueue, Fibers
<1>4. ASSUME NEW n \in Nodes, NEW f \in Fibers, SendStep(n, f)
      PROVE  IInv'
  BY <1>4, RescheduleKeeps, TryAgainKeeps, TransmittedKeeps, FailedKeeps
     DEF SendStep
<1>5. ASSUME NEW n \in Nodes, NEW expired \in BOOLEAN, Return(n, expired)
      PROVE  IInv'
  BY <1>5, ReturnKeeps
<1>6. ASSUME NEW n \in Nodes, ReceiveHeader(n) \/ ReceiveData(n)
      PROVE  IInv'
  BY <1>6, ReceiveHeaderKeeps, ReceiveDataKeeps
<1>7. ASSUME NEW n \in Nodes, NEW msg \in Calls[n],
             \/ Broadcast(n, msg) \/ Request(n, msg)
             \/ RequestUnallocated(n, msg)
      PROVE  IInv'
  BY <1>7, BroadcastKeeps, RequestKeeps, RequestUnallocatedKeeps
<1> QED  BY <1>1, <1>2, <1>3, <1>4, <1>5, <1>6, <1>7 DEF Next, Step

-----------------------------------------------------------------------------
(* The invariant of a bus, for every number of nodes.                       *)
THEOREM AmnbInvariant == Spec => []IInv
<1>1. Init => IInv
  BY InitIInv
<1>2. IInv /\ [Next]_vars => IInv'
  BY NextIInv
<1> QED  BY <1>1, <1>2, PTL DEF Spec

(* The variables of a node keep their types: the counter stays in 8 bits,   *)
(* and only whole messages are queued.                                      *)
THEOREM TypeCorrect == Spec => []TypeOK
<1>1. IInv => TypeOK
  BY DEF IInv
<1> QED  BY <1>1, AmnbInvariant, PTL

(* One fiber of a node is inside send(): is_sending is tested and set       *)
(* without a yield between.                                                 *)
THEOREM SendingCorrect == Spec => []SendersExclude
<1>1. IInv => SendersExclude
  BY DEF IInv
<1> QED  BY <1>1, AmnbInvariant, PTL

(* send() gives up after at most MIN_TX_TRIES transmissions, if no command  *)
(* starts it with a counter of 0.                                           *)
THEOREM TriesCorrect == Spec => []TriesBounded
<1>1. IInv => TriesBounded
  <2> SUFFICES ASSUME IInv, \A c \in Commands : Priority[c] > 0, NEW n \in Nodes
               PROVE  tries[n] <= MinTxTries
    BY DEF TriesBounded
  <2>1. tries[n] \in Nat /\ tx_counter[n] \in Nat
    BY AmnbAssumption DEF IInv, TypeOK
  <2>2. CASE ~is_sending[n]
    BY <2>1, <2>2, AmnbAssumption DEF IInv, TriesLeft
  <2>3. CASE is_sending[n]
    <3>1. PICK f \in Fibers : place[n][f] \in Sending
      BY <2>3 DEF IInv, SendersExclude
    <3> QED  BY <2>1, <3>1, AmnbAssumption DEF IInv, TriesLeft, Sending
  <2> QED  BY <2>2, <2>3
<1> QED  BY <1>1, AmnbInvariant, PTL

(* What request() returns tells what became of a request for the node and   *)
(* the command that were asked: that it was executed, refused or unknown    *)
(* there.  Or the time was up, or nothing was sent.  This holds whatever    *)
(* late, repeated or foreign answers the node has heard; the answer may be  *)
(* to an earlier such request, or to one of another node.                   *)
THEOREM AnswersCorrect == Spec => []AnswersAreReal
<1>1. IInv => AnswersAreReal
  <2> SUFFICES ASSUME IInv, NEW r \in requests, NEW msg, Told(msg, r)
               PROVE  TellsOf(msg, r)
    BY DEF IInv, Returned, AnswersAreReal
  <2>1. r.address \in Nodes
    BY DEF IInv, TypeOK, Messages
  <2>2. r \in executed[r.address] => r.payload = "argument"
    BY <2>1 DEF IInv, ExecutedFits
  <2> QED  BY <2>2 DEF Told, TellsOf
<1> QED  BY <1>1, AmnbInvariant, PTL

-----------------------------------------------------------------------------
(* xpcc::Dispatcher                                                        *)

(* R goes back the way that A came.                                         *)
Reverses(A, R) ==
  /\ R.source = A.destination
  /\ R.destination = A.source
  /\ R.packetIdentifier = A.packetIdentifier

(* Every response answers a request that has been delivered.                *)
Logged ==
  \A m \in Made :
    /\ log[m].msg = m /\ ~log[m].isAcknowledge
    /\ log[m].type \in {"REQUEST", "RESPONSE"}
    /\ log[m].type = "RESPONSE" =>
         \E q \in Made : /\ log[q].type = "REQUEST" /\ delivered[q] > 0
                         /\ Reverses(log[q], log[m])

(* An entry is of the board that made its message.                          *)
EntryOf(b, e) ==
  /\ e.header.msg \in Made /\ e.header = log[e.header.msg]
  /\ BoardOf[e.header.source] = b
  /\ e.state = "TransmissionPending" => e.tries = 0

Entered ==
  \A b \in Boards : \A i \in DOMAIN entries[b] : EntryOf(b, entries[b][i])

OneEntry ==
  \A b \in Boards : \A i, j \in DOMAIN entries[b] :
    entries[b][i].header.msg = entries[b][j].header.msg => i = j

ResponsesFirst ==
  \A b \in Boards : \A i, j \in DOMAIN entries[b] :
    /\ entries[b][i].header.type = "RESPONSE"
    /\ entries[b][j].header.type = "REQUEST"
    => i < j

(* What a handler may answer was delivered to it.                           *)
HandleOf(b, h) ==
  /\ h.msg \in Made /\ h = log[h.msg]
  /\ h.type = "REQUEST" /\ delivered[h.msg] > 0
  /\ h.destination \in Components /\ BoardOf[h.destination] = b

Handled == \A b \in Boards : \A h \in handles[b] : HandleOf(b, h)

(* A packet is a message at its destination, or the acknowledge of one that *)
(* has been delivered.                                                      *)
GenuinePacket(b, p) ==
  /\ p.msg \in Made /\ p.type = log[p.msg].type
  /\ p.isAcknowledge => delivered[p.msg] > 0 /\ Reverses(log[p.msg], p)
  /\ ~p.isAcknowledge =>
       /\ p = log[p.msg]
       /\ p.destination \in Components => BoardOf[p.destination] = b

Received ==
  \A b \in Boards : \A k \in DOMAIN backlog[b] : GenuinePacket(b, backlog[b][k])

Fresh ==
  \A m \in Message \ Made :
    delivered[m] = 0 /\ outcomes[m] = << >> /\ m \notin acked

HasEntry(m) ==
  \E b \in Boards : \E i \in DOMAIN entries[b] : entries[b][i].header.msg = m

(* Who has called the callback of a message has removed its entry.          *)
Answering ==
  \A m \in Message :
    Len(outcomes[m]) <= 1 /\ (outcomes[m] # << >> => ~HasEntry(m))

(* A transmission of a message is delivered, on its way or lost.            *)
Copies(box, m) == {k \in DOMAIN box : box[k].msg = m /\ ~box[k].isAcknowledge}

Total(m) ==
  delivered[m] + Cardinality(Copies(backlog[BoardOf[log[m].destination]], m))

Sent(e) ==
  IF e.state = "TransmissionPending" THEN 0
  ELSE IF e.state = "WaitForACK" THEN e.tries + 1 ELSE 3

CountedOf(m) ==
  IF log[m].destination = Everyone
    THEN delivered[m] = 0
    ELSE /\ Total(m) <= 3
         /\ \A b \in Boards : \A i \in DOMAIN entries[b] :
              entries[b][i].header.msg = m => Total(m) <= Sent(entries[b][i])

Counted == \A m \in Made : CountedOf(m)

(* The inductive invariant.                                                 *)
XpccIInv ==
  /\ XpccTypeOK /\ Logged /\ Entered /\ OneEntry /\ ResponsesFirst /\ Handled
  /\ Received /\ Fresh /\ Answering /\ Counted /\ AckedIsDelivered
  /\ AnswerEndsWaiting

-----------------------------------------------------------------------------
(* Sequences and sets.                                                      *)
LEMMA LeastExists ==
  ASSUME NEW S \in SUBSET Nat, S # {}
  PROVE  \E x \in S : \A y \in S : x <= y
<1> DEFINE R == OpToRel(<, Nat)
<1>1. \A x, y \in Nat : y < x => << y, x >> \in R
  BY DEF OpToRel
<1>2. IsWellFoundedOn(R, Nat)
  BY NatLessThanWellFounded
<1> HIDE DEF R
<1>3. PICK x \in S : \A y \in S : ~ (<< y, x >> \in R)
  BY <1>2, WFMin
<1>4. \A y \in S : ~ (y < x)
  BY <1>1, <1>3, Zenon
<1>5. \A y \in S : x <= y
  BY <1>4
<1> QED  BY <1>5

LEMMA MinInSet ==
  ASSUME NEW S \in SUBSET Nat, S # {}
  PROVE  Min(S) \in S
BY LeastExists DEF Min

LEMMA RemoveAtProperties ==
  ASSUME NEW S, NEW s \in Seq(S), NEW i \in 1..Len(s)
  PROVE  /\ RemoveAt(s, i) \in Seq(S)
         /\ Len(RemoveAt(s, i)) = Len(s) - 1
         /\ \A k \in 1..(Len(s) - 1) :
              RemoveAt(s, i)[k] = s[IF k < i THEN k ELSE k + 1]
<1> DEFINE t == SubSeq(s, 1, i - 1)
           u == SubSeq(s, i + 1, Len(s))
<1>1. Len(s) \in Nat /\ \A k \in 1..Len(s) : s[k] \in S
  BY LenProperties
<1>2. /\ t \in Seq(S) /\ Len(t) = i - 1
      /\ \A k \in 1..(i - 1) : t[k] = s[k]
  <2>1. \A k \in 1..(i - 1) : s[k] \in S
    BY <1>1
  <2>2. /\ t \in Seq(S) /\ Len(t) = IF 1 <= i - 1 THEN i - 1 - 1 + 1 ELSE 0
        /\ \A k \in 1..(i - 1 - 1 + 1) : t[k] = s[1 + k - 1]
    BY <1>1, <2>1, SubSeqProperties
  <2> QED  BY <1>1, <2>2
<1>3. /\ u \in Seq(S) /\ Len(u) = Len(s) - i
      /\ \A k \in 1..(Len(s) - i) : u[k] = s[i + k]
  <2>1. \A k \in (i + 1)..Len(s) : s[k] \in S
    BY <1>1
  <2>2. /\ u \in Seq(S)
        /\ Len(u) = IF i + 1 <= Len(s) THEN Len(s) - (i + 1) + 1 ELSE 0
        /\ \A k \in 1..(Len(s) - (i + 1) + 1) : u[k] = s[i + 1 + k - 1]
    BY <1>1, <2>1, SubSeqProperties
  <2> QED  BY <1>1, <2>2
<1> HIDE DEF t, u
<1>4. /\ t \o u \in Seq(S) /\ Len(t \o u) = Len(t) + Len(u)
      /\ \A k \in 1..(Len(t) + Len(u)) :
           (t \o u)[k] = IF k <= Len(t) THEN t[k] ELSE u[k - Len(t)]
  BY <1>2, <1>3, ConcatProperties
<1>5. RemoveAt(s, i) = t \o u
  BY DEF RemoveAt, t, u
<1>6. Len(RemoveAt(s, i)) = Len(s) - 1
  BY <1>1, <1>2, <1>3, <1>4, <1>5
<1>7. ASSUME NEW k \in 1..(Len(s) - 1)
      PROVE  RemoveAt(s, i)[k] = s[IF k < i THEN k ELSE k + 1]
  <2>1. (t \o u)[k] = IF k <= i - 1 THEN t[k] ELSE u[k - (i - 1)]
    BY <1>1, <1>2, <1>3, <1>4
  <2>2. CASE k < i
    BY <1>2, <1>5, <2>1, <2>2
  <2>3. CASE k >= i
    <3>1. k - (i - 1) \in 1..(Len(s) - i) /\ i + (k - (i - 1)) = k + 1
      BY <1>1, <2>3
    <3> QED  BY <1>3, <1>5, <2>1, <2>3, <3>1
  <2> QED  BY <2>2, <2>3
<1> QED  BY <1>4, <1>5, <1>6, <1>7

LEMMA FittingFits ==
  ASSUME XpccTypeOK, NEW b \in Boards, NEW packet
  PROVE  /\ Fitting(b, packet) # 0 =>
              /\ Fitting(b, packet) \in DOMAIN entries[b]
              /\ HeaderFits(entries[b][Fitting(b, packet)], packet)
         /\ Fitting(b, packet) = 0 =>
              \A i \in DOMAIN entries[b] : ~HeaderFits(entries[b][i], packet)
<1> DEFINE I == {i \in 1..Len(entries[b]) : HeaderFits(entries[b][i], packet)}
<1>1. Len(entries[b]) \in Nat /\ DOMAIN entries[b] = 1..Len(entries[b])
  BY LenProperties DEF XpccTypeOK
<1>2. Fitting(b, packet) = IF I # {} THEN Min(I) ELSE 0
  BY DEF Fitting, SelectInSeq
<1>3. I # {} => Min(I) \in I
  <2>1. I \in SUBSET Nat
    BY <1>1
  <2> HIDE DEF I
  <2> QED  BY <2>1, MinInSet
<1> QED  BY <1>1, <1>2, <1>3

LEMMA CopiesAppend ==
  ASSUME NEW box \in Seq(Packets), NEW p \in Packets, NEW m
  PROVE  Copies(Append(box, p), m) =
           IF p.msg = m /\ ~p.isAcknowledge
             THEN Copies(box, m) \cup {Len(box) + 1} ELSE Copies(box, m)
<1>1. Len(box) \in Nat /\ DOMAIN box = 1..Len(box)
  BY LenProperties
<1>2. /\ DOMAIN Append(box, p) = 1..(Len(box) + 1)
      /\ \A k \in 1..Len(box) : Append(box, p)[k] = box[k]
      /\ Append(box, p)[Len(box) + 1] = p
  BY <1>1, AppendProperties, LenProperties
<1> QED  BY <1>1, <1>2 DEF Copies

LEMMA CopiesFinite ==
  ASSUME NEW box \in Seq(Packets), NEW m
  PROVE  IsFiniteSet(Copies(box, m)) /\ Cardinality(Copies(box, m)) \in Nat
<1>1. Len(box) \in Nat /\ DOMAIN box = 1..Len(box)
  BY LenProperties
<1>2. IsFiniteSet(1..Len(box))
  BY <1>1, FS_Interval
<1>3. Copies(box, m) \in SUBSET (1..Len(box))
  BY <1>1 DEF Copies
<1>4. IsFiniteSet(Copies(box, m))
  BY <1>2, <1>3, FS_Subset
<1> QED  BY <1>4, FS_CardinalityType

LEMMA CopiesTail ==
  ASSUME NEW box \in Seq(Packets), box # << >>, NEW m
  PROVE  Cardinality(Copies(box, m)) =
           Cardinality(Copies(Tail(box), m)) +
             IF Head(box).msg = m /\ ~Head(box).isAcknowledge THEN 1 ELSE 0
<1> DEFINE C == Copies(box, m)
           T == Copies(Tail(box), m)
           f == [k \in T |-> k + 1]
<1>1. /\ Len(box) \in Nat \ {0} /\ DOMAIN box = 1..Len(box) /\ Head(box) = box[1]
      /\ DOMAIN Tail(box) = 1..(Len(box) - 1) /\ Tail(box) \in Seq(Packets)
      /\ \A k \in 1..(Len(box) - 1) : Tail(box)[k] = box[k + 1]
  BY LenProperties, HeadTailProperties, EmptySeq
<1>2. \A k \in 2..Len(box) : k \in C <=> k - 1 \in T
  BY <1>1 DEF Copies
<1>3. C \subseteq 1..Len(box) /\ T \subseteq 1..(Len(box) - 1)
  BY <1>1 DEF Copies
<1>4. 1 \in C <=> Head(box).msg = m /\ ~Head(box).isAcknowledge
  BY <1>1 DEF Copies
<1>5. IsFiniteSet(C) /\ IsFiniteSet(T) /\ Cardinality(C) \in Nat /\ Cardinality(T) \in Nat
  BY <1>1, CopiesFinite
<1> HIDE DEF C, T
<1>6. f \in Bijection(T, C \ {1})
  <2>1. f \in [T -> C \ {1}]
    BY <1>1, <1>2, <1>3
  <2>2. \A j, k \in T : f[j] = f[k] => j = k
    BY <1>3
  <2>3. \A k \in C \ {1} : \E j \in T : f[j] = k
    <3> SUFFICES ASSUME NEW k \in C \ {1} PROVE \E j \in T : f[j] = k
      OBVIOUS
    <3>1. k \in 2..Len(box) /\ k - 1 \in T
      BY <1>1, <1>2, <1>3
    <3>2. f[k - 1] = k
      BY <3>1
    <3> QED  BY <3>1, <3>2
  <2> HIDE DEF f
  <2> QED  BY <2>1, <2>2, <2>3 DEF Bijection, Injection, Surjection, IsInjective
<1>7. Cardinality(C \ {1}) = Cardinality(T)
  BY <1>5, <1>6, FS_Bijection DEF ExistsBijection
<1>8. Cardinality(C \ {1}) = IF 1 \in C THEN Cardinality(C) - 1 ELSE Cardinality(C)
  BY <1>5, FS_RemoveElement
<1>9. Cardinality(C) = Cardinality(T) +
        IF Head(box).msg = m /\ ~Head(box).isAcknowledge THEN 1 ELSE 0
  BY <1>4, <1>5, <1>7, <1>8
<1> QED  BY <1>9 DEF C, T
-----------------------------------------------------------------------------
(* Messages, packets and entries are never changed, only counted.           *)
LEMMA MadeIsMessage ==
  ASSUME XpccTypeOK
  PROVE  /\ Made = 1..Len(log) /\ Len(log) \in Nat /\ Made \subseteq Message
         /\ \A m \in Made : log[m] \in Packets
<1>1. Made = 1..Len(log) /\ Len(log) \in Nat /\ \A m \in Made : log[m] \in Packets
  BY LenProperties DEF XpccTypeOK, Made
<1> QED  BY <1>1, XpccAssumption DEF XpccTypeOK, Message

Grows ==
  \A m \in Made :
    m \in Made' /\ log'[m] = log[m] /\ delivered'[m] >= delivered[m]

LEMMA GrowsSame ==
  ASSUME XpccTypeOK, UNCHANGED << log, delivered >>
  PROVE  Grows
<1>1. \A m \in Made : delivered[m] \in Nat
  BY MadeIsMessage DEF XpccTypeOK
<1>2. \A m \in Made : delivered'[m] >= delivered[m]
  BY <1>1
<1> QED  BY <1>2 DEF Grows, Made

LEMMA PacketKept ==
  ASSUME XpccTypeOK, XpccTypeOK', Grows, NEW b \in Boards, NEW p, GenuinePacket(b, p)
  PROVE  GenuinePacket(b, p)'
<1>1. p.msg \in Made /\ p.msg \in Made' /\ log'[p.msg] = log[p.msg]
  BY DEF GenuinePacket, Grows
<1>2. delivered[p.msg] \in Nat /\ delivered'[p.msg] \in Nat
  BY <1>1, MadeIsMessage DEF XpccTypeOK
<1>3. delivered'[p.msg] >= delivered[p.msg]
  BY <1>1 DEF Grows
<1>4. delivered[p.msg] > 0 => delivered'[p.msg] > 0
  BY <1>2, <1>3
<1> QED  BY <1>1, <1>4 DEF GenuinePacket

LEMMA HandleKept ==
  ASSUME XpccTypeOK, XpccTypeOK', Grows, NEW b \in Boards, NEW h, HandleOf(b, h)
  PROVE  HandleOf(b, h)'
<1>1. h.msg \in Made /\ h.msg \in Made' /\ log'[h.msg] = log[h.msg]
  BY DEF HandleOf, Grows
<1>2. delivered[h.msg] \in Nat /\ delivered'[h.msg] \in Nat
  BY <1>1, MadeIsMessage DEF XpccTypeOK
<1>3. delivered'[h.msg] >= delivered[h.msg] /\ delivered[h.msg] > 0
  BY <1>1 DEF Grows, HandleOf
<1>4. delivered'[h.msg] > 0
  BY <1>2, <1>3
<1> QED  BY <1>1, <1>4 DEF HandleOf

(* Two entries for one message are the same entry.                          *)
LEMMA SameEntry ==
  ASSUME XpccIInv, NEW b \in Boards, NEW i \in DOMAIN entries[b],
         NEW c \in Boards, NEW j \in DOMAIN entries[c],
         entries[b][i].header.msg = entries[c][j].header.msg
  PROVE  b = c /\ i = j
BY DEF XpccIInv, Entered, EntryOf, OneEntry

LEMMA EntryTyped ==
  ASSUME XpccTypeOK, NEW b \in Boards
  PROVE  /\ Len(entries[b]) \in Nat /\ DOMAIN entries[b] = 1..Len(entries[b])
         /\ \A i \in DOMAIN entries[b] : entries[b][i] \in Entries
BY LenProperties DEF XpccTypeOK

LEMMA EntryFacts ==
  ASSUME XpccIInv, NEW b \in Boards, NEW i \in DOMAIN entries[b]
  PROVE  /\ entries[b][i] \in Entries
         /\ entries[b][i].header \in Packets
         /\ entries[b][i].header.msg \in Made
         /\ entries[b][i].header.msg \in Message
         /\ entries[b][i].header = log[entries[b][i].header.msg]
         /\ BoardOf[entries[b][i].header.source] = b
         /\ HasEntry(entries[b][i].header.msg)
         /\ Sent(entries[b][i]) \in 0..3
<1>1. entries[b][i] \in Entries
  BY EntryTyped DEF XpccIInv
<1>2. EntryOf(b, entries[b][i])
  BY DEF XpccIInv, Entered
<1>3. entries[b][i].header.msg \in Message
  BY <1>2, MadeIsMessage DEF XpccIInv, EntryOf
<1>4. Sent(entries[b][i]) \in 0..3
  BY <1>1 DEF Entries, Sent
<1> QED  BY <1>1, <1>2, <1>3, <1>4 DEF EntryOf, Entries, HasEntry

-----------------------------------------------------------------------------
(* What a step makes of the entries.                                        *)
KeptEntries ==
  /\ entries' \in [Boards -> Seq(Entries)]
  /\ Entered' /\ OneEntry' /\ ResponsesFirst'
  /\ \A c \in Boards : \A k \in DOMAIN entries'[c] :
       \E j \in DOMAIN entries[c] :
         /\ entries'[c][k].header = entries[c][j].header
         /\ Sent(entries'[c][k]) >= Sent(entries[c][j])

LEMMA EntriesMapped ==
  ASSUME XpccIInv, UNCHANGED log, entries' \in [Boards -> Seq(Entries)],
         NEW b \in Boards, NEW f,
         \A c \in Boards : c # b => entries'[c] = entries[c],
         \A k \in DOMAIN entries'[b] :
           /\ f[k] \in DOMAIN entries[b]
           /\ entries'[b][k].header = entries[b][f[k]].header
           /\ Sent(entries'[b][k]) >= Sent(entries[b][f[k]])
           /\ entries'[b][k].state = "TransmissionPending" =>
                entries'[b][k].tries = 0,
         \A j, k \in DOMAIN entries'[b] : j < k => f[j] < f[k]
  PROVE  KeptEntries
<1>1. /\ Len(entries[b]) \in Nat /\ DOMAIN entries[b] = 1..Len(entries[b])
      /\ Len(entries'[b]) \in Nat /\ DOMAIN entries'[b] = 1..Len(entries'[b])
  BY LenProperties DEF XpccIInv, XpccTypeOK
<1>2. Entered'
  <2> SUFFICES ASSUME NEW c \in Boards, NEW k \in DOMAIN entries'[c]
               PROVE  EntryOf(c, entries[c][k])'
    BY DEF Entered
  <2>1. CASE c = b
    <3>1. EntryOf(b, entries[b][f[k]])
      BY <2>1 DEF XpccIInv, Entered
    <3>2. /\ entries'[b][k].header = entries[b][f[k]].header
          /\ entries'[b][k].state = "TransmissionPending" =>
               entries'[b][k].tries = 0
      BY <2>1
    <3> QED  BY <2>1, <3>1, <3>2 DEF EntryOf, Made
  <2>2. CASE c # b
    <3>1. EntryOf(c, entries[c][k])
      BY <2>2 DEF XpccIInv, Entered
    <3> QED  BY <2>2, <3>1 DEF EntryOf, Made
  <2> QED  BY <2>1, <2>2
<1>3. OneEntry'
  <2> SUFFICES ASSUME NEW c \in Boards, NEW j \in DOMAIN entries'[c],
                      NEW k \in DOMAIN entries'[c],
                      entries'[c][j].header.msg = entries'[c][k].header.msg
               PROVE  j = k
    BY DEF OneEntry
  <2>1. CASE c = b
    <3>1. /\ f[j] \in DOMAIN entries[b] /\ f[k] \in DOMAIN entries[b]
          /\ entries[b][f[j]].header.msg = entries[b][f[k]].header.msg
      BY <2>1
    <3>2. f[j] = f[k] /\ f[j] \in Nat
      BY <1>1, <3>1 DEF XpccIInv, OneEntry
    <3>3. ~(j < k) /\ ~(k < j)
      BY <2>1, <3>2
    <3>4. j \in Nat /\ k \in Nat
      BY <1>1, <2>1
    <3> QED  BY <3>3, <3>4
  <2>2. CASE c # b
    BY <2>2 DEF XpccIInv, OneEntry
  <2> QED  BY <2>1, <2>2
<1>4. ResponsesFirst'
  <2> SUFFICES ASSUME NEW c \in Boards, NEW j \in DOMAIN entries'[c],
                      NEW k \in DOMAIN entries'[c],
                      entries'[c][j].header.type = "RESPONSE",
                      entries'[c][k].header.type = "REQUEST"
               PROVE  j < k
    BY DEF ResponsesFirst
  <2>1. CASE c = b
    <3>1. /\ f[j] \in DOMAIN entries[b] /\ f[k] \in DOMAIN entries[b]
          /\ entries[b][f[j]].header.type = "RESPONSE"
          /\ entries[b][f[k]].header.type = "REQUEST"
      BY <2>1
    <3>2. f[j] < f[k] /\ f[j] \in Nat /\ f[k] \in Nat
      BY <1>1, <3>1 DEF XpccIInv, ResponsesFirst
    <3>3. ~(k < j)
      BY <2>1, <3>2
    <3>4. j # k
      OBVIOUS
    <3>5. j \in Nat /\ k \in Nat
      BY <1>1, <2>1
    <3> QED  BY <3>3, <3>4, <3>5
  <2>2. CASE c # b
    BY <2>2 DEF XpccIInv, ResponsesFirst
  <2> QED  BY <2>1, <2>2
<1>5. ASSUME NEW c \in Boards, NEW k \in DOMAIN entries'[c]
      PROVE  \E j \in DOMAIN entries[c] :
               /\ entries'[c][k].header = entries[c][j].header
               /\ Sent(entries'[c][k]) >= Sent(entries[c][j])
  <2>1. CASE c = b
    BY <2>1
  <2>2. CASE c # b
    <3>1. entries'[c] = entries[c] /\ Sent(entries[c][k]) \in 0..3
      BY <2>2, EntryFacts
    <3> QED  BY <3>1
  <2> QED  BY <2>1, <2>2
<1> QED  BY <1>2, <1>3, <1>4, <1>5 DEF KeptEntries

LEMMA EntriesSame ==
  ASSUME XpccIInv, UNCHANGED << log, entries >>
  PROVE  KeptEntries
<1>1. ASSUME NEW c \in Boards, NEW k \in DOMAIN entries[c]
      PROVE  Sent(entries[c][k]) >= Sent(entries[c][k])
  BY <1>1, EntryFacts
<1>2. Entered' /\ OneEntry' /\ ResponsesFirst'
  BY DEF XpccIInv, Entered, EntryOf, OneEntry, ResponsesFirst, Made
<1> QED  BY <1>1, <1>2 DEF KeptEntries, XpccIInv, XpccTypeOK

LEMMA EntryRemoved ==
  ASSUME XpccIInv, UNCHANGED log, NEW b \in Boards, NEW i \in DOMAIN entries[b],
         RemoveEntry(b, i)
  PROVE  /\ KeptEntries
         /\ \A m : entries[b][i].header.msg = m => ~HasEntry(m)'
<1> DEFINE f == [k \in Nat |-> IF k < i THEN k ELSE k + 1]
<1>1. /\ Len(entries[b]) \in Nat /\ i \in 1..Len(entries[b])
      /\ DOMAIN entries[b] = 1..Len(entries[b]) /\ entries[b] \in Seq(Entries)
      /\ entries \in [Boards -> Seq(Entries)]
  BY EntryTyped DEF XpccIInv, XpccTypeOK
<1>2. /\ entries'[b] = RemoveAt(entries[b], i)
      /\ \A c \in Boards : c # b => entries'[c] = entries[c]
  BY <1>1 DEF RemoveEntry
<1>3. /\ entries'[b] \in Seq(Entries) /\ DOMAIN entries'[b] = 1..(Len(entries[b]) - 1)
      /\ \A k \in 1..(Len(entries[b]) - 1) :
           entries'[b][k] = entries[b][IF k < i THEN k ELSE k + 1]
  <2>1. /\ RemoveAt(entries[b], i) \in Seq(Entries)
        /\ Len(RemoveAt(entries[b], i)) = Len(entries[b]) - 1
        /\ \A k \in 1..(Len(entries[b]) - 1) :
             RemoveAt(entries[b], i)[k] = entries[b][IF k < i THEN k ELSE k + 1]
    BY <1>1, RemoveAtProperties
  <2>2. DOMAIN RemoveAt(entries[b], i) = 1..(Len(entries[b]) - 1)
    BY <2>1, LenProperties
  <2> QED  BY <1>2, <2>1, <2>2
<1>4. entries' \in [Boards -> Seq(Entries)]
  BY <1>1, <1>3 DEF RemoveEntry
<1>5. \A k \in DOMAIN entries'[b] :
        /\ f[k] \in DOMAIN entries[b] /\ f[k] # i
        /\ entries'[b][k] = entries[b][f[k]]
  <2> SUFFICES ASSUME NEW k \in 1..(Len(entries[b]) - 1)
               PROVE  /\ f[k] \in 1..Len(entries[b]) /\ f[k] # i
                      /\ entries'[b][k] = entries[b][f[k]]
    BY <1>1, <1>3
  <2>1. k \in Nat /\ f[k] = IF k < i THEN k ELSE k + 1
    BY <1>1
  <2> HIDE DEF f
  <2>2. f[k] \in 1..Len(entries[b]) /\ f[k] # i
    BY <1>1, <2>1
  <2>3. entries'[b][k] = entries[b][f[k]]
    BY <1>3, <2>1
  <2> QED  BY <2>2, <2>3
<1>6. \A j, k \in DOMAIN entries'[b] : j < k => f[j] < f[k]
  <2>1. \A j, k \in Nat : j < k => f[j] < f[k]
    BY <1>1
  <2>2. DOMAIN entries'[b] \subseteq Nat
    BY <1>1, <1>3
  <2> QED  BY <2>1, <2>2
<1> HIDE DEF f
<1>7. \A k \in DOMAIN entries'[b] :
        /\ Sent(entries'[b][k]) >= Sent(entries[b][f[k]])
        /\ entries'[b][k].state = "TransmissionPending" => entries'[b][k].tries = 0
  <2> SUFFICES ASSUME NEW k \in DOMAIN entries'[b]
               PROVE  /\ Sent(entries'[b][k]) >= Sent(entries[b][f[k]])
                      /\ entries'[b][k].state = "TransmissionPending" =>
                           entries'[b][k].tries = 0
    OBVIOUS
  <2>1. Sent(entries[b][f[k]]) \in 0..3
    BY <1>5, EntryFacts
  <2>2. EntryOf(b, entries[b][f[k]])
    BY <1>5 DEF XpccIInv, Entered
  <2> QED  BY <1>5, <2>1, <2>2 DEF EntryOf
<1>8. KeptEntries
  BY <1>2, <1>4, <1>5, <1>6, <1>7, EntriesMapped
<1>9. ASSUME NEW m, entries[b][i].header.msg = m
      PROVE  ~HasEntry(m)'
  <2> SUFFICES ASSUME NEW c \in Boards, NEW k \in DOMAIN entries'[c],
                      entries'[c][k].header.msg = entries[b][i].header.msg
               PROVE  FALSE
    BY <1>9 DEF HasEntry
  <2>1. CASE c = b
    <3>1. f[k] \in DOMAIN entries[b] /\ entries[b][f[k]].header.msg = entries[b][i].header.msg
      BY <1>5, <2>1
    <3> QED  BY <1>5, <2>1, <3>1, SameEntry
  <2>2. CASE c # b
    BY <1>2, <2>2, SameEntry
  <2> QED  BY <2>1, <2>2
<1> QED  BY <1>8, <1>9

(* A response and the request behind it that it answers.                    *)
LEMMA PairRemoved ==
  ASSUME XpccIInv, UNCHANGED log, NEW b \in Boards, NEW i \in DOMAIN entries[b],
         NEW j \in DOMAIN entries[b], i < j,
         entries' = [entries EXCEPT ![b] = RemoveAt(RemoveAt(@, j), i)]
  PROVE  /\ KeptEntries
         /\ \A m : entries[b][i].header.msg = m => ~HasEntry(m)'
         /\ \A m : entries[b][j].header.msg = m => ~HasEntry(m)'
<1> DEFINE N == Len(entries[b])
           rest == RemoveAt(entries[b], j)
           f == [k \in Nat |-> IF k < i THEN k ELSE IF k + 1 < j THEN k + 1 ELSE k + 2]
<1>1. /\ N \in Nat /\ i \in 1..N /\ j \in 1..N
      /\ DOMAIN entries[b] = 1..N /\ entries[b] \in Seq(Entries)
      /\ entries \in [Boards -> Seq(Entries)]
  BY EntryTyped DEF XpccIInv, XpccTypeOK
<1>2. /\ rest \in Seq(Entries) /\ Len(rest) = N - 1
      /\ \A k \in 1..(N - 1) : rest[k] = entries[b][IF k < j THEN k ELSE k + 1]
  BY <1>1, RemoveAtProperties
<1> HIDE DEF rest
<1>3. i \in 1..Len(rest)
  BY <1>1, <1>2
<1>4. /\ RemoveAt(rest, i) \in Seq(Entries) /\ Len(RemoveAt(rest, i)) = Len(rest) - 1
      /\ \A k \in 1..(Len(rest) - 1) :
           RemoveAt(rest, i)[k] = rest[IF k < i THEN k ELSE k + 1]
  BY <1>2, <1>3, RemoveAtProperties
<1>5. /\ entries'[b] = RemoveAt(rest, i)
      /\ \A c \in Boards : c # b => entries'[c] = entries[c]
      /\ entries' \in [Boards -> Seq(Entries)]
  BY <1>1, <1>4 DEF rest
<1>6. DOMAIN entries'[b] = 1..(N - 2)
  BY <1>1, <1>2, <1>4, <1>5, LenProperties
<1>7. \A k \in DOMAIN entries'[b] :
        /\ f[k] \in DOMAIN entries[b] /\ f[k] # i /\ f[k] # j
        /\ entries'[b][k] = entries[b][f[k]]
  <2> SUFFICES ASSUME NEW k \in 1..(N - 2)
               PROVE  /\ f[k] \in DOMAIN entries[b] /\ f[k] # i /\ f[k] # j
                      /\ entries'[b][k] = entries[b][f[k]]
    BY <1>6
  <2>1. entries'[b][k] = rest[IF k < i THEN k ELSE k + 1]
    BY <1>1, <1>2, <1>4, <1>5
  <2>2. k \in Nat /\ (IF k < i THEN k ELSE k + 1) \in 1..(N - 1)
    BY <1>1
  <2>3. entries'[b][k] = entries[b][f[k]]
    BY <1>1, <1>2, <2>1, <2>2
  <2> QED  BY <1>1, <2>2, <2>3
<1>8. \A k, l \in DOMAIN entries'[b] : k < l => f[k] < f[l]
  <2>1. \A k, l \in Nat : k < l => f[k] < f[l]
    BY <1>1
  <2>2. DOMAIN entries'[b] \subseteq Nat
    BY <1>1, <1>6
  <2> QED  BY <2>1, <2>2
<1> HIDE DEF f, N
<1>9. \A k \in DOMAIN entries'[b] :
        /\ Sent(entries'[b][k]) >= Sent(entries[b][f[k]])
        /\ entries'[b][k].state = "TransmissionPending" => entries'[b][k].tries = 0
  <2> SUFFICES ASSUME NEW k \in DOMAIN entries'[b]
               PROVE  /\ Sent(entries'[b][k]) >= Sent(entries[b][f[k]])
                      /\ entries'[b][k].state = "TransmissionPending" =>
                           entries'[b][k].tries = 0
    OBVIOUS
  <2>1. Sent(entries[b][f[k]]) \in 0..3
    BY <1>7, EntryFacts
  <2>2. EntryOf(b, entries[b][f[k]])
    BY <1>7 DEF XpccIInv, Entered
  <2> QED  BY <1>7, <2>1, <2>2 DEF EntryOf
<1>10. KeptEntries
  BY <1>5, <1>7, <1>8, <1>9, EntriesMapped
<1>11. ASSUME NEW l \in {i, j}, NEW m, entries[b][l].header.msg = m
       PROVE  ~HasEntry(m)'
  <2> SUFFICES ASSUME NEW c \in Boards, NEW k \in DOMAIN entries'[c],
                      entries'[c][k].header.msg = entries[b][l].header.msg
               PROVE  FALSE
    BY <1>11 DEF HasEntry
  <2>1. CASE c = b
    <3>1. f[k] \in DOMAIN entries[b] /\ entries[b][f[k]].header.msg = entries[b][l].header.msg
      BY <1>7, <2>1
    <3> QED  BY <1>7, <2>1, <3>1, SameEntry
  <2>2. CASE c # b
    BY <1>5, <2>2, SameEntry
  <2> QED  BY <2>1, <2>2
<1> QED  BY <1>10, <1>11

LEMMA EntryUpdated ==
  ASSUME XpccIInv, UNCHANGED log, NEW b \in Boards, NEW i \in DOMAIN entries[b],
         NEW e \in Entries,
         entries' = [entries EXCEPT ![b] = [@ EXCEPT ![i] = e]],
         e.header = entries[b][i].header, Sent(e) >= Sent(entries[b][i]),
         e.state # "TransmissionPending"
  PROVE  /\ KeptEntries
         /\ \A c \in Boards : \A k \in DOMAIN entries'[c] :
              entries'[c][k].header.msg = e.header.msg => entries'[c][k] = e
<1> DEFINE f == [k \in Nat |-> k]
<1>1. /\ Len(entries[b]) \in Nat /\ i \in 1..Len(entries[b])
      /\ DOMAIN entries[b] = 1..Len(entries[b]) /\ entries[b] \in Seq(Entries)
      /\ entries \in [Boards -> Seq(Entries)]
  BY EntryTyped DEF XpccIInv, XpccTypeOK
<1>2. /\ entries'[b] = [entries[b] EXCEPT ![i] = e]
      /\ \A c \in Boards : c # b => entries'[c] = entries[c]
  BY <1>1
<1>3. /\ entries'[b] \in Seq(Entries) /\ DOMAIN entries'[b] = DOMAIN entries[b]
      /\ \A k \in DOMAIN entries[b] : entries'[b][k] = IF k = i THEN e ELSE entries[b][k]
  BY <1>1, <1>2, ExceptSeq
<1>4. entries' \in [Boards -> Seq(Entries)]
  BY <1>1, <1>3
<1>5. \A k \in DOMAIN entries'[b] :
        /\ f[k] \in DOMAIN entries[b]
        /\ entries'[b][k].header = entries[b][f[k]].header
        /\ Sent(entries'[b][k]) >= Sent(entries[b][f[k]])
        /\ entries'[b][k].state = "TransmissionPending" => entries'[b][k].tries = 0
  <2> SUFFICES ASSUME NEW k \in DOMAIN entries[b]
               PROVE  /\ f[k] = k
                      /\ entries'[b][k].header = entries[b][k].header
                      /\ Sent(entries'[b][k]) >= Sent(entries[b][k])
                      /\ entries'[b][k].state = "TransmissionPending" =>
                           entries'[b][k].tries = 0
    BY <1>3
  <2>1. Sent(entries[b][k]) \in 0..3
    BY EntryFacts
  <2>2. EntryOf(b, entries[b][k])
    BY DEF XpccIInv, Entered
  <2> QED  BY <1>1, <1>3, <2>1, <2>2 DEF EntryOf
<1>6. \A j, k \in DOMAIN entries'[b] : j < k => f[j] < f[k]
  BY <1>1, <1>3
<1> HIDE DEF f
<1>7. KeptEntries
  BY <1>2, <1>4, <1>5, <1>6, EntriesMapped
<1>8. ASSUME NEW c \in Boards, NEW k \in DOMAIN entries'[c],
             entries'[c][k].header.msg = e.header.msg
      PROVE  entries'[c][k] = e
  <2>1. CASE c = b
    <3>1. k \in DOMAIN entries[b] /\ entries[b][k].header.msg = entries[b][i].header.msg
      BY <1>3, <1>8, <2>1
    <3>2. k = i
      BY <3>1, SameEntry
    <3> QED  BY <1>3, <2>1, <3>1, <3>2
  <2>2. CASE c # b
    <3>1. k \in DOMAIN entries[c] /\ entries[c][k].header.msg = entries[b][i].header.msg
      BY <1>2, <1>8, <2>2
    <3> QED  BY <2>2, <3>1, SameEntry
  <2> QED  BY <2>1, <2>2
<1> QED  BY <1>7, <1>8
-----------------------------------------------------------------------------
(* What each conjunct of the invariant asks of a step.                      *)
LEMMA HasEntryKept ==
  ASSUME KeptEntries, NEW m, HasEntry(m)'
  PROVE  HasEntry(m)
<1>0. PICK c \in Boards :
        \E k \in DOMAIN entries'[c] : entries'[c][k].header.msg = m
  BY DEF HasEntry
<1>1. PICK k \in DOMAIN entries'[c] : entries'[c][k].header.msg = m
  BY <1>0
<1>2. PICK j \in DOMAIN entries[c] : entries'[c][k].header = entries[c][j].header
  BY DEF KeptEntries
<1> QED  BY <1>1, <1>2 DEF HasEntry

LEMMA LoggedKept ==
  ASSUME XpccIInv, XpccTypeOK', Grows, UNCHANGED log
  PROVE  Logged'
<1> SUFFICES ASSUME NEW m \in Made
             PROVE  /\ log[m].msg = m /\ ~log[m].isAcknowledge
                    /\ log[m].type \in {"REQUEST", "RESPONSE"}
                    /\ log[m].type = "RESPONSE" =>
                         \E q \in Made :
                           /\ log[q].type = "REQUEST" /\ delivered'[q] > 0
                           /\ Reverses(log[q], log[m])
  BY DEF Logged, Made, Reverses
<1>1. ASSUME NEW q \in Made, delivered[q] > 0
      PROVE  delivered'[q] > 0
  <2>1. delivered[q] \in Nat /\ delivered'[q] \in Nat
    BY MadeIsMessage DEF XpccIInv, XpccTypeOK
  <2>2. delivered'[q] >= delivered[q]
    BY DEF Grows
  <2> QED  BY <1>1, <2>1, <2>2
<1> QED  BY <1>1 DEF XpccIInv, Logged

LEMMA HandledKept ==
  ASSUME XpccIInv, XpccTypeOK', Grows,
         \A c \in Boards : \A h \in handles'[c] :
           h \in handles[c] \/ HandleOf(c, h)'
  PROVE  Handled'
<1> SUFFICES ASSUME NEW c \in Boards, NEW h \in handles'[c]
             PROVE  HandleOf(c, h)'
  BY DEF Handled
<1>1. CASE h \in handles[c]
  <2>1. HandleOf(c, h)
    BY <1>1 DEF XpccIInv, Handled
  <2> QED  BY <2>1, HandleKept DEF XpccIInv
<1> QED  BY <1>1

LEMMA FreshKept ==
  ASSUME XpccIInv, UNCHANGED log,
         \A m \in Message \ Made :
           /\ delivered'[m] = delivered[m] /\ outcomes'[m] = outcomes[m]
           /\ m \in acked' => m \in acked
  PROVE  Fresh'
BY DEF XpccIInv, Fresh, Made, Message

LEMMA AnsweringKept ==
  ASSUME XpccIInv, KeptEntries,
         \A m \in Message :
           \/ outcomes'[m] = outcomes[m]
           \/ Len(outcomes'[m]) <= 1 /\ ~HasEntry(m)'
  PROVE  Answering'
<1> SUFFICES ASSUME NEW m \in Message
             PROVE  /\ Len(outcomes'[m]) <= 1
                    /\ outcomes'[m] # << >> => ~HasEntry(m)'
  BY DEF Answering, Message
<1>1. CASE outcomes'[m] = outcomes[m]
  <2>1. Len(outcomes[m]) <= 1 /\ (outcomes[m] # << >> => ~HasEntry(m))
    BY DEF XpccIInv, Answering
  <2> QED  BY <1>1, <2>1, HasEntryKept
<1> QED  BY <1>1

LEMMA AckedKept ==
  ASSUME XpccIInv, XpccTypeOK', Grows, UNCHANGED log,
         \A m \in acked' \ acked :
           delivered'[m] > 0 \/ \E k \in Made \ {m} : SameHeader(m, k)
  PROVE  AckedIsDelivered'
<1> SUFFICES ASSUME NEW m \in acked'
             PROVE  delivered'[m] > 0 \/ \E k \in Made \ {m} : SameHeader(m, k)
  BY DEF AckedIsDelivered, Made, SameHeader
<1>1. CASE m \in acked
  <2>1. m \in Made
    BY <1>1 DEF XpccIInv, XpccTypeOK, Fresh
  <2>2. delivered[m] \in Nat /\ delivered'[m] \in Nat
    BY <2>1, MadeIsMessage DEF XpccIInv, XpccTypeOK
  <2>3. delivered'[m] >= delivered[m]
    BY <2>1 DEF Grows
  <2>4. delivered[m] > 0 => delivered'[m] > 0
    BY <2>2, <2>3
  <2> QED  BY <1>1, <2>4 DEF XpccIInv, AckedIsDelivered
<1> QED  BY <1>1

(* Response r is for request m, and no other message has the header of m.   *)
Answers(r, m) ==
  /\ log[m].type = "REQUEST" /\ log[r].type # "REQUEST"
  /\ Reverses(log[m], log[r])
  /\ \A k \in Made \ {m} : ~SameHeader(m, k)

LEMMA AnswersAre ==
  AnswerEndsWaiting <=>
    \A m, r \in Made : Answers(r, m) /\ delivered[r] > 0 => ~HasEntry(m)
BY DEF AnswerEndsWaiting, Answers, HasEntry, HeaderFits, Reverses

LEMMA AnswersAreThen ==
  AnswerEndsWaiting' <=>
    \A m, r \in Made' : Answers(r, m)' /\ delivered'[r] > 0 => ~HasEntry(m)'
BY DEF AnswerEndsWaiting, Answers, HasEntry, HeaderFits, Reverses, Made, SameHeader

LEMMA AnswersKept ==
  ASSUME XpccIInv, KeptEntries, UNCHANGED log,
         \A m, r \in Made :
           Answers(r, m) => delivered'[r] = delivered[r] \/ ~HasEntry(m)'
  PROVE  AnswerEndsWaiting'
<1> SUFFICES ASSUME NEW m \in Made, NEW r \in Made, Answers(r, m),
                    delivered'[r] > 0
             PROVE  ~HasEntry(m)'
  BY AnswersAreThen DEF Answers, Made, SameHeader, Reverses
<1>1. CASE delivered'[r] = delivered[r]
  <2>1. ~HasEntry(m)
    BY <1>1, AnswersAre DEF XpccIInv
  <2> QED  BY <2>1, HasEntryKept
<1> QED  BY <1>1

LEMMA TotalTyped ==
  ASSUME XpccTypeOK, NEW m \in Made, log[m].destination # Everyone
  PROVE  /\ BoardOf[log[m].destination] \in Boards
         /\ backlog[BoardOf[log[m].destination]] \in Seq(Packets)
         /\ delivered[m] \in Nat /\ Total(m) \in Nat /\ Total(m) >= delivered[m]
<1>1. log[m] \in Packets /\ m \in Message
  BY MadeIsMessage
<1>2. BoardOf[log[m].destination] \in Boards
  BY <1>1, XpccAssumption DEF Packets
<1>3. /\ backlog[BoardOf[log[m].destination]] \in Seq(Packets)
      /\ delivered[m] \in Nat
  BY <1>1, <1>2 DEF XpccTypeOK
<1>4. Cardinality(Copies(backlog[BoardOf[log[m].destination]], m)) \in Nat
  BY <1>3, CopiesFinite
<1> QED  BY <1>2, <1>3, <1>4 DEF Total

LEMMA TotalTypedThen ==
  ASSUME XpccTypeOK', UNCHANGED log, NEW m \in Made, log[m].destination # Everyone
  PROVE  /\ BoardOf[log[m].destination] \in Boards
         /\ backlog'[BoardOf[log[m].destination]] \in Seq(Packets)
         /\ delivered'[m] \in Nat
         /\ Total(m)' = delivered'[m] +
              Cardinality(Copies(backlog'[BoardOf[log[m].destination]], m))
         /\ Total(m)' \in Nat
<1>1. log[m] \in Packets /\ m \in Message
  <2>1. log' \in Seq(Packets) /\ Len(log') <= MaxMessages
    BY DEF XpccTypeOK
  <2>2. log \in Seq(Packets) /\ Len(log) <= MaxMessages /\ m \in DOMAIN log
    BY <2>1 DEF Made
  <2> QED  BY <2>2, LenProperties, XpccAssumption DEF Message
<1>2. BoardOf[log[m].destination] \in Boards
  BY <1>1, XpccAssumption DEF Packets
<1>3. /\ backlog'[BoardOf[log[m].destination]] \in Seq(Packets)
      /\ delivered'[m] \in Nat
  BY <1>1, <1>2 DEF XpccTypeOK
<1>4. Cardinality(Copies(backlog'[BoardOf[log[m].destination]], m)) \in Nat
  BY <1>3, CopiesFinite
<1>5. Total(m)' = delivered'[m] +
        Cardinality(Copies(backlog'[BoardOf[log[m].destination]], m))
  BY DEF Total, Copies
<1> QED  BY <1>2, <1>3, <1>4, <1>5

LEMMA CountedKept ==
  ASSUME XpccIInv, XpccTypeOK', KeptEntries, UNCHANGED log, NEW m \in Made,
         log[m].destination = Everyone => delivered'[m] = delivered[m],
         log[m].destination # Everyone => Total(m)' <= Total(m)
  PROVE  CountedOf(m)'
<1>1. CountedOf(m)
  BY DEF XpccIInv, Counted
<1>2. CASE log[m].destination = Everyone
  BY <1>1, <1>2 DEF CountedOf
<1>3. CASE log[m].destination # Everyone
  <2>1. Total(m) \in Nat /\ Total(m)' \in Nat
    BY <1>3, TotalTyped, TotalTypedThen DEF XpccIInv
  <2>2. Total(m) <= 3
    BY <1>1, <1>3 DEF CountedOf
  <2>3. ASSUME NEW c \in Boards, NEW k \in DOMAIN entries'[c],
               entries'[c][k].header.msg = m
        PROVE  Total(m)' <= Sent(entries'[c][k])
    <3>1. PICK j \in DOMAIN entries[c] :
            /\ entries'[c][k].header = entries[c][j].header
            /\ Sent(entries'[c][k]) >= Sent(entries[c][j])
      BY DEF KeptEntries
    <3>2. Total(m) <= Sent(entries[c][j])
      BY <1>1, <1>3, <2>3, <3>1 DEF CountedOf
    <3>3. Sent(entries[c][j]) \in 0..3
      BY EntryFacts
    <3>4. Sent(entries'[c][k]) \in 0..3
      <4>1. entries'[c][k] \in Entries
        BY LenProperties DEF XpccTypeOK
      <4> QED  BY <4>1 DEF Sent, Entries
    <3> HIDE DEF Sent, Total
    <3> QED  BY <1>3, <2>1, <3>1, <3>2, <3>3, <3>4
  <2>4. Total(m)' <= 3
    BY <1>3, <2>1, <2>2
  <2> QED  BY <1>3, <2>3, <2>4 DEF CountedOf, Sent
<1> QED  BY <1>2, <1>3

LEMMA StepKeeps ==
  ASSUME XpccIInv, XpccTypeOK', UNCHANGED log, Grows, KeptEntries, Received',
         \A m \in Message \ Made : delivered'[m] = delivered[m],
         \A c \in Boards : \A h \in handles'[c] :
           h \in handles[c] \/ HandleOf(c, h)',
         \A m \in Message :
           \/ outcomes'[m] = outcomes[m]
           \/ m \in Made /\ Len(outcomes'[m]) <= 1 /\ ~HasEntry(m)',
         \A m \in acked' \ acked :
           /\ m \in Made
           /\ delivered'[m] > 0 \/ \E k \in Made \ {m} : SameHeader(m, k),
         \A m \in Made : CountedOf(m)',
         \A m, r \in Made :
           Answers(r, m) => delivered'[r] = delivered[r] \/ ~HasEntry(m)'
  PROVE  XpccIInv'
<1>1. Logged'
  BY LoggedKept
<1>2. Handled'
  BY HandledKept
<1>3. Fresh'
  BY FreshKept
<1>4. Answering'
  BY AnsweringKept
<1>5. AckedIsDelivered'
  BY AckedKept
<1>6. AnswerEndsWaiting'
  BY AnswersKept
<1>7. Counted'
  BY DEF Counted, Made
<1>8. Entered' /\ OneEntry' /\ ResponsesFirst'
  BY DEF KeptEntries
<1> QED  BY <1>1, <1>2, <1>3, <1>4, <1>5, <1>6, <1>7, <1>8 DEF XpccIInv

-----------------------------------------------------------------------------
(* Packets that are sent, over backends that hold box before.               *)
Posted(box, q) ==
  \A r \in Boards :
    \/ backlog'[r] = box[r]
    \/ q \in Packets /\ GenuinePacket(r, q)' /\ backlog'[r] = Append(box[r], q)

LEMMA SendEffect ==
  ASSUME XpccTypeOK, NEW b \in Boards, NEW q \in Packets,
         NEW box \in [Boards -> Seq(Packets)], SendPacket(b, q, box),
         \A r \in Receivers(b, q) : GenuinePacket(r, q)'
  PROVE  Posted(box, q) /\ backlog' \in [Boards -> Seq(Packets)]
<1>1. PICK heard \in SUBSET Receivers(b, q) :
        backlog' = [r \in Boards |->
                    IF r \in heard THEN Append(box[r], q) ELSE box[r]]
  BY DEF SendPacket
<1>2. \A r \in Boards : Append(box[r], q) \in Seq(Packets) /\ box[r] \in Seq(Packets)
  BY AppendProperties
<1>3. backlog' \in [Boards -> Seq(Packets)]
  BY <1>1, <1>2
<1>4. \A r \in Boards :
        \/ backlog'[r] = box[r]
        \/ r \in Receivers(b, q) /\ backlog'[r] = Append(box[r], q)
  BY <1>1
<1> QED  BY <1>3, <1>4 DEF Posted

(* Every backend has lost its first packet or none.                         *)
Shortened(box) ==
  \A r \in Boards :
    \/ box[r] = backlog[r]
    \/ backlog[r] # << >> /\ box[r] = Tail(backlog[r])

LEMMA ReceivedKept ==
  ASSUME XpccIInv, XpccTypeOK', Grows, NEW box \in [Boards -> Seq(Packets)],
         Shortened(box), NEW q, Posted(box, q)
  PROVE  Received'
<1>1. ASSUME NEW r \in Boards, NEW k \in DOMAIN box[r]
      PROVE  GenuinePacket(r, box[r][k])'
  <2>1. backlog[r] \in Seq(Packets)
    BY DEF XpccIInv, XpccTypeOK
  <2>2. PICK j \in DOMAIN backlog[r] : box[r][k] = backlog[r][j]
    <3>1. CASE box[r] = backlog[r]
      BY <3>1
    <3>2. CASE backlog[r] # << >> /\ box[r] = Tail(backlog[r])
      <4>1. /\ Len(backlog[r]) \in Nat \ {0}
            /\ DOMAIN backlog[r] = 1..Len(backlog[r])
            /\ DOMAIN Tail(backlog[r]) = 1..(Len(backlog[r]) - 1)
            /\ \A l \in 1..(Len(backlog[r]) - 1) :
                 Tail(backlog[r])[l] = backlog[r][l + 1]
        BY <2>1, <3>2, LenProperties, HeadTailProperties, EmptySeq
      <4>2. k \in 1..(Len(backlog[r]) - 1) /\ k + 1 \in DOMAIN backlog[r]
        BY <3>2, <4>1
      <4> QED  BY <3>2, <4>1, <4>2
    <3> QED  BY <3>1, <3>2 DEF Shortened
  <2>3. PICK p : p = box[r][k]
    OBVIOUS
  <2>4. GenuinePacket(r, p)
    BY <2>2, <2>3 DEF XpccIInv, Received
  <2>5. GenuinePacket(r, p)'
    BY <2>4, PacketKept DEF XpccIInv
  <2> QED  BY <2>3, <2>5
<1> SUFFICES ASSUME NEW r \in Boards, NEW k \in DOMAIN backlog'[r],
                    NEW p, p = backlog'[r][k]
             PROVE  GenuinePacket(r, p)'
  BY DEF Received
<1>2. CASE backlog'[r] = box[r]
  BY <1>1, <1>2
<1>3. CASE q \in Packets /\ GenuinePacket(r, q)' /\ backlog'[r] = Append(box[r], q)
  <2>1. /\ Len(box[r]) \in Nat /\ DOMAIN box[r] = 1..Len(box[r])
        /\ DOMAIN backlog'[r] = 1..(Len(box[r]) + 1)
        /\ \A l \in 1..Len(box[r]) : backlog'[r][l] = box[r][l]
        /\ backlog'[r][Len(box[r]) + 1] = q
    BY <1>3, AppendProperties, LenProperties
  <2>2. CASE k = Len(box[r]) + 1
    BY <1>3, <2>1, <2>2
  <2>3. CASE k # Len(box[r]) + 1
    <3>1. k \in DOMAIN box[r] /\ p = box[r][k]
      BY <2>1, <2>3
    <3> QED  BY <1>1, <3>1
  <2> QED  BY <2>2, <2>3
<1> QED  BY <1>2, <1>3 DEF Posted

(* The acknowledge of a message that has been delivered.                    *)
AckOf(h) ==
  [h EXCEPT !.isAcknowledge = TRUE, !.destination = h.source,
            !.source = h.destination]

LEMMA AckGenuine ==
  ASSUME NEW h \in Packets, h.msg \in Made', h = log'[h.msg],
         delivered'[h.msg] > 0, h.destination \in Components, NEW b \in Boards
  PROVE  /\ AckOf(h) \in Packets /\ AckOf(h).isAcknowledge
         /\ \A q : q = AckOf(h) => GenuinePacket(b, q)'
<1>1. /\ AckOf(h) \in Packets /\ AckOf(h).isAcknowledge
      /\ AckOf(h).msg = h.msg /\ AckOf(h).type = h.type
      /\ AckOf(h).source = h.destination /\ AckOf(h).destination = h.source
      /\ AckOf(h).packetIdentifier = h.packetIdentifier
  BY DEF AckOf, Packets
<1>2. \A q : q = AckOf(h) => GenuinePacket(b, q)'
  BY <1>1 DEF GenuinePacket, Reverses, Made
<1> QED  BY <1>1, <1>2

(* Receiving a packet moves it from the backlog to delivered, or drops it.  *)
LEMMA ReceiveCounted ==
  ASSUME XpccIInv, XpccTypeOK', KeptEntries, UNCHANGED log, NEW b \in Boards,
         backlog[b] # << >>,
         NEW p \in Packets, p = Head(backlog[b]), GenuinePacket(b, p),
         NEW box \in [Boards -> Seq(Packets)],
         box = [backlog EXCEPT ![b] = Tail(@)],
         NEW q, Posted(box, q), q.isAcknowledge,
         \/ delivered' = delivered
         \/ /\ ~p.isAcknowledge /\ p.destination \in Components
            /\ delivered' = [delivered EXCEPT ![p.msg] = @ + 1],
         NEW m \in Made
  PROVE  CountedOf(m)'
<1>1. m \in Message /\ p.msg \in Message
  BY MadeIsMessage DEF XpccIInv, GenuinePacket
<1>2. delivered \in [Message -> Nat]
  BY DEF XpccIInv, XpccTypeOK
<1>3. delivered'[m] = delivered[m] +
        (IF p.msg = m /\ delivered' # delivered THEN 1 ELSE 0)
  BY <1>1, <1>2
<1>4. delivered' # delivered /\ p.msg = m =>
        /\ ~p.isAcknowledge /\ p.destination \in Components
        /\ p.destination = log[m].destination /\ BoardOf[log[m].destination] = b
  BY DEF GenuinePacket
<1>5. ASSUME log[m].destination = Everyone
      PROVE  delivered'[m] = delivered[m]
  BY <1>2, <1>1, <1>3, <1>4, <1>5, XpccAssumption
<1>6. ASSUME log[m].destination # Everyone
      PROVE  Total(m)' <= Total(m)
  <2> DEFINE D == BoardOf[log[m].destination]
  <2>1. /\ D \in Boards /\ backlog[D] \in Seq(Packets)
        /\ Total(m)' = delivered'[m] + Cardinality(Copies(backlog'[D], m))
    BY <1>6, TotalTyped, TotalTypedThen DEF XpccIInv
  <2>2. Total(m) = delivered[m] + Cardinality(Copies(backlog[D], m))
    BY DEF Total
  <2> HIDE DEF D
  <2>3. Copies(backlog'[D], m) = Copies(box[D], m)
    <3>1. CASE backlog'[D] = box[D]
      BY <3>1
    <3>2. CASE q \in Packets /\ backlog'[D] = Append(box[D], q)
      <4>1. box[D] \in Seq(Packets)
        BY <2>1
      <4>2. Copies(Append(box[D], q), m) =
              IF q.msg = m /\ ~q.isAcknowledge
                THEN Copies(box[D], m) \cup {Len(box[D]) + 1}
                ELSE Copies(box[D], m)
        BY <3>2, <4>1, CopiesAppend
      <4> QED  BY <3>2, <4>2
    <3> QED  BY <2>1, <3>1, <3>2 DEF Posted
  <2>4. /\ Cardinality(Copies(box[D], m)) \in Nat
        /\ Cardinality(Copies(backlog[D], m)) \in Nat
    BY <2>1, CopiesFinite
  <2>5. delivered[m] \in Nat
    BY <1>1, <1>2
  <2>6. CASE D = b
    <3>1. Cardinality(Copies(backlog[D], m)) = Cardinality(Copies(box[D], m)) +
            IF p.msg = m /\ ~p.isAcknowledge THEN 1 ELSE 0
      <4>1. box[D] = Tail(backlog[D]) /\ p = Head(backlog[D])
        BY <2>1, <2>6 DEF XpccIInv, XpccTypeOK
      <4> QED  BY <2>1, <2>6, <4>1, CopiesTail
    <3> QED  BY <1>3, <1>4, <2>1, <2>2, <2>3, <2>4, <2>5, <3>1
  <2>7. CASE D # b
    <3>1. box[D] = backlog[D]
      BY <2>1, <2>7 DEF XpccIInv, XpccTypeOK
    <3>2. delivered'[m] = delivered[m]
      BY <1>3, <1>4, <2>5, <2>7 DEF D
    <3> QED  BY <2>1, <2>2, <2>3, <2>4, <2>5, <3>1, <3>2
  <2> QED  BY <2>6, <2>7
<1> HIDE DEF Total
<1> QED  BY <1>5, <1>6, CountedKept

LEMMA ReceiveRequestKeeps ==
  ASSUME XpccIInv, NEW b \in Boards, cursor[b] = 0, backlog[b] # << >>,
         ReceiveRequest(b, Head(backlog[b])), UNCHANGED << log, cursor >>
  PROVE  XpccIInv'
<1> DEFINE box == [backlog EXCEPT ![b] = Tail(@)]
<1>1. PICK p : p = Head(backlog[b])
  OBVIOUS
<1>2. ReceiveRequest(b, p)
  BY <1>1
<1>3. /\ backlog \in [Boards -> Seq(Packets)] /\ backlog[b] \in Seq(Packets)
      /\ delivered \in [Message -> Nat] /\ handles \in [Boards -> SUBSET Packets]
  BY DEF XpccIInv, XpccTypeOK
<1>4. p \in Packets /\ p = backlog[b][1] /\ 1 \in DOMAIN backlog[b]
  BY <1>1, <1>3, LenProperties, HeadTailProperties, EmptySeq
<1>5. GenuinePacket(b, p)
  BY <1>4 DEF XpccIInv, Received
<1>6. /\ p.type = "REQUEST" /\ ~p.isAcknowledge /\ p.msg \in Made
      /\ p = log[p.msg] /\ p.msg \in Message
  BY <1>2, <1>5, MadeIsMessage DEF XpccIInv, ReceiveRequest, GenuinePacket
<1>7. box \in [Boards -> Seq(Packets)] /\ Shortened(box)
  <2>1. Tail(backlog[b]) \in Seq(Packets)
    BY <1>3, HeadTailProperties, EmptySeq
  <2>2. box \in [Boards -> Seq(Packets)]
    BY <1>3, <2>1
  <2>3. \A r \in Boards : box[r] = IF r = b THEN Tail(backlog[b]) ELSE backlog[r]
    BY <1>3
  <2> HIDE DEF box
  <2> QED  BY <2>2, <2>3 DEF Shortened
<1>8. PICK rest \in [Boards -> Seq(Packets)] : rest = box
  BY <1>7
<1>9. UNCHANGED << log, entries, acked, outcomes, cursor >>
  BY <1>2 DEF ReceiveRequest
<1>10. KeptEntries
  BY <1>9, EntriesSame
<1>11. /\ \A m \in Message : /\ delivered'[m] \in Nat /\ delivered'[m] >= delivered[m]
                             /\ m # p.msg => delivered'[m] = delivered[m]
       /\ delivered' \in [Message -> Nat] /\ handles' \in [Boards -> SUBSET Packets]
  <2>1. CASE HasAction(b, p)
    <3>1. /\ delivered' = [delivered EXCEPT ![p.msg] = @ + 1]
          /\ handles' = [handles EXCEPT ![b] = @ \cup {p}]
      BY <1>2, <2>1 DEF ReceiveRequest, DeliverRequest
    <3>2. handles' \in [Boards -> SUBSET Packets]
      BY <1>3, <1>4, <3>1
    <3>3. delivered' \in [Message -> Nat]
      BY <1>3, <1>6, <3>1
    <3> QED  BY <1>3, <1>6, <3>1, <3>2, <3>3
  <2>2. CASE ~HasAction(b, p)
    BY <1>2, <1>3, <2>2 DEF ReceiveRequest, DeliverRequest
  <2> QED  BY <2>1, <2>2
<1>12. Grows
  BY <1>9, <1>11, MadeIsMessage DEF Grows, XpccIInv, Made
<1>13. /\ HasAction(b, p) =>
            /\ p.destination \in Components /\ BoardOf[p.destination] = b
            /\ delivered' = [delivered EXCEPT ![p.msg] = @ + 1]
            /\ handles' = [handles EXCEPT ![b] = @ \cup {p}]
            /\ SendPacket(b, AckOf(p), rest)
       /\ ~HasAction(b, p) =>
            delivered' = delivered /\ handles' = handles /\ backlog' = rest
  BY <1>2, <1>8 DEF ReceiveRequest, DeliverRequest, SendAcknowledge, AckOf,
     HasAction, IsComponentAvailable
<1>14. HasAction(b, p) => delivered'[p.msg] > 0
  BY <1>3, <1>6, <1>13
<1>15. PICK q : q.isAcknowledge /\ Posted(rest, q) /\ backlog' \in [Boards -> Seq(Packets)]
  <2>1. CASE HasAction(b, p)
    <3>1. p.msg \in Made' /\ p = log'[p.msg]
      BY <1>6, <1>9 DEF Made
    <3>2. PICK q : q = AckOf(p)
      OBVIOUS
    <3>3. q \in Packets /\ q.isAcknowledge /\ \A r \in Boards : GenuinePacket(r, q)'
      BY <1>4, <1>13, <1>14, <2>1, <3>1, <3>2, AckGenuine
    <3>4. Receivers(b, q) \subseteq Boards
      BY <3>3, XpccAssumption DEF Receivers, Packets
    <3> QED  BY <1>13, <2>1, <3>2, <3>3, <3>4, SendEffect DEF XpccIInv
  <2>2. CASE ~HasAction(b, p)
    <3>1. PICK q : q = AckOf(p)
      OBVIOUS
    <3>2. q.isAcknowledge
      BY <1>4, <3>1 DEF AckOf, Packets
    <3> QED  BY <1>13, <2>2, <3>2 DEF Posted
  <2> QED  BY <2>1, <2>2
<1>16. XpccTypeOK'
  BY <1>9, <1>11, <1>15 DEF XpccIInv, XpccTypeOK
<1>17. Received'
  BY <1>7, <1>8, <1>12, <1>15, <1>16, ReceivedKept
<1>18. \A m \in Made : CountedOf(m)'
  <2>1. \/ delivered' = delivered
        \/ /\ ~p.isAcknowledge /\ p.destination \in Components
           /\ delivered' = [delivered EXCEPT ![p.msg] = @ + 1]
    BY <1>6, <1>13
  <2> HIDE DEF box
  <2>2. rest = [backlog EXCEPT ![b] = Tail(@)]
    BY <1>8 DEF box
  <2> QED  BY <1>1, <1>4, <1>5, <1>9, <1>10, <1>15, <1>16, <2>1, <2>2, ReceiveCounted
<1>19. ASSUME NEW c \in Boards, NEW h \in handles'[c]
       PROVE  h \in handles[c] \/ HandleOf(c, h)'
  <2>1. CASE h \notin handles[c]
    <3>1. HasAction(b, p) /\ c = b /\ h = p
      BY <1>3, <1>13, <1>19, <2>1
    <3> QED  BY <1>6, <1>9, <1>13, <1>14, <3>1 DEF HandleOf, Made
  <2> QED  BY <2>1
<1>20. \A m, r \in Made : Answers(r, m) => delivered'[r] = delivered[r] \/ ~HasEntry(m)'
  BY <1>6, <1>11, MadeIsMessage DEF Answers, XpccIInv
<1>21. \A m \in Message \ Made : delivered'[m] = delivered[m]
  BY <1>6, <1>11
<1> QED  BY <1>9, <1>10, <1>12, <1>16, <1>17, <1>18, <1>19, <1>20, <1>21, StepKeeps

LEMMA AnsweredEffect ==
  ASSUME XpccIInv, NEW b \in Boards, NEW i \in DOMAIN entries[b],
         NEW h \in Packets, NEW t \in HeaderTypes, Answered(entries[b][i], h, t)
  PROVE  /\ outcomes' \in [Message -> Seq([type : HeaderTypes, msg : Message])]
         /\ \A m \in Message :
              \/ outcomes'[m] = outcomes[m]
              \/ m = entries[b][i].header.msg /\ Len(outcomes'[m]) <= 1
<1> DEFINE n == entries[b][i].header.msg
           x == [type |-> t, msg |-> h.msg]
           S == [type : HeaderTypes, msg : Message]
<1>1. n \in Message /\ HasEntry(n)
  BY EntryFacts
<1>2. outcomes[n] = << >> /\ outcomes \in [Message -> Seq(S)]
  <2>1. PICK m \in Message : m = n
    BY <1>1
  <2>2. outcomes[m] # << >> => ~HasEntry(m)
    BY DEF XpccIInv, Answering
  <2> QED  BY <1>1, <2>1, <2>2 DEF XpccIInv, XpccTypeOK
<1>3. x \in S
  BY DEF Packets
<1> HIDE DEF S, x
<1>4. Append(<< >>, x) \in Seq(S) /\ Len(Append(<< >>, x)) = 1
  BY <1>3, EmptySeq, AppendProperties
<1>5. outcomes' = outcomes \/ outcomes' = [outcomes EXCEPT ![n] = Append(<< >>, x)]
  BY <1>1, <1>2 DEF Answered, x
<1> HIDE DEF n
<1>6. outcomes' \in [Message -> Seq(S)]
  BY <1>2, <1>4, <1>5
<1>7. \A m \in Message :
        \/ outcomes'[m] = outcomes[m]
        \/ m = n /\ Len(outcomes'[m]) <= 1
  <2>1. CASE outcomes' = outcomes
    BY <2>1
  <2>2. CASE outcomes' = [outcomes EXCEPT ![n] = Append(<< >>, x)]
    <3>1. \A m \in Message :
            outcomes'[m] = IF m = n THEN Append(<< >>, x) ELSE outcomes[m]
      BY <1>2, <2>2
    <3>2. Len(Append(<< >>, x)) <= 1
      BY <1>4
    <3> QED  BY <3>1, <3>2
  <2> QED  BY <1>5, <2>1, <2>2
<1> QED  BY <1>6, <1>7 DEF n, S

(* What handlePacket() makes of the entries and the callbacks.              *)
LEMMA HandleEffect ==
  ASSUME XpccIInv, UNCHANGED log, NEW b \in Boards, NEW p \in Packets,
         GenuinePacket(b, p), p.type = "REQUEST" => p.isAcknowledge,
         \/ HandlePacket(b, p)
         \/ Fitting(b, p) = 0 /\ UNCHANGED << entries, acked, outcomes >>
  PROVE  /\ KeptEntries
         /\ outcomes' \in [Message -> Seq([type : HeaderTypes, msg : Message])]
         /\ acked' \subseteq Message
         /\ \A m \in Message :
              \/ outcomes'[m] = outcomes[m]
              \/ m \in Made /\ Len(outcomes'[m]) <= 1 /\ ~HasEntry(m)'
         /\ \A m \in acked' \ acked :
              /\ m \in Made
              /\ delivered[m] > 0 \/ \E k \in Made \ {m} : SameHeader(m, k)
         /\ ~p.isAcknowledge =>
              \A m \in Made : Answers(p.msg, m) => ~HasEntry(m)'
         /\ \A c \in Boards : c # b => entries'[c] = entries[c]
<1>1. p.msg \in Made /\ p.msg \in Message /\ log[p.msg] \in Packets
  BY MadeIsMessage DEF GenuinePacket, XpccIInv
<1>2. ASSUME NEW m \in Made, Answers(p.msg, m), ~p.isAcknowledge
      PROVE  /\ p.source = log[m].destination
             /\ p.destination = log[m].source
             /\ p.packetIdentifier = log[m].packetIdentifier
             /\ \A k \in Made \ {m} : ~SameHeader(m, k)
  BY <1>2 DEF Answers, Reverses, GenuinePacket
<1>3. CASE Fitting(b, p) = 0 /\ UNCHANGED << entries, acked, outcomes >>
  <2>1. KeptEntries
    BY <1>3, EntriesSame
  <2>2. ASSUME NEW m \in Made, Answers(p.msg, m), ~p.isAcknowledge
        PROVE  ~HasEntry(m)'
    <3> SUFFICES ASSUME HasEntry(m) PROVE FALSE
      BY <2>1, HasEntryKept
    <3>1. PICK c \in Boards : \E j \in DOMAIN entries[c] : entries[c][j].header.msg = m
      BY DEF HasEntry
    <3>2. PICK j \in DOMAIN entries[c] : entries[c][j].header.msg = m
      BY <3>1
    <3>3. entries[c][j].header = log[m] /\ BoardOf[log[m].source] = c
      BY <3>2, EntryFacts
    <3>4. c = b
      BY <1>1, <1>2, <2>2, <3>3, MadeIsMessage DEF GenuinePacket, XpccIInv, Packets
    <3>5. HeaderFits(entries[b][j], p)
      BY <1>2, <2>2, <3>3, <3>4 DEF HeaderFits
    <3> QED  BY <1>3, <3>2, <3>4, <3>5, FittingFits DEF XpccIInv
  <2> QED  BY <1>3, <2>1, <2>2 DEF XpccIInv, XpccTypeOK
<1>4. CASE HandlePacket(b, p)
  <2>1. PICK i : i = Fitting(b, p)
    OBVIOUS
  <2>2. i \in DOMAIN entries[b] /\ HeaderFits(entries[b][i], p)
    BY <1>4, <2>1, FittingFits DEF HandlePacket, XpccIInv
  <2>3. PICK n : n = entries[b][i].header.msg
    OBVIOUS
  <2>4. /\ entries[b][i] \in Entries /\ n \in Made /\ n \in Message
        /\ entries[b][i].header = log[n] /\ Sent(entries[b][i]) \in 0..3
    BY <2>2, <2>3, EntryFacts
  <2>5. /\ acked' = acked \cup {n}
        /\ IF Stays(entries[b][i], p)
             THEN entries' = [entries EXCEPT ![b][i].state = "WaitForResponse"]
             ELSE RemoveEntry(b, i)
        /\ IF p.isAcknowledge THEN UNCHANGED outcomes
             ELSE Answered(entries[b][i], p, p.type)
    BY <1>4, <2>1, <2>3 DEF HandlePacket
  <2>6. acked' \subseteq Message
    BY <2>4, <2>5 DEF XpccIInv, XpccTypeOK
  <2>7. ASSUME ~Stays(entries[b][i], p)
        PROVE  KeptEntries /\ ~HasEntry(n)'
    BY <2>2, <2>3, <2>5, <2>7, EntryRemoved
  <2>8. ASSUME Stays(entries[b][i], p)
        PROVE  KeptEntries
    <3>1. PICK e : e = [entries[b][i] EXCEPT !.state = "WaitForResponse"]
      OBVIOUS
    <3>2. /\ e \in Entries /\ e.header = entries[b][i].header
          /\ e.state = "WaitForResponse"
      BY <2>4, <3>1 DEF Entries
    <3>3. Sent(e) >= Sent(entries[b][i])
      <4>1. Sent(e) = 3
        BY <3>2 DEF Sent
      <4> HIDE DEF Sent
      <4> QED  BY <2>4, <4>1
    <3>4. entries' = [entries EXCEPT ![b] = [@ EXCEPT ![i] = e]]
      BY <2>5, <2>8, <3>1
    <3> QED  BY <2>2, <3>2, <3>3, <3>4, EntryUpdated
  <2>9. ~p.isAcknowledge => ~Stays(entries[b][i], p)
    BY DEF Stays
  <2>10. /\ outcomes' \in [Message -> Seq([type : HeaderTypes, msg : Message])]
         /\ \A m \in Message :
              \/ outcomes'[m] = outcomes[m]
              \/ m \in Made /\ Len(outcomes'[m]) <= 1 /\ ~HasEntry(m)'
    <3>1. CASE p.isAcknowledge
      BY <2>5, <3>1 DEF XpccIInv, XpccTypeOK
    <3>2. CASE ~p.isAcknowledge
      <4>1. p.type \in HeaderTypes
        BY DEF Packets
      <4>2. Answered(entries[b][i], p, p.type)
        BY <2>5, <3>2
      <4> QED  BY <2>2, <2>3, <2>4, <2>7, <2>9, <3>2, <4>1, <4>2, AnsweredEffect
    <3> QED  BY <3>1, <3>2
  <2>11. delivered[n] > 0 \/ \E k \in Made \ {n} : SameHeader(n, k)
    <3>1. PICK q \in Made : delivered[q] > 0 /\ p.source = log[q].destination
                            /\ p.destination = log[q].source
                            /\ p.packetIdentifier = log[q].packetIdentifier
      <4>1. CASE p.isAcknowledge
        BY <4>1 DEF GenuinePacket, Reverses
      <4>2. CASE ~p.isAcknowledge
        <5>1. p = log[p.msg] /\ p.msg \in Made /\ p.type # "REQUEST"
          BY <4>2 DEF GenuinePacket
        <5>2. PICK q \in Made : delivered[q] > 0 /\ Reverses(log[q], log[p.msg])
          BY <5>1 DEF XpccIInv, Logged
        <5> QED  BY <5>1, <5>2 DEF Reverses
      <4> QED  BY <4>1, <4>2
    <3>2. SameHeader(n, q)
      BY <2>2, <2>4, <3>1 DEF SameHeader, HeaderFits
    <3> QED  BY <3>1, <3>2
  <2>12. ASSUME NEW m \in Made, Answers(p.msg, m), ~p.isAcknowledge
         PROVE  ~HasEntry(m)'
    <3>1. SameHeader(m, n)
      BY <1>2, <2>2, <2>4, <2>12 DEF SameHeader, HeaderFits
    <3>2. m = n
      BY <1>2, <2>4, <2>12, <3>1
    <3> QED  BY <2>7, <2>9, <2>12, <3>2
  <2>13. \A c \in Boards : c # b => entries'[c] = entries[c]
    BY <2>5 DEF RemoveEntry, XpccIInv, XpccTypeOK
  <2> QED  BY <2>4, <2>5, <2>6, <2>7, <2>8, <2>10, <2>11, <2>12, <2>13
<1> QED  BY <1>3, <1>4

LEMMA ReceiveOtherKeeps ==
  ASSUME XpccIInv, NEW b \in Boards, cursor[b] = 0, backlog[b] # << >>,
         ReceiveOther(b, Head(backlog[b])), UNCHANGED << log, cursor >>
  PROVE  XpccIInv'
<1> DEFINE box == [backlog EXCEPT ![b] = Tail(@)]
<1>1. PICK p : p = Head(backlog[b])
  OBVIOUS
<1>2. ReceiveOther(b, p)
  BY <1>1
<1>3. /\ backlog \in [Boards -> Seq(Packets)] /\ backlog[b] \in Seq(Packets)
      /\ delivered \in [Message -> Nat] /\ handles \in [Boards -> SUBSET Packets]
      /\ cursor \in [Boards -> Nat] /\ \A c \in Boards : cursor[c] <= Len(entries[c])
  BY DEF XpccIInv, XpccTypeOK
<1>4. p \in Packets /\ p = backlog[b][1] /\ 1 \in DOMAIN backlog[b]
  BY <1>1, <1>3, LenProperties, HeadTailProperties, EmptySeq
<1>5. GenuinePacket(b, p)
  BY <1>4 DEF XpccIInv, Received
<1>6. /\ p.type = "REQUEST" => p.isAcknowledge
      /\ p.msg \in Made /\ p.msg \in Message
      /\ ~p.isAcknowledge => p = log[p.msg] /\ p.type # "REQUEST"
  BY <1>2, <1>5, MadeIsMessage DEF XpccIInv, ReceiveOther, GenuinePacket
<1>7. box \in [Boards -> Seq(Packets)] /\ Shortened(box)
  <2>1. Tail(backlog[b]) \in Seq(Packets)
    BY <1>3, HeadTailProperties, EmptySeq
  <2>2. box \in [Boards -> Seq(Packets)]
    BY <1>3, <2>1
  <2>3. \A r \in Boards : box[r] = IF r = b THEN Tail(backlog[b]) ELSE backlog[r]
    BY <1>3
  <2> HIDE DEF box
  <2> QED  BY <2>2, <2>3 DEF Shortened
<1>8. PICK rest \in [Boards -> Seq(Packets)] : rest = box
  BY <1>7
<1>9. UNCHANGED << log, handles, cursor >>
  BY <1>2 DEF ReceiveOther
<1>10. \/ HandlePacket(b, p)
       \/ Fitting(b, p) = 0 /\ UNCHANGED << entries, acked, outcomes >>
  BY <1>2 DEF ReceiveOther
<1>11. /\ KeptEntries
       /\ outcomes' \in [Message -> Seq([type : HeaderTypes, msg : Message])]
       /\ acked' \subseteq Message
       /\ \A m \in Message :
            \/ outcomes'[m] = outcomes[m]
            \/ m \in Made /\ Len(outcomes'[m]) <= 1 /\ ~HasEntry(m)'
       /\ \A m \in acked' \ acked :
            /\ m \in Made
            /\ delivered[m] > 0 \/ \E k \in Made \ {m} : SameHeader(m, k)
       /\ ~p.isAcknowledge =>
            \A m \in Made : Answers(p.msg, m) => ~HasEntry(m)'
       /\ \A c \in Boards : c # b => entries'[c] = entries[c]
  BY <1>4, <1>5, <1>6, <1>9, <1>10, HandleEffect
<1>12. \/ p.isAcknowledge /\ backlog' = rest /\ delivered' = delivered
       \/ /\ ~p.isAcknowledge
          /\ delivered' = [delivered EXCEPT ![p.msg] = @ + 1]
          /\ backlog' = rest \/ SendPacket(b, AckOf(p), rest)
  BY <1>2, <1>8 DEF ReceiveOther, SendAcknowledge, AckOf
<1>13. /\ \A m \in Message : /\ delivered'[m] \in Nat /\ delivered'[m] >= delivered[m]
                             /\ m # p.msg => delivered'[m] = delivered[m]
       /\ delivered' \in [Message -> Nat]
  <2>1. CASE delivered' = delivered
    BY <1>3, <2>1
  <2>2. CASE delivered' = [delivered EXCEPT ![p.msg] = @ + 1]
    <3>1. delivered' \in [Message -> Nat]
      BY <1>3, <1>6, <2>2
    <3> QED  BY <1>3, <1>6, <2>2, <3>1
  <2> QED  BY <1>12, <2>1, <2>2
<1>14. Grows
  BY <1>9, <1>13, MadeIsMessage DEF Grows, XpccIInv, Made
<1>15. ~p.isAcknowledge => p.destination \in Components /\ delivered'[p.msg] > 0
  <2> SUFFICES ASSUME ~p.isAcknowledge
               PROVE  p.destination \in Components /\ delivered'[p.msg] > 0
    OBVIOUS
  <2>1. PICK q \in Made : Reverses(log[q], log[p.msg])
    BY <1>6 DEF XpccIInv, Logged
  <2>2. p.destination \in Components
    BY <1>6, <2>1, MadeIsMessage DEF Reverses, XpccIInv, Packets
  <2>3. delivered'[p.msg] = delivered[p.msg] + 1
    BY <1>3, <1>6, <1>12
  <2>4. delivered'[p.msg] > 0
    BY <1>3, <1>6, <2>3
  <2> QED  BY <2>2, <2>4
<1>16. PICK q : q.isAcknowledge /\ Posted(rest, q) /\ backlog' \in [Boards -> Seq(Packets)]
  <2>1. CASE ~p.isAcknowledge /\ SendPacket(b, AckOf(p), rest)
    <3>1. p.msg \in Made' /\ p = log'[p.msg]
      BY <1>6, <1>9, <2>1 DEF Made
    <3>2. PICK q : q = AckOf(p)
      OBVIOUS
    <3>3. q \in Packets /\ q.isAcknowledge /\ \A r \in Boards : GenuinePacket(r, q)'
      BY <1>4, <1>15, <2>1, <3>1, <3>2, AckGenuine
    <3>4. Receivers(b, q) \subseteq Boards
      BY <3>3, XpccAssumption DEF Receivers, Packets
    <3> QED  BY <2>1, <3>2, <3>3, <3>4, SendEffect DEF XpccIInv
  <2>2. CASE backlog' = rest
    <3>1. PICK q : q = AckOf(p)
      OBVIOUS
    <3>2. q.isAcknowledge
      BY <1>4, <3>1 DEF AckOf, Packets
    <3> QED  BY <2>2, <3>2 DEF Posted
  <2> QED  BY <1>12, <2>1, <2>2
<1>17. \A c \in Boards : cursor'[c] <= Len(entries'[c])
  <2> SUFFICES ASSUME NEW c \in Boards PROVE cursor[c] <= Len(entries'[c])
    BY <1>9
  <2>1. CASE c = b
    <3>1. Len(entries'[b]) \in Nat
      BY <1>11, LenProperties DEF KeptEntries
    <3> QED  BY <2>1, <3>1
  <2>2. CASE c # b
    BY <1>3, <1>11, <2>2
  <2> QED  BY <2>1, <2>2
<1>18. XpccTypeOK'
  <2>1. entries' \in [Boards -> Seq(Entries)]
    BY <1>11 DEF KeptEntries
  <2>2. log \in Seq(Packets) /\ Len(log) <= MaxMessages
    BY DEF XpccIInv, XpccTypeOK
  <2> QED  BY <1>3, <1>9, <1>11, <1>13, <1>16, <1>17, <2>1, <2>2 DEF XpccTypeOK
<1>19. Received'
  BY <1>7, <1>8, <1>14, <1>16, <1>18, ReceivedKept
<1>20. \A m \in Made : CountedOf(m)'
  <2>1. \/ delivered' = delivered
        \/ /\ ~p.isAcknowledge /\ p.destination \in Components
           /\ delivered' = [delivered EXCEPT ![p.msg] = @ + 1]
    BY <1>12, <1>15
  <2> HIDE DEF box
  <2>2. rest = [backlog EXCEPT ![b] = Tail(@)]
    BY <1>8 DEF box
  <2> QED  BY <1>1, <1>4, <1>5, <1>9, <1>11, <1>16, <1>18, <2>1, <2>2, ReceiveCounted
<1>21. \A m, r \in Made : Answers(r, m) => delivered'[r] = delivered[r] \/ ~HasEntry(m)'
  <2> SUFFICES ASSUME NEW m \in Made, NEW r \in Made, Answers(r, m),
                      delivered'[r] # delivered[r]
               PROVE  ~HasEntry(m)'
    OBVIOUS
  <2>1. r = p.msg /\ ~p.isAcknowledge
    BY <1>12, <1>13, MadeIsMessage DEF XpccIInv
  <2> QED  BY <1>11, <2>1
<1>22. \A m \in Message \ Made : delivered'[m] = delivered[m]
  BY <1>6, <1>13
<1>23. \A m \in acked' \ acked :
         /\ m \in Made
         /\ delivered'[m] > 0 \/ \E k \in Made \ {m} : SameHeader(m, k)
  <2> SUFFICES ASSUME NEW m \in acked' \ acked, m \in Made, delivered[m] > 0
               PROVE  delivered'[m] > 0
    BY <1>11
  <2>1. m \in Message
    BY <1>11
  <2> QED  BY <1>3, <1>13, <2>1
<1> QED  BY <1>9, <1>11, <1>14, <1>18, <1>19, <1>20, <1>21, <1>22, <1>23, StepKeeps

LEMMA UpdateOnceRxKeeps ==
  ASSUME XpccIInv, NEW b \in Boards, UpdateOnceRx(b)
  PROVE  XpccIInv'
BY ReceiveRequestKeeps, ReceiveOtherKeeps DEF UpdateOnceRx

-----------------------------------------------------------------------------
(* The pass over the entries.                                               *)
LEMMA PassTyped ==
  ASSUME XpccIInv, NEW b \in Boards, NEW i \in Nat, GoOnAt(b, i), KeptEntries,
         \A c \in Boards : c # b => entries'[c] = entries[c]
  PROVE  /\ entries' \in [Boards -> Seq(Entries)]
         /\ cursor' \in [Boards -> Nat]
         /\ \A c \in Boards : cursor'[c] <= Len(entries'[c])
<1>1. /\ entries' \in [Boards -> Seq(Entries)] /\ cursor \in [Boards -> Nat]
      /\ \A c \in Boards : cursor[c] <= Len(entries[c])
  BY DEF KeptEntries, XpccIInv, XpccTypeOK
<1>2. /\ Len(entries'[b]) \in Nat /\ DOMAIN entries'[b] = 1..Len(entries'[b])
  BY <1>1, LenProperties
<1>3. PICK k \in Nat : k <= Len(entries'[b]) /\ cursor' = [cursor EXCEPT ![b] = k]
  <2>1. CASE \E j \in DOMAIN entries'[b] :
               j >= i /\ entries'[b][j].state = "TransmissionPending"
    <3>1. i <= Len(entries'[b])
      BY <1>2, <2>1
    <3> QED  BY <2>1, <3>1 DEF GoOnAt
  <2>2. CASE ~\E j \in DOMAIN entries'[b] :
               j >= i /\ entries'[b][j].state = "TransmissionPending"
    <3>1. cursor' = [cursor EXCEPT ![b] = 0]
      BY <2>2 DEF GoOnAt
    <3>2. 0 \in Nat /\ 0 <= Len(entries'[b])
      BY <1>2
    <3> QED  BY <3>1, <3>2
  <2> QED  BY <2>1, <2>2
<1>4. cursor' \in [Boards -> Nat]
  BY <1>1, <1>3
<1>5. \A c \in Boards : cursor'[c] <= Len(entries'[c])
  BY <1>1, <1>3
<1> QED  BY <1>1, <1>4, <1>5

(* A packet that is sent is genuine where it is received.                   *)
LEMMA HeaderGenuine ==
  ASSUME XpccIInv, UNCHANGED log, NEW b \in Boards, NEW i \in DOMAIN entries[b],
         NEW q, q = entries[b][i].header
  PROVE  /\ q \in Packets /\ q.msg \in Made /\ q = log[q.msg] /\ ~q.isAcknowledge
         /\ \A r \in Receivers(b, q) : GenuinePacket(r, q)'
<1>1. q \in Packets /\ q.msg \in Made /\ q = log[q.msg]
  BY EntryFacts
<1>2. ~q.isAcknowledge
  BY <1>1 DEF XpccIInv, Logged
<1>3. ASSUME NEW r \in Receivers(b, q)
      PROVE  GenuinePacket(r, q)'
  <2>1. q.destination \in Components => BoardOf[q.destination] = r
    BY <1>1, <1>3, XpccAssumption DEF Receivers, Packets
  <2> QED  BY <1>1, <1>2, <2>1 DEF GenuinePacket, Made
<1> QED  BY <1>1, <1>2, <1>3

LEMMA SendCounted ==
  ASSUME XpccIInv, XpccTypeOK', UNCHANGED << log, delivered >>,
         NEW q \in Packets, NEW box, box = backlog, Posted(box, q), NEW m \in Made,
         log[m].destination # Everyone
  PROVE  Total(m)' <= Total(m) + IF q.msg = m THEN 1 ELSE 0
<1> DEFINE D == BoardOf[log[m].destination]
<1>1. /\ D \in Boards /\ backlog[D] \in Seq(Packets) /\ delivered[m] \in Nat
      /\ Total(m)' = delivered[m] + Cardinality(Copies(backlog'[D], m))
      /\ Total(m) = delivered[m] + Cardinality(Copies(backlog[D], m))
  BY TotalTyped, TotalTypedThen DEF XpccIInv, Total
<1> HIDE DEF D
<1>2. /\ IsFiniteSet(Copies(backlog[D], m))
      /\ Cardinality(Copies(backlog[D], m)) \in Nat
  BY <1>1, CopiesFinite
<1>3. CASE backlog'[D] = backlog[D]
  <2> HIDE DEF Total
  <2> QED  BY <1>1, <1>2, <1>3
<1>4. CASE backlog'[D] = Append(backlog[D], q)
  <2>1. Copies(backlog'[D], m) =
          IF q.msg = m /\ ~q.isAcknowledge
            THEN Copies(backlog[D], m) \cup {Len(backlog[D]) + 1}
            ELSE Copies(backlog[D], m)
    <3>1. Copies(Append(backlog[D], q), m) =
            IF q.msg = m /\ ~q.isAcknowledge
              THEN Copies(backlog[D], m) \cup {Len(backlog[D]) + 1}
              ELSE Copies(backlog[D], m)
      BY <1>1, CopiesAppend
    <3> QED  BY <1>4, <3>1
  <2>2. Cardinality(Copies(backlog[D], m) \cup {Len(backlog[D]) + 1}) \in
          {Cardinality(Copies(backlog[D], m)), Cardinality(Copies(backlog[D], m)) + 1}
    BY <1>2, FS_AddElement
  <2> HIDE DEF Total
  <2> QED  BY <1>1, <1>2, <2>1, <2>2
<1> QED  BY <1>1, <1>3, <1>4 DEF Posted

LEMMA PublishEventKeeps ==
  ASSUME XpccIInv, NEW b \in Boards, NEW i \in Nat, PublishEvent(b, i)
  PROVE  XpccIInv'
<1>1. /\ i \in DOMAIN entries[b] /\ entries[b][i].header.destination = Everyone
      /\ SendPacket(b, entries[b][i].header, backlog) /\ RemoveEntry(b, i)
      /\ GoOnAt(b, i) /\ UNCHANGED << log, handles, delivered, acked, outcomes >>
  BY EntryTyped DEF PublishEvent, LooksAt, Pass, XpccIInv
<1>2. KeptEntries
  BY <1>1, EntryRemoved
<1>3. \A c \in Boards : c # b => entries'[c] = entries[c]
  BY <1>1 DEF RemoveEntry, XpccIInv, XpccTypeOK
<1>4. PICK q : q = entries[b][i].header
  OBVIOUS
<1>5. /\ q \in Packets /\ q.msg \in Made /\ q = log[q.msg]
      /\ q.destination = Everyone
      /\ \A r \in Receivers(b, q) : GenuinePacket(r, q)'
  BY <1>1, <1>4, HeaderGenuine
<1>6. PICK box \in [Boards -> Seq(Packets)] : box = backlog
  BY DEF XpccIInv, XpccTypeOK
<1>7. Posted(box, q) /\ backlog' \in [Boards -> Seq(Packets)]
  BY <1>1, <1>4, <1>5, <1>6, SendEffect DEF XpccIInv
<1>8. XpccTypeOK'
  <2>1. /\ entries' \in [Boards -> Seq(Entries)] /\ cursor' \in [Boards -> Nat]
        /\ \A c \in Boards : cursor'[c] <= Len(entries'[c])
    BY <1>1, <1>2, <1>3, PassTyped
  <2> QED  BY <1>1, <1>7, <2>1 DEF XpccIInv, XpccTypeOK
<1>9. Grows
  BY <1>1, GrowsSame DEF XpccIInv
<1>10. Received'
  BY <1>6, <1>7, <1>8, <1>9, ReceivedKept DEF Shortened
<1>11. ASSUME NEW m \in Made
       PROVE  CountedOf(m)'
  <2>1. ASSUME log[m].destination # Everyone
        PROVE  Total(m)' <= Total(m)
    <3>1. q.msg # m
      BY <1>5, <2>1
    <3>2. Total(m)' <= Total(m) + IF q.msg = m THEN 1 ELSE 0
      BY <1>1, <1>5, <1>6, <1>7, <1>8, <2>1, SendCounted
    <3>3. Total(m) \in Nat
      BY <2>1, TotalTyped DEF XpccIInv
    <3> HIDE DEF Total
    <3> QED  BY <3>1, <3>2, <3>3
  <2> HIDE DEF Total
  <2> QED  BY <1>1, <1>2, <1>8, <2>1, CountedKept
<1> QED  BY <1>1, <1>2, <1>8, <1>9, <1>10, <1>11, StepKeeps

(* A transmission, the first or another one.                                *)
LEMMA TransmissionKeeps ==
  ASSUME XpccIInv, NEW b \in Boards, NEW i \in DOMAIN entries[b],
         NEW e \in Entries, e.header = entries[b][i].header,
         e.state # "TransmissionPending", Sent(e) = Sent(entries[b][i]) + 1,
         SendPacket(b, entries[b][i].header, backlog),
         entries' = [entries EXCEPT ![b] = [@ EXCEPT ![i] = e]],
         NEW j \in Nat, GoOnAt(b, j),
         UNCHANGED << log, handles, delivered, acked, outcomes >>
  PROVE  XpccIInv'
<1>1. Sent(entries[b][i]) \in 0..3 /\ Sent(e) \in 0..3
  BY EntryFacts DEF Sent, Entries
<1>2. /\ KeptEntries
      /\ \A c \in Boards : \A k \in DOMAIN entries'[c] :
           entries'[c][k].header.msg = e.header.msg => entries'[c][k] = e
  <2>1. Sent(e) >= Sent(entries[b][i])
    BY <1>1
  <2> QED  BY <2>1, EntryUpdated
<1>3. \A c \in Boards : c # b => entries'[c] = entries[c]
  BY DEF XpccIInv, XpccTypeOK
<1>4. PICK q : q = entries[b][i].header
  OBVIOUS
<1>5. /\ q \in Packets /\ q.msg \in Made /\ q = log[q.msg]
      /\ \A r \in Receivers(b, q) : GenuinePacket(r, q)'
  BY <1>4, HeaderGenuine
<1>6. PICK box \in [Boards -> Seq(Packets)] : box = backlog
  BY DEF XpccIInv, XpccTypeOK
<1>7. Posted(box, q) /\ backlog' \in [Boards -> Seq(Packets)]
  BY <1>4, <1>5, <1>6, SendEffect DEF XpccIInv
<1>8. XpccTypeOK'
  <2>1. /\ entries' \in [Boards -> Seq(Entries)] /\ cursor' \in [Boards -> Nat]
        /\ \A c \in Boards : cursor'[c] <= Len(entries'[c])
    BY <1>2, <1>3, PassTyped
  <2> QED  BY <1>7, <2>1 DEF XpccIInv, XpccTypeOK
<1>9. Grows
  BY GrowsSame DEF XpccIInv
<1>10. Received'
  BY <1>6, <1>7, <1>8, <1>9, ReceivedKept DEF Shortened
<1>11. ASSUME NEW m \in Made
       PROVE  CountedOf(m)'
  <2>1. CASE log[m].destination = Everyone
    BY <1>2, <1>8, <2>1, CountedKept
  <2>2. CASE log[m].destination # Everyone
    <3>1. Total(m)' <= Total(m) + IF q.msg = m THEN 1 ELSE 0
      BY <1>5, <1>6, <1>7, <1>8, <2>2, SendCounted
    <3>2. Total(m) \in Nat /\ Total(m)' \in Nat
      BY <1>8, <2>2, TotalTyped, TotalTypedThen DEF XpccIInv
    <3>3. CASE q.msg = m
      <4>1. Total(m) <= Sent(entries[b][i])
        BY <1>4, <2>2, <3>3 DEF XpccIInv, Counted, CountedOf
      <4>2. ASSUME NEW c \in Boards, NEW k \in DOMAIN entries'[c],
                   entries'[c][k].header.msg = m
            PROVE  entries'[c][k] = e
        BY <1>2, <1>4, <3>3, <4>2
      <4>3. Total(m)' <= Sent(e) /\ Total(m)' <= 3
        <5> HIDE DEF Total, Sent
        <5> QED  BY <1>1, <3>1, <3>2, <3>3, <4>1
      <4> QED  BY <2>2, <4>2, <4>3 DEF CountedOf, Sent
    <3>4. CASE q.msg # m
      <4>1. Total(m)' <= Total(m)
        <5> HIDE DEF Total
        <5> QED  BY <3>1, <3>2, <3>4
      <4> QED  BY <1>2, <1>8, <2>2, <4>1, CountedKept
    <3> QED  BY <3>3, <3>4
  <2> QED  BY <2>1, <2>2
<1> QED  BY <1>2, <1>8, <1>9, <1>10, <1>11, StepKeeps

LEMMA TransmitKeeps ==
  ASSUME XpccIInv, NEW b \in Boards, NEW i \in Nat, Transmit(b, i)
  PROVE  XpccIInv'
<1>1. /\ i \in DOMAIN entries[b] /\ entries[b][i].state = "TransmissionPending"
      /\ SendPacket(b, entries[b][i].header, backlog) /\ GoOnAt(b, i + 1)
      /\ entries' = [entries EXCEPT ![b][i].state = "WaitForACK"]
      /\ UNCHANGED << log, handles, delivered, acked, outcomes >>
  BY EntryTyped DEF Transmit, LooksAt, Pass, XpccIInv
<1>2. PICK e : e = [entries[b][i] EXCEPT !.state = "WaitForACK"]
  OBVIOUS
<1>3. entries[b][i] \in Entries /\ EntryOf(b, entries[b][i])
  BY <1>1, EntryFacts DEF XpccIInv, Entered
<1>4. /\ e \in Entries /\ e.header = entries[b][i].header
      /\ e.state = "WaitForACK" /\ e.tries = 0
  BY <1>1, <1>2, <1>3 DEF Entries, EntryOf
<1>5. Sent(e) = Sent(entries[b][i]) + 1
  BY <1>1, <1>4 DEF Sent
<1>6. entries' = [entries EXCEPT ![b] = [@ EXCEPT ![i] = e]]
  BY <1>1, <1>2
<1>7. i + 1 \in Nat
  OBVIOUS
<1>8. e.state # "TransmissionPending"
  BY <1>4
<1> HIDE DEF Sent
<1> QED  BY <1>1, <1>4, <1>5, <1>6, <1>7, <1>8, TransmissionKeeps

LEMMA RetransmitKeeps ==
  ASSUME XpccIInv, NEW b \in Boards, NEW i \in Nat, Retransmit(b, i)
  PROVE  XpccIInv'
<1>1. /\ i \in DOMAIN entries[b] /\ entries[b][i].state = "WaitForACK"
      /\ ~(entries[b][i].tries >= 2)
      /\ SendPacket(b, entries[b][i].header, backlog) /\ GoOnAt(b, i + 1)
      /\ entries' = [entries EXCEPT ![b][i].tries = @ + 1]
      /\ UNCHANGED << log, handles, delivered, acked, outcomes >>
  BY EntryTyped DEF Retransmit, LooksAt, Pass, XpccIInv, TriesUsed
<1>2. PICK e : e = [entries[b][i] EXCEPT !.tries = @ + 1]
  OBVIOUS
<1>3. entries[b][i] \in Entries
  BY <1>1, EntryFacts
<1>4. /\ e \in Entries /\ e.header = entries[b][i].header
      /\ e.state = "WaitForACK" /\ e.tries = entries[b][i].tries + 1
  BY <1>1, <1>2, <1>3 DEF Entries
<1>5. Sent(e) = Sent(entries[b][i]) + 1
  BY <1>1, <1>3, <1>4 DEF Sent, Entries
<1>6. entries' = [entries EXCEPT ![b] = [@ EXCEPT ![i] = e]]
  BY <1>1, <1>2
<1>7. i + 1 \in Nat
  OBVIOUS
<1>8. e.state # "TransmissionPending"
  BY <1>4
<1> HIDE DEF Sent
<1> QED  BY <1>1, <1>4, <1>5, <1>6, <1>7, <1>8, TransmissionKeeps

(* A message that is delivered on its own board has not been transmitted.   *)
LEMMA DeliveryCounted ==
  ASSUME XpccIInv, XpccTypeOK', KeptEntries, UNCHANGED << log, backlog >>,
         NEW b \in Boards, NEW i \in DOMAIN entries[b],
         entries[b][i].state = "TransmissionPending",
         NEW n, n = entries[b][i].header.msg, log[n].destination # Everyone,
         \A k \in Message :
           \/ delivered'[k] = delivered[k]
           \/ k = n /\ delivered'[k] = delivered[k] + 1,
         \A c \in Boards : \A k \in DOMAIN entries'[c] :
           entries'[c][k].header.msg = n => Sent(entries'[c][k]) = 3,
         NEW m \in Made
  PROVE  CountedOf(m)'
<1>1. n \in Made /\ n \in Message /\ m \in Message
  BY EntryFacts, MadeIsMessage DEF XpccIInv
<1>2. delivered \in [Message -> Nat]
  BY DEF XpccIInv, XpccTypeOK
<1>3. /\ delivered[m] \in Nat /\ delivered'[m] \in delivered[m]..(delivered[m] + 1)
      /\ m # n => delivered'[m] = delivered[m]
  <2>1. delivered[m] \in Nat
    BY <1>1, <1>2
  <2>2. \/ delivered'[m] = delivered[m]
        \/ m = n /\ delivered'[m] = delivered[m] + 1
    BY <1>1
  <2> QED  BY <2>1, <2>2
<1>4. ASSUME log[m].destination # Everyone
      PROVE  /\ Total(m) \in Nat /\ Total(m)' \in Nat
             /\ Total(m)' <= Total(m) + 1
             /\ m # n => Total(m)' <= Total(m)
  <2> DEFINE C == Cardinality(Copies(backlog[BoardOf[log[m].destination]], m))
  <2>1. backlog[BoardOf[log[m].destination]] \in Seq(Packets)
    BY <1>4, TotalTyped DEF XpccIInv
  <2>2. C \in Nat
    BY <2>1, CopiesFinite
  <2>3. Total(m)' = delivered'[m] + C
    BY <1>4, TotalTypedThen
  <2>4. Total(m) = delivered[m] + C
    BY DEF Total
  <2> HIDE DEF C, Total
  <2> QED  BY <1>3, <2>2, <2>3, <2>4
<1>5. CASE m # n
  <2>1. log[m].destination # Everyone => Total(m)' <= Total(m)
    BY <1>4, <1>5
  <2> HIDE DEF Total
  <2> QED  BY <1>3, <1>5, <2>1, CountedKept
<1>6. CASE m = n
  <2>1. Total(m) <= Sent(entries[b][i])
    BY <1>6 DEF XpccIInv, Counted, CountedOf
  <2>2. Sent(entries[b][i]) = 0
    BY DEF Sent
  <2>3. Total(m)' <= 3
    <3> HIDE DEF Total, Sent
    <3> QED  BY <1>4, <1>6, <2>1, <2>2
  <2>4. \A c \in Boards : \A k \in DOMAIN entries'[c] :
          entries'[c][k].header.msg = m => Total(m)' <= Sent(entries'[c][k])
    <3> HIDE DEF Total, Sent
    <3> QED  BY <1>6, <2>3
  <2> QED  BY <1>6, <2>3, <2>4 DEF CountedOf, Sent
<1> QED  BY <1>5, <1>6

(* Deliver once more, or not.                                               *)
LEMMA DeliveredGrows ==
  ASSUME XpccIInv, UNCHANGED log, NEW n \in Made,
         \/ delivered' = delivered
         \/ delivered' = [delivered EXCEPT ![n] = @ + 1]
  PROVE  /\ Grows /\ delivered' \in [Message -> Nat]
         /\ \A m \in Message : \/ delivered'[m] = delivered[m]
                               \/ m = n /\ delivered'[m] = delivered[m] + 1
         /\ \A m \in Message \ Made : delivered'[m] = delivered[m]
         /\ delivered' = [delivered EXCEPT ![n] = @ + 1] => delivered'[n] > 0
<1>1. n \in Message /\ delivered \in [Message -> Nat] /\ Made \subseteq Message
  BY MadeIsMessage DEF XpccIInv, XpccTypeOK
<1>2. /\ \A m \in Message : m # n => delivered'[m] = delivered[m]
      /\ delivered' = [delivered EXCEPT ![n] = @ + 1] =>
           delivered'[n] = delivered[n] + 1
      /\ delivered'[n] \in {delivered[n], delivered[n] + 1}
      /\ delivered[n] \in Nat
  BY <1>1
<1>3. delivered' \in [Message -> Nat]
  BY <1>1
<1>4. \A m \in Made : delivered'[m] >= delivered[m]
  BY <1>1, <1>2
<1>5. Grows
  BY <1>4 DEF Grows, Made
<1> QED  BY <1>1, <1>2, <1>3, <1>5

LEMMA BacklogSame ==
  ASSUME XpccIInv, XpccTypeOK', Grows, UNCHANGED backlog
  PROVE  Received'
<1> SUFFICES ASSUME NEW r \in Boards, NEW k \in DOMAIN backlog[r],
                    NEW p, p = backlog[r][k]
             PROVE  GenuinePacket(r, p)'
  BY DEF Received
<1>1. GenuinePacket(r, p)
  BY DEF XpccIInv, Received
<1> QED  BY <1>1, PacketKept DEF XpccIInv

LEMMA InnerRequestKeeps ==
  ASSUME XpccIInv, NEW b \in Boards, NEW i \in Nat, InnerRequest(b, i)
  PROVE  XpccIInv'
<1>1. PICK h : h = entries[b][i].header
  OBVIOUS
<1>2. /\ i \in DOMAIN entries[b] /\ entries[b][i].state = "TransmissionPending"
      /\ h.type = "REQUEST" /\ h.destination \in Components
      /\ BoardOf[h.destination] = b /\ DeliverRequest(b, h)
      /\ IF entries[b][i].type = "Callback"
           THEN entries' = [entries EXCEPT ![b][i].state = "WaitForResponse"]
           ELSE RemoveEntry(b, i)
      /\ GoOnAt(b, i)
      /\ UNCHANGED << log, backlog, acked, outcomes >>
  BY <1>1, EntryTyped DEF InnerRequest, LooksAt, Pass, XpccIInv, IsComponentAvailable
<1>3. /\ entries[b][i] \in Entries /\ h \in Packets /\ h.msg \in Made
      /\ h = log[h.msg] /\ h.msg \in Message
  BY <1>1, <1>2, EntryFacts
<1>4. /\ KeptEntries
      /\ \A c \in Boards : \A k \in DOMAIN entries'[c] :
           entries'[c][k].header.msg = h.msg => Sent(entries'[c][k]) = 3
  <2>1. CASE entries[b][i].type = "Callback"
    <3>1. PICK e : e = [entries[b][i] EXCEPT !.state = "WaitForResponse"]
      OBVIOUS
    <3>2. /\ e \in Entries /\ e.header = entries[b][i].header
          /\ e.state = "WaitForResponse" /\ e.state # "TransmissionPending"
      BY <1>3, <3>1 DEF Entries
    <3>3. Sent(e) = 3 /\ Sent(entries[b][i]) = 0
      BY <1>2, <3>2 DEF Sent
    <3>4. entries' = [entries EXCEPT ![b] = [@ EXCEPT ![i] = e]]
      BY <1>2, <2>1, <3>1
    <3>5. Sent(e) >= Sent(entries[b][i]) /\ UNCHANGED log /\ i \in DOMAIN entries[b]
      BY <1>2, <3>3
    <3>6. /\ KeptEntries
          /\ \A c \in Boards : \A k \in DOMAIN entries'[c] :
               entries'[c][k].header.msg = e.header.msg => entries'[c][k] = e
      BY <3>2, <3>4, <3>5, EntryUpdated
    <3> QED  BY <1>1, <3>2, <3>3, <3>6
  <2>2. CASE entries[b][i].type # "Callback"
    <3>1. KeptEntries /\ ~HasEntry(h.msg)'
      BY <1>1, <1>2, <2>2, EntryRemoved
    <3> QED  BY <3>1 DEF HasEntry
  <2> QED  BY <2>1, <2>2
<1>5. \A c \in Boards : c # b => entries'[c] = entries[c]
  BY <1>2 DEF RemoveEntry, XpccIInv, XpccTypeOK
<1>6. \/ delivered' = delivered /\ handles' = handles
      \/ /\ delivered' = [delivered EXCEPT ![h.msg] = @ + 1]
         /\ handles' = [handles EXCEPT ![b] = @ \cup {h}]
  BY <1>2 DEF DeliverRequest
<1>7. /\ Grows /\ delivered' \in [Message -> Nat]
      /\ \A m \in Message : \/ delivered'[m] = delivered[m]
                            \/ m = h.msg /\ delivered'[m] = delivered[m] + 1
      /\ \A m \in Message \ Made : delivered'[m] = delivered[m]
      /\ delivered' = [delivered EXCEPT ![h.msg] = @ + 1] => delivered'[h.msg] > 0
  BY <1>2, <1>3, <1>6, DeliveredGrows
<1>8. handles \in [Boards -> SUBSET Packets] /\ handles' \in [Boards -> SUBSET Packets]
  <2>1. handles \in [Boards -> SUBSET Packets]
    BY DEF XpccIInv, XpccTypeOK
  <2> QED  BY <1>3, <1>6, <2>1
<1>9. XpccTypeOK'
  <2>1. /\ entries' \in [Boards -> Seq(Entries)] /\ cursor' \in [Boards -> Nat]
        /\ \A c \in Boards : cursor'[c] <= Len(entries'[c])
    BY <1>2, <1>4, <1>5, PassTyped
  <2> QED  BY <1>2, <1>7, <1>8, <2>1 DEF XpccIInv, XpccTypeOK
<1>10. Received'
  BY <1>2, <1>7, <1>9, BacklogSame
<1>11. \A m \in Made : CountedOf(m)'
  <2>1. log[h.msg].destination # Everyone
    BY <1>2, <1>3, XpccAssumption
  <2>2. PICK n : n = h.msg
    OBVIOUS
  <2> HIDE DEF Sent
  <2> QED  BY <1>1, <1>2, <1>4, <1>7, <1>9, <2>1, <2>2, DeliveryCounted
<1>12. ASSUME NEW c \in Boards, NEW g \in handles'[c]
       PROVE  g \in handles[c] \/ HandleOf(c, g)'
  <2>1. CASE g \notin handles[c]
    <3>1. /\ c = b /\ g = h
          /\ delivered' = [delivered EXCEPT ![h.msg] = @ + 1]
      BY <1>6, <1>8, <1>12, <2>1
    <3> QED  BY <1>2, <1>3, <1>7, <3>1 DEF HandleOf, Made
  <2> QED  BY <2>1
<1>13. \A m, r \in Made : Answers(r, m) => delivered'[r] = delivered[r] \/ ~HasEntry(m)'
  BY <1>2, <1>3, <1>7, MadeIsMessage DEF Answers, XpccIInv
<1> QED  BY <1>2, <1>4, <1>7, <1>9, <1>10, <1>11, <1>12, <1>13, StepKeeps

LEMMA TimeOutKeeps ==
  ASSUME XpccIInv, NEW b \in Boards, NEW i \in Nat, TimeOut(b, i)
  PROVE  XpccIInv'
<1>1. /\ i \in DOMAIN entries[b] /\ RemoveEntry(b, i) /\ GoOnAt(b, i)
      /\ Answered(entries[b][i], entries[b][i].header, "TIMEOUT")
      /\ UNCHANGED << log, backlog, handles, delivered, acked >>
  BY EntryTyped DEF TimeOut, LooksAt, Pass, XpccIInv
<1>2. PICK n : n = entries[b][i].header.msg
  OBVIOUS
<1>3. KeptEntries /\ ~HasEntry(n)' /\ n \in Made /\ n \in Message
  BY <1>1, <1>2, EntryRemoved, EntryFacts
<1>4. \A c \in Boards : c # b => entries'[c] = entries[c]
  BY <1>1 DEF RemoveEntry, XpccIInv, XpccTypeOK
<1>5. /\ outcomes' \in [Message -> Seq([type : HeaderTypes, msg : Message])]
      /\ \A m \in Message :
           \/ outcomes'[m] = outcomes[m]
           \/ m = n /\ Len(outcomes'[m]) <= 1
  <2>1. "TIMEOUT" \in HeaderTypes /\ entries[b][i].header \in Packets
    BY <1>1, EntryFacts DEF HeaderTypes
  <2> QED  BY <1>1, <1>2, <2>1, AnsweredEffect
<1>6. XpccTypeOK'
  <2>1. /\ entries' \in [Boards -> Seq(Entries)] /\ cursor' \in [Boards -> Nat]
        /\ \A c \in Boards : cursor'[c] <= Len(entries'[c])
    BY <1>1, <1>3, <1>4, PassTyped
  <2> QED  BY <1>1, <1>5, <2>1 DEF XpccIInv, XpccTypeOK
<1>7. Grows
  BY <1>1, GrowsSame DEF XpccIInv
<1>8. Received'
  BY <1>1, <1>6, <1>7, BacklogSame
<1>9. ASSUME NEW m \in Made
      PROVE  CountedOf(m)'
  <2>1. log[m].destination # Everyone => Total(m)' <= Total(m)
    <3> SUFFICES ASSUME log[m].destination # Everyone PROVE Total(m)' <= Total(m)
      OBVIOUS
    <3>1. Total(m)' = delivered'[m] +
            Cardinality(Copies(backlog'[BoardOf[log[m].destination]], m))
      BY <1>1, <1>6, TotalTypedThen
    <3>2. Total(m) = delivered[m] +
            Cardinality(Copies(backlog[BoardOf[log[m].destination]], m))
      BY DEF Total
    <3>3. Total(m) \in Nat
      BY TotalTyped DEF XpccIInv
    <3> HIDE DEF Total
    <3> QED  BY <1>1, <3>1, <3>2, <3>3
  <2> HIDE DEF Total
  <2> QED  BY <1>1, <1>3, <1>6, <2>1, CountedKept
<1> QED  BY <1>1, <1>3, <1>5, <1>6, <1>7, <1>8, <1>9, StepKeeps

LEMMA InnerResponseKeeps ==
  ASSUME XpccIInv, NEW b \in Boards, NEW i \in Nat, InnerResponse(b, i)
  PROVE  XpccIInv'
<1>1. PICK h : h = entries[b][i].header
  OBVIOUS
<1>2. /\ i \in DOMAIN entries[b] /\ entries[b][i].state = "TransmissionPending"
      /\ h.type # "REQUEST" /\ h.destination \in Components
      /\ BoardOf[h.destination] = b
      /\ delivered' = [delivered EXCEPT ![h.msg] = @ + 1]
      /\ GoOnAt(b, i)
      /\ UNCHANGED << log, backlog, handles, acked >>
  BY <1>1, EntryTyped DEF InnerResponse, LooksAt, Pass, XpccIInv, IsComponentAvailable
<1>3. /\ entries[b][i] \in Entries /\ h \in Packets /\ h.msg \in Made
      /\ h = log[h.msg] /\ h.msg \in Message /\ h.type = "RESPONSE"
  BY <1>1, <1>2, EntryFacts DEF XpccIInv, Logged
<1>4. IF AnsweredBy(b, i) = {}
        THEN RemoveEntry(b, i) /\ UNCHANGED outcomes
        ELSE LET j == Min(AnsweredBy(b, i))
             IN  /\ entries' =
                      [entries EXCEPT ![b] = RemoveAt(RemoveAt(@, j), i)]
                 /\ Answered(entries[b][j], h, h.type)
  BY <1>1 DEF InnerResponse
<1>5. AnsweredBy(b, i) # {} =>
        \E j \in AnsweredBy(b, i) :
          /\ entries' = [entries EXCEPT ![b] = RemoveAt(RemoveAt(@, j), i)]
          /\ Answered(entries[b][j], h, h.type)
  <2>1. AnsweredBy(b, i) \subseteq Nat
    BY EntryTyped DEF AnsweredBy, XpccIInv
  <2> QED  BY <1>4, <2>1, MinInSet
<1>6. ASSUME NEW j \in AnsweredBy(b, i)
      PROVE  /\ j \in DOMAIN entries[b] /\ i < j
             /\ HeaderFits(entries[b][j], h)
             /\ entries[b][j].header.msg \in Made
             /\ entries[b][j].header.msg \in Message
             /\ entries[b][j].header = log[entries[b][j].header.msg]
  <2>1. j \in DOMAIN entries[b] /\ j \in Nat /\ i < j /\ HeaderFits(entries[b][j], h)
    BY <1>1, <1>6, EntryTyped DEF AnsweredBy, XpccIInv
  <2> QED  BY <2>1, EntryFacts
<1>7. /\ KeptEntries
      /\ outcomes' \in [Message -> Seq([type : HeaderTypes, msg : Message])]
      /\ \A m \in Message :
           \/ outcomes'[m] = outcomes[m]
           \/ m \in Made /\ Len(outcomes'[m]) <= 1 /\ ~HasEntry(m)'
      /\ AnsweredBy(b, i) # {} =>
           \E n \in Made : /\ Reverses(log[n], h) /\ ~HasEntry(n)'
      /\ \A c \in Boards : c # b => entries'[c] = entries[c]
  <2>1. CASE AnsweredBy(b, i) = {}
    <3>1. RemoveEntry(b, i) /\ UNCHANGED outcomes
      BY <1>4, <2>1
    <3>2. KeptEntries
      BY <1>2, <3>1, EntryRemoved
    <3>3. \A c \in Boards : c # b => entries'[c] = entries[c]
      BY <3>1 DEF RemoveEntry, XpccIInv, XpccTypeOK
    <3> QED  BY <2>1, <3>1, <3>2, <3>3 DEF XpccIInv, XpccTypeOK
  <2>2. CASE AnsweredBy(b, i) # {}
    <3>1. PICK j \in AnsweredBy(b, i) :
            /\ entries' = [entries EXCEPT ![b] = RemoveAt(RemoveAt(@, j), i)]
            /\ Answered(entries[b][j], h, h.type)
      BY <1>5, <2>2
    <3>2. PICK n : n = entries[b][j].header.msg
      OBVIOUS
    <3>3. KeptEntries /\ ~HasEntry(n)'
      BY <1>2, <1>6, <3>1, <3>2, PairRemoved
    <3>4. h.type \in HeaderTypes
      BY <1>3 DEF HeaderTypes
    <3>5. /\ outcomes' \in [Message -> Seq([type : HeaderTypes, msg : Message])]
          /\ \A m \in Message :
               \/ outcomes'[m] = outcomes[m]
               \/ m = n /\ Len(outcomes'[m]) <= 1
      BY <1>3, <1>6, <3>1, <3>2, <3>4, AnsweredEffect
    <3>6. Reverses(log[n], h) /\ n \in Made
      BY <1>6, <3>2 DEF HeaderFits, Reverses
    <3>7. \A c \in Boards : c # b => entries'[c] = entries[c]
      BY <3>1 DEF XpccIInv, XpccTypeOK
    <3> QED  BY <3>3, <3>5, <3>6, <3>7
  <2> QED  BY <2>1, <2>2
<1>8. /\ Grows /\ delivered' \in [Message -> Nat]
      /\ \A m \in Message : \/ delivered'[m] = delivered[m]
                            \/ m = h.msg /\ delivered'[m] = delivered[m] + 1
      /\ \A m \in Message \ Made : delivered'[m] = delivered[m]
  BY <1>2, <1>3, DeliveredGrows
<1>9. XpccTypeOK'
  <2>1. /\ entries' \in [Boards -> Seq(Entries)] /\ cursor' \in [Boards -> Nat]
        /\ \A c \in Boards : cursor'[c] <= Len(entries'[c])
    BY <1>2, <1>7, PassTyped
  <2> QED  BY <1>2, <1>7, <1>8, <2>1 DEF XpccIInv, XpccTypeOK
<1>10. Received'
  BY <1>2, <1>8, <1>9, BacklogSame
<1>11. ~HasEntry(h.msg)'
  <2>1. PICK n : n = h.msg
    OBVIOUS
  <2>2. ~HasEntry(n)'
    <3>1. CASE AnsweredBy(b, i) = {}
      BY <1>1, <1>2, <1>4, <2>1, <3>1, EntryRemoved
    <3>2. CASE AnsweredBy(b, i) # {}
      <4>1. PICK j \in AnsweredBy(b, i) :
              entries' = [entries EXCEPT ![b] = RemoveAt(RemoveAt(@, j), i)]
        BY <1>5, <3>2
      <4> QED  BY <1>1, <1>2, <1>6, <2>1, <4>1, PairRemoved
    <3> QED  BY <3>1, <3>2
  <2> QED  BY <2>1, <2>2
<1>12. \A m \in Made : CountedOf(m)'
  <2>1. log[h.msg].destination # Everyone
    BY <1>2, <1>3, XpccAssumption
  <2>2. PICK n : n = h.msg
    OBVIOUS
  <2>3. \A c \in Boards : \A k \in DOMAIN entries'[c] : entries'[c][k].header.msg # n
    BY <1>11, <2>2 DEF HasEntry
  <2>4. /\ n = entries[b][i].header.msg /\ log[n].destination # Everyone
        /\ \A c \in Boards : \A k \in DOMAIN entries'[c] :
             entries'[c][k].header.msg = n => Sent(entries'[c][k]) = 3
    BY <1>1, <1>2, <2>1, <2>2, <2>3
  <2>5. /\ i \in DOMAIN entries[b] /\ entries[b][i].state = "TransmissionPending"
        /\ UNCHANGED << log, backlog >> /\ KeptEntries
        /\ \A k \in Message : \/ delivered'[k] = delivered[k]
                              \/ k = n /\ delivered'[k] = delivered[k] + 1
    BY <1>2, <1>7, <1>8, <2>2
  <2> SUFFICES ASSUME NEW m \in Made PROVE CountedOf(m)'
    OBVIOUS
  <2> QED  BY <1>9, <2>4, <2>5, DeliveryCounted
<1>13. ASSUME NEW m \in Made, NEW r \in Made, Answers(r, m)
       PROVE  delivered'[r] = delivered[r] \/ ~HasEntry(m)'
  <2> SUFFICES ASSUME r = h.msg, HasEntry(m)
               PROVE  ~HasEntry(m)'
    BY <1>7, <1>8, HasEntryKept, MadeIsMessage DEF XpccIInv
  <2>1. /\ log[m].type = "REQUEST" /\ Reverses(log[m], h)
        /\ \A k \in Made \ {m} : ~SameHeader(m, k)
    BY <1>3, <1>13 DEF Answers
  <2>2. PICK c \in Boards : \E j \in DOMAIN entries[c] : entries[c][j].header.msg = m
    BY DEF HasEntry
  <2>3. PICK j \in DOMAIN entries[c] : entries[c][j].header.msg = m
    BY <2>2
  <2>4. /\ entries[c][j].header = log[m] /\ entries[c][j] \in Entries
        /\ BoardOf[log[m].source] = c
    BY <2>3, EntryFacts
  <2>5. c = b
    BY <1>2, <2>1, <2>4 DEF Reverses
  <2>6. HeaderFits(entries[b][j], entries[b][i].header)
    BY <1>1, <2>1, <2>4, <2>5 DEF HeaderFits, Reverses
  <2>7. j > i
    BY <1>1, <1>2, <1>3, <2>1, <2>4, <2>5, EntryTyped DEF XpccIInv, ResponsesFirst
  <2>8. delivered[m] > 0
    <3>1. PICK q \in Made : delivered[q] > 0 /\ Reverses(log[q], log[h.msg])
      BY <1>3 DEF XpccIInv, Logged
    <3>2. SameHeader(m, q)
      BY <1>3, <2>1, <3>1 DEF Reverses, SameHeader
    <3> QED  BY <2>1, <3>1, <3>2
  <2>9. entries[b][j].state # "TransmissionPending"
    <3> SUFFICES ASSUME entries[b][j].state = "TransmissionPending" PROVE FALSE
      OBVIOUS
    <3>1. log[m].destination # Everyone
      BY <1>3, <2>1, XpccAssumption DEF Reverses, Packets
    <3>2. Total(m) <= Sent(entries[b][j])
      BY <2>3, <2>5, <3>1 DEF XpccIInv, Counted, CountedOf
    <3>3. Sent(entries[b][j]) = 0
      BY DEF Sent
    <3>4. Total(m) \in Nat /\ delivered[m] \in Nat /\ Total(m) >= delivered[m]
      BY <3>1, TotalTyped DEF XpccIInv
    <3> HIDE DEF Total, Sent
    <3> QED  BY <2>8, <3>2, <3>3, <3>4
  <2>10. j \in AnsweredBy(b, i)
    BY <2>1, <2>4, <2>5, <2>6, <2>7, <2>9 DEF AnsweredBy
  <2>11. PICK n \in Made : Reverses(log[n], h) /\ ~HasEntry(n)'
    BY <1>7, <2>10
  <2>12. SameHeader(m, n)
    BY <2>1, <2>11 DEF Reverses, SameHeader
  <2> QED  BY <2>1, <2>11, <2>12
<1> QED  BY <1>2, <1>7, <1>8, <1>9, <1>10, <1>12, <1>13, StepKeeps

-----------------------------------------------------------------------------
(* A new message: nobody has heard of its number.                           *)
LEMMA AppendLog ==
  ASSUME XpccTypeOK, NEW h \in Packets, Len(log) < MaxMessages,
         log' = Append(log, h)
  PROVE  /\ log' \in Seq(Packets) /\ Len(log') <= MaxMessages
         /\ Made' = Made \cup {Len(log) + 1} /\ Len(log) + 1 \in Message \ Made
         /\ \A m \in Made : log'[m] = log[m]
         /\ log'[Len(log) + 1] = h
<1>1. /\ Made = 1..Len(log) /\ Len(log) \in Nat /\ log \in Seq(Packets)
      /\ MaxMessages \in Nat
  BY MadeIsMessage, XpccAssumption DEF XpccTypeOK
<1>2. /\ log' \in Seq(Packets) /\ Len(log') = Len(log) + 1
      /\ \A k \in 1..Len(log) : log'[k] = log[k]
      /\ log'[Len(log) + 1] = h
  BY <1>1, AppendProperties
<1>3. Made' = 1..(Len(log) + 1)
  BY <1>2, LenProperties DEF Made
<1> QED  BY <1>1, <1>2, <1>3 DEF Message

LEMMA MessageAdded ==
  ASSUME XpccIInv, XpccTypeOK', NEW h \in Packets, Len(log) < MaxMessages,
         log' = Append(log, h), h.msg = Len(log) + 1, ~h.isAcknowledge,
         \/ h.type = "REQUEST"
         \/ /\ h.type = "RESPONSE"
            /\ \E q \in Made : /\ log[q].type = "REQUEST" /\ delivered[q] > 0
                               /\ Reverses(log[q], h),
         Entered', OneEntry', ResponsesFirst',
         \A c \in Boards : \A k \in DOMAIN entries'[c] :
           \/ entries'[c][k].header = h
           \/ \E j \in DOMAIN entries[c] : entries'[c][k] = entries[c][j],
         \A c \in Boards : handles'[c] \subseteq handles[c],
         UNCHANGED << backlog, delivered, acked, outcomes >>
  PROVE  XpccIInv'
<1>0. PICK n : n = Len(log) + 1
  OBVIOUS
<1>1. /\ Made' = Made \cup {n} /\ n \in Message \ Made /\ log'[n] = h
      /\ \A m \in Made : log'[m] = log[m]
  BY <1>0, AppendLog DEF XpccIInv
<1>2. h.msg = n
  BY <1>0
<1>3. /\ delivered \in [Message -> Nat] /\ acked \subseteq Message
      /\ Made \subseteq Message
  BY MadeIsMessage DEF XpccIInv, XpccTypeOK
<1>4. Grows
  <2>1. \A m \in Made : delivered[m] \in Nat
    BY <1>3
  <2>2. \A m \in Made : delivered'[m] >= delivered[m]
    BY <2>1
  <2> QED  BY <1>1, <2>2 DEF Grows
<1>5. delivered[n] = 0 /\ outcomes[n] = << >> /\ n \notin acked
  BY <1>1 DEF XpccIInv, Fresh
<1>6. Logged'
  <2> SUFFICES ASSUME NEW m \in Made'
               PROVE  /\ log'[m].msg = m /\ ~log'[m].isAcknowledge
                      /\ log'[m].type \in {"REQUEST", "RESPONSE"}
                      /\ log'[m].type = "RESPONSE" =>
                           \E q \in Made' :
                             /\ log'[q].type = "REQUEST" /\ delivered'[q] > 0
                             /\ Reverses(log'[q], log'[m])
    BY DEF Logged, Reverses
  <2>1. ASSUME \E q \in Made : /\ log[q].type = "REQUEST" /\ delivered[q] > 0
                               /\ Reverses(log[q], log'[m])
        PROVE  \E q \in Made' : /\ log'[q].type = "REQUEST" /\ delivered'[q] > 0
                                /\ Reverses(log'[q], log'[m])
    BY <1>1, <2>1
  <2>2. CASE m = n
    BY <1>1, <1>2, <2>1, <2>2
  <2>3. CASE m \in Made
    <3>1. /\ log[m].msg = m /\ ~log[m].isAcknowledge
          /\ log[m].type \in {"REQUEST", "RESPONSE"}
          /\ log[m].type = "RESPONSE" =>
               \E q \in Made : /\ log[q].type = "REQUEST" /\ delivered[q] > 0
                               /\ Reverses(log[q], log[m])
      BY <2>3 DEF XpccIInv, Logged
    <3>2. log'[m] = log[m]
      BY <1>1, <2>3
    <3> QED  BY <2>1, <3>1, <3>2
  <2> QED  BY <1>1, <2>2, <2>3
<1>7. Handled'
  <2>1. \A c \in Boards : \A g \in handles'[c] : g \in handles[c] \/ HandleOf(c, g)'
    OBVIOUS
  <2> QED  BY <1>4, <2>1, HandledKept
<1>8. Received'
  BY <1>4, BacklogSame
<1>9. Fresh'
  BY <1>1 DEF XpccIInv, Fresh, Message
<1>10. ASSUME NEW m, m # n, HasEntry(m)'
       PROVE  HasEntry(m)
  <2>1. PICK c \in Boards : \E k \in DOMAIN entries'[c] : entries'[c][k].header.msg = m
    BY <1>10 DEF HasEntry
  <2>2. PICK k \in DOMAIN entries'[c] : entries'[c][k].header.msg = m
    BY <2>1
  <2>3. PICK j \in DOMAIN entries[c] : entries'[c][k] = entries[c][j]
    BY <1>2, <1>10, <2>2
  <2> QED  BY <2>2, <2>3 DEF HasEntry
<1>11. Answering'
  <2> SUFFICES ASSUME NEW m \in Message
               PROVE  Len(outcomes[m]) <= 1 /\ (outcomes[m] # << >> => ~HasEntry(m)')
    BY DEF Answering, Message
  <2>1. Len(outcomes[m]) <= 1 /\ (outcomes[m] # << >> => ~HasEntry(m))
    BY DEF XpccIInv, Answering
  <2> QED  BY <1>5, <1>10, <2>1
<1>12. AckedIsDelivered'
  <2> SUFFICES ASSUME NEW m \in acked
               PROVE  \/ delivered[m] > 0
                      \/ \E k \in Made' \ {m} : SameHeader(m, k)'
    BY DEF AckedIsDelivered
  <2>1. m \in Made
    BY <1>3 DEF XpccIInv, Fresh
  <2>2. \A k \in Made : SameHeader(m, k) => SameHeader(m, k)'
    BY <1>1, <2>1 DEF SameHeader
  <2> QED  BY <1>1, <2>2 DEF XpccIInv, AckedIsDelivered
<1>13. AnswerEndsWaiting'
  <2> SUFFICES ASSUME NEW m \in Made', NEW r \in Made', Answers(r, m)',
                      delivered[r] > 0
               PROVE  ~HasEntry(m)'
    BY AnswersAreThen
  <2>1. r \in Made
    BY <1>1, <1>5
  <2>2. /\ log'[m].type = "REQUEST" /\ log[r].type # "REQUEST"
        /\ Reverses(log'[m], log[r])
        /\ \A k \in Made' \ {m} : ~SameHeader(m, k)'
    BY <1>1, <2>1 DEF Answers, Reverses, Made
  <2>3. m # n
    <3> SUFFICES ASSUME m = n PROVE FALSE
      OBVIOUS
    <3>1. PICK q \in Made : Reverses(log[q], log[r])
      BY <2>1, <2>2 DEF XpccIInv, Logged
    <3>2. q \in Made' \ {m} /\ log'[q] = log[q]
      BY <1>1
    <3>3. SameHeader(m, q)'
      BY <2>2, <3>1, <3>2 DEF SameHeader, Reverses
    <3> QED  BY <2>2, <3>2, <3>3
  <2>4. m \in Made /\ log'[m] = log[m]
    BY <1>1, <2>3
  <2>5. \A k \in Made \ {m} : ~SameHeader(m, k)
    <3> SUFFICES ASSUME NEW k \in Made \ {m}, SameHeader(m, k) PROVE FALSE
      OBVIOUS
    <3>1. k \in Made' \ {m} /\ log'[k] = log[k]
      BY <1>1
    <3>2. SameHeader(m, k)'
      BY <2>4, <3>1 DEF SameHeader
    <3> QED  BY <2>2, <3>1, <3>2
  <2>6. Answers(r, m)
    BY <2>2, <2>4, <2>5 DEF Answers
  <2>7. ~HasEntry(m)
    BY <2>1, <2>4, <2>6, AnswersAre DEF XpccIInv
  <2> QED  BY <1>10, <2>3, <2>7
<1>14. ASSUME NEW m \in Made
       PROVE  CountedOf(m)'
  <2>1. CountedOf(m) /\ log'[m] = log[m]
    BY <1>1 DEF XpccIInv, Counted
  <2>2. CASE log[m].destination = Everyone
    BY <2>1, <2>2 DEF CountedOf
  <2>3. CASE log[m].destination # Everyone
    <3>1. Total(m)' = Total(m)
      BY <2>1 DEF Total, Copies
    <3>2. ASSUME NEW c \in Boards, NEW k \in DOMAIN entries'[c],
                 entries'[c][k].header.msg = m
          PROVE  Total(m) <= Sent(entries'[c][k])
      <4>1. PICK j \in DOMAIN entries[c] : entries'[c][k] = entries[c][j]
        BY <1>1, <1>2, <3>2
      <4> QED  BY <2>1, <2>3, <3>2, <4>1 DEF CountedOf
    <3>3. Total(m) <= 3
      BY <2>1, <2>3 DEF CountedOf
    <3> QED  BY <2>1, <2>3, <3>1, <3>2, <3>3 DEF CountedOf, Sent
  <2> QED  BY <2>2, <2>3
<1>15. CountedOf(n)'
  <2>1. CASE h.destination = Everyone
    BY <1>1, <1>5, <2>1 DEF CountedOf
  <2>2. CASE h.destination # Everyone
    <3> DEFINE D == BoardOf[h.destination]
    <3>1. D \in Boards
      BY <2>2, XpccAssumption DEF Packets
    <3>2. Copies(backlog[D], n) = {}
      BY <1>1, <3>1 DEF Copies, XpccIInv, Received, GenuinePacket
    <3>3. Total(n)' = 0
      <4>1. Total(n)' = delivered[n] + Cardinality(Copies(backlog[D], n))
        BY <1>1 DEF Total, Copies
      <4> QED  BY <1>5, <3>2, <4>1, FS_EmptySet
    <3>4. \A c \in Boards : \A k \in DOMAIN entries'[c] : 0 <= Sent(entries'[c][k])
      <4> SUFFICES ASSUME NEW c \in Boards, NEW k \in DOMAIN entries'[c]
                   PROVE  0 <= Sent(entries'[c][k])
        OBVIOUS
      <4>1. entries'[c][k] \in Entries
        BY LenProperties DEF XpccTypeOK
      <4> QED  BY <4>1 DEF Sent, Entries
    <3> QED  BY <1>1, <2>2, <3>3, <3>4 DEF CountedOf, Sent
  <2> QED  BY <2>1, <2>2
<1>16. Counted'
  BY <1>1, <1>14, <1>15 DEF Counted
<1> QED  BY <1>6, <1>7, <1>8, <1>9, <1>11, <1>12, <1>13, <1>16 DEF XpccIInv

(* Entry e is inserted at p: entry k of the list was entry f[k] of the old  *)
(* one.                                                                     *)
Inserted(b, e, p, f) ==
  /\ \A k \in DOMAIN entries'[b] :
       \/ k = p /\ entries'[b][k] = e
       \/ /\ k # p /\ f[k] \in DOMAIN entries[b]
          /\ entries'[b][k] = entries[b][f[k]]
          /\ e.header.type = "REQUEST" => k < p
          /\ e.header.type = "RESPONSE" => p < k
  /\ \A j, k \in DOMAIN entries'[b] : j # p /\ k # p /\ j < k => f[j] < f[k]

LEMMA EntryAdded ==
  ASSUME XpccIInv, NEW h \in Packets, Len(log) < MaxMessages,
         log' = Append(log, h), h.msg = Len(log) + 1,
         NEW b \in Boards, BoardOf[h.source] = b,
         NEW e \in Entries, e.header = h, e.tries = 0,
         entries' \in [Boards -> Seq(Entries)],
         \A c \in Boards : c # b => entries'[c] = entries[c],
         NEW p, NEW f, Inserted(b, e, p, f)
  PROVE  /\ Entered' /\ OneEntry' /\ ResponsesFirst'
         /\ \A c \in Boards : \A k \in DOMAIN entries'[c] :
              \/ entries'[c][k].header = h
              \/ \E j \in DOMAIN entries[c] : entries'[c][k] = entries[c][j]
<1>1. /\ Made' = Made \cup {h.msg} /\ h.msg \notin Made /\ log'[h.msg] = h
      /\ \A m \in Made : log'[m] = log[m]
  BY AppendLog DEF XpccIInv
<1>2. /\ DOMAIN entries[b] = 1..Len(entries[b]) /\ Len(entries[b]) \in Nat
      /\ DOMAIN entries'[b] = 1..Len(entries'[b]) /\ Len(entries'[b]) \in Nat
  BY EntryTyped, LenProperties DEF XpccIInv
<1>3. ASSUME NEW c \in Boards, NEW j \in DOMAIN entries[c]
      PROVE  /\ EntryOf(c, entries[c][j])
             /\ entries[c][j].header.msg # h.msg
  BY <1>1 DEF XpccIInv, Entered, EntryOf
<1>4. /\ \A k \in DOMAIN entries'[b] :
           \/ k = p /\ entries'[b][k] = e
           \/ /\ k # p /\ f[k] \in DOMAIN entries[b]
              /\ entries'[b][k] = entries[b][f[k]]
              /\ h.type = "REQUEST" => k < p
              /\ h.type = "RESPONSE" => p < k
      /\ \A j, k \in DOMAIN entries'[b] : j # p /\ k # p /\ j < k => f[j] < f[k]
  BY DEF Inserted
<1>5. Entered'
  <2> SUFFICES ASSUME NEW c \in Boards, NEW k \in DOMAIN entries'[c],
                      NEW g, g = entries'[c][k]
               PROVE  EntryOf(c, g)'
    BY DEF Entered
  <2>1. ASSUME NEW j \in DOMAIN entries[c], g = entries[c][j]
        PROVE  EntryOf(c, g)'
    <3>1. EntryOf(c, g)
      BY <1>3, <2>1
    <3> QED  BY <1>1, <3>1 DEF EntryOf
  <2>2. CASE c = b /\ k = p
    <3>1. g = e
      BY <1>4, <2>2
    <3> QED  BY <1>1, <2>2, <3>1 DEF EntryOf
  <2>3. CASE c = b /\ k # p
    BY <1>4, <2>1, <2>3
  <2>4. CASE c # b
    BY <2>1, <2>4
  <2> QED  BY <2>2, <2>3, <2>4
<1>6. OneEntry'
  <2> SUFFICES ASSUME NEW c \in Boards, NEW j \in DOMAIN entries'[c],
                      NEW k \in DOMAIN entries'[c],
                      entries'[c][j].header.msg = entries'[c][k].header.msg
               PROVE  j = k
    BY DEF OneEntry
  <2>1. CASE c # b
    BY <2>1 DEF XpccIInv, OneEntry
  <2>2. CASE c = b /\ (j = p \/ k = p)
    BY <1>4, <1>3, <2>2
  <2>3. CASE c = b /\ j # p /\ k # p
    <3>1. /\ f[j] \in DOMAIN entries[b] /\ f[k] \in DOMAIN entries[b]
          /\ entries[b][f[j]].header.msg = entries[b][f[k]].header.msg
      BY <1>4, <2>3
    <3>2. f[j] = f[k] /\ f[j] \in Nat
      BY <1>2, <3>1 DEF XpccIInv, OneEntry
    <3>3. ~(j < k) /\ ~(k < j)
      BY <1>4, <2>3, <3>2
    <3>4. j \in Nat /\ k \in Nat
      BY <1>2, <2>3
    <3> QED  BY <3>3, <3>4
  <2> QED  BY <2>1, <2>2, <2>3
<1>7. ResponsesFirst'
  <2> SUFFICES ASSUME NEW c \in Boards, NEW j \in DOMAIN entries'[c],
                      NEW k \in DOMAIN entries'[c],
                      entries'[c][j].header.type = "RESPONSE",
                      entries'[c][k].header.type = "REQUEST"
               PROVE  j < k
    BY DEF ResponsesFirst
  <2>1. CASE c # b
    BY <2>1 DEF XpccIInv, ResponsesFirst
  <2>2. CASE c = b /\ j = p
    <3>1. h.type = "RESPONSE" /\ k # p
      BY <1>4, <2>2
    <3> QED  BY <1>4, <2>2, <3>1
  <2>3. CASE c = b /\ k = p
    <3>1. h.type = "REQUEST" /\ j # p
      BY <1>4, <2>3
    <3> QED  BY <1>4, <2>3, <3>1
  <2>4. CASE c = b /\ j # p /\ k # p
    <3>1. /\ f[j] \in DOMAIN entries[b] /\ f[k] \in DOMAIN entries[b]
          /\ entries[b][f[j]].header.type = "RESPONSE"
          /\ entries[b][f[k]].header.type = "REQUEST"
      BY <1>4, <2>4
    <3>2. f[j] < f[k] /\ f[j] \in Nat /\ f[k] \in Nat
      BY <1>2, <3>1 DEF XpccIInv, ResponsesFirst
    <3>3. ~(k < j)
      BY <1>4, <2>4, <3>2
    <3>4. j # k
      OBVIOUS
    <3>5. j \in Nat /\ k \in Nat
      BY <1>2, <2>4
    <3> QED  BY <3>3, <3>4, <3>5
  <2> QED  BY <2>1, <2>2, <2>3, <2>4
<1>8. ASSUME NEW c \in Boards, NEW k \in DOMAIN entries'[c]
      PROVE  \/ entries'[c][k].header = h
             \/ \E j \in DOMAIN entries[c] : entries'[c][k] = entries[c][j]
  <2>1. CASE c = b
    BY <1>4, <2>1
  <2>2. CASE c # b
    BY <2>2
  <2> QED  BY <2>1, <2>2
<1> QED  BY <1>5, <1>6, <1>7, <1>8

LEMMA AddMessageKeeps ==
  ASSUME XpccIInv, NEW call \in ActionCalls, AddMessage(call)
  PROVE  XpccIInv'
<1> DEFINE b == BoardOf[call.source]
<1>1. PICK h : h = [type |-> "REQUEST", isAcknowledge |-> FALSE,
                    destination |-> call.destination, source |-> call.source,
                    packetIdentifier |-> call.packetIdentifier,
                    msg |-> Len(log) + 1]
  OBVIOUS
<1>2. PICK e : e = NewEntry(call.type, h)
  OBVIOUS
<1>3. /\ Len(log) < MaxMessages /\ log' = Append(log, h)
      /\ entries' = [entries EXCEPT ![b] = Append(@, e)]
      /\ UNCHANGED << cursor, backlog, handles, delivered, acked, outcomes >>
  BY <1>1, <1>2 DEF AddMessage
<1>4. /\ call.source \in Components
      /\ call.destination \in Components \cup {Everyone}
      /\ call.packetIdentifier \in Ids /\ call.type \in {"Default", "Callback"}
      /\ b \in Boards
  BY XpccAssumption
<1> HIDE DEF b
<1>5. Len(log) \in Nat /\ Len(log) + 1 \in Message /\ MaxMessages \in Nat
  BY <1>3, MadeIsMessage, XpccAssumption DEF XpccIInv, Message
<1>6. /\ h \in Packets /\ h.type = "REQUEST" /\ ~h.isAcknowledge
      /\ h.msg = Len(log) + 1 /\ h.source = call.source
  BY <1>1, <1>4, <1>5 DEF Packets, HeaderTypes
<1>7. e \in Entries /\ e.header = h /\ e.tries = 0
  BY <1>2, <1>4, <1>6 DEF Entries, NewEntry
<1>8. /\ entries \in [Boards -> Seq(Entries)] /\ cursor \in [Boards -> Nat]
      /\ \A c \in Boards : cursor[c] <= Len(entries[c])
      /\ entries[b] \in Seq(Entries) /\ Len(entries[b]) \in Nat
      /\ DOMAIN entries[b] = 1..Len(entries[b])
  BY <1>4, EntryTyped DEF XpccIInv, XpccTypeOK
<1>9. /\ \A c \in Boards : c # b => entries'[c] = entries[c]
      /\ entries'[b] = Append(entries[b], e)
  BY <1>3, <1>4, <1>8
<1>10. /\ entries'[b] \in Seq(Entries) /\ Len(entries'[b]) = Len(entries[b]) + 1
       /\ DOMAIN entries'[b] = 1..(Len(entries[b]) + 1)
       /\ \A k \in 1..Len(entries[b]) : entries'[b][k] = entries[b][k]
       /\ entries'[b][Len(entries[b]) + 1] = e
  <2>1. Append(entries[b], e) \in Seq(Entries)
    BY <1>7, <1>8, AppendProperties
  <2> QED  BY <1>7, <1>8, <1>9, <2>1, AppendProperties, LenProperties
<1>11. entries' \in [Boards -> Seq(Entries)]
  BY <1>3, <1>8, <1>10
<1>12. \A c \in Boards : cursor[c] <= Len(entries'[c])
  BY <1>8, <1>9, <1>10
<1>13. XpccTypeOK'
  <2>1. log' \in Seq(Packets) /\ Len(log') <= MaxMessages
    BY <1>3, <1>6, AppendLog DEF XpccIInv
  <2> QED  BY <1>3, <1>11, <1>12, <2>1 DEF XpccIInv, XpccTypeOK
<1>14. /\ Entered' /\ OneEntry' /\ ResponsesFirst'
       /\ \A c \in Boards : \A k \in DOMAIN entries'[c] :
            \/ entries'[c][k].header = h
            \/ \E j \in DOMAIN entries[c] : entries'[c][k] = entries[c][j]
  <2> DEFINE p == Len(entries[b]) + 1
             f == [k \in Nat |-> k]
  <2>1. \A k \in DOMAIN entries'[b] :
          \/ k = p /\ entries'[b][k] = e
          \/ /\ k # p /\ f[k] \in DOMAIN entries[b]
             /\ entries'[b][k] = entries[b][f[k]]
             /\ h.type = "REQUEST" => k < p
             /\ h.type = "RESPONSE" => p < k
    BY <1>6, <1>8, <1>10
  <2>2. \A j, k \in DOMAIN entries'[b] : j # p /\ k # p /\ j < k => f[j] < f[k]
    BY <1>8, <1>10
  <2> HIDE DEF p, f
  <2>3. BoardOf[h.source] = b
    BY <1>6 DEF b
  <2>4. Inserted(b, e, p, f)
    BY <1>7, <2>1, <2>2 DEF Inserted
  <2> QED  BY <1>3, <1>4, <1>6, <1>7, <1>9, <1>11, <2>3, <2>4, EntryAdded
<1> QED  BY <1>3, <1>6, <1>13, <1>14, MessageAdded

LEMMA AddResponseKeeps ==
  ASSUME XpccIInv, NEW b \in Boards, NEW request \in handles[b],
         AddResponse(b, request)
  PROVE  XpccIInv'
<1>1. PICK h : h = [type |-> "RESPONSE", isAcknowledge |-> FALSE,
                    destination |-> request.source,
                    source |-> request.destination,
                    packetIdentifier |-> request.packetIdentifier,
                    msg |-> Len(log) + 1]
  OBVIOUS
<1>2. PICK e : e = NewEntry("Default", h)
  OBVIOUS
<1>3. /\ Len(log) < MaxMessages /\ log' = Append(log, h)
      /\ entries' = [entries EXCEPT ![b] = << e >> \o @]
      /\ cursor' = [cursor EXCEPT ![b] = IF @ = 0 THEN 0 ELSE @ + 1]
      /\ handles' = [handles EXCEPT ![b] = @ \ {request}]
      /\ UNCHANGED << backlog, delivered, acked, outcomes >>
  BY <1>1, <1>2 DEF AddResponse
<1>4. HandleOf(b, request)
  BY DEF XpccIInv, Handled
<1>5. /\ request.msg \in Made /\ request = log[request.msg]
      /\ request.type = "REQUEST" /\ delivered[request.msg] > 0
      /\ request.destination \in Components /\ BoardOf[request.destination] = b
      /\ request \in Packets
  BY <1>4, MadeIsMessage DEF HandleOf, XpccIInv
<1>6. Len(log) \in Nat /\ Len(log) + 1 \in Message /\ MaxMessages \in Nat
  BY <1>3, MadeIsMessage, XpccAssumption DEF XpccIInv, Message
<1>7. /\ h \in Packets /\ h.type = "RESPONSE" /\ ~h.isAcknowledge
      /\ h.msg = Len(log) + 1 /\ BoardOf[h.source] = b
      /\ Reverses(log[request.msg], h)
  BY <1>1, <1>5, <1>6 DEF Packets, HeaderTypes, Reverses
<1>8. e \in Entries /\ e.header = h /\ e.tries = 0
  BY <1>2, <1>7 DEF Entries, NewEntry
<1>9. /\ entries \in [Boards -> Seq(Entries)] /\ cursor \in [Boards -> Nat]
      /\ handles \in [Boards -> SUBSET Packets]
      /\ \A c \in Boards : cursor[c] <= Len(entries[c])
      /\ entries[b] \in Seq(Entries) /\ Len(entries[b]) \in Nat
      /\ DOMAIN entries[b] = 1..Len(entries[b])
  BY EntryTyped DEF XpccIInv, XpccTypeOK
<1>10. /\ \A c \in Boards : c # b => entries'[c] = entries[c]
       /\ entries'[b] = << e >> \o entries[b]
  BY <1>3, <1>9
<1>11. /\ entries'[b] \in Seq(Entries) /\ Len(entries'[b]) = Len(entries[b]) + 1
       /\ DOMAIN entries'[b] = 1..(Len(entries[b]) + 1)
       /\ \A k \in 1..Len(entries[b]) : entries'[b][k + 1] = entries[b][k]
       /\ entries'[b][1] = e
  <2>1. << e >> \in Seq(Entries) /\ Len(<< e >>) = 1 /\ << e >>[1] = e
    BY <1>8
  <2>2. /\ << e >> \o entries[b] \in Seq(Entries)
        /\ Len(<< e >> \o entries[b]) = 1 + Len(entries[b])
        /\ \A k \in 1..(1 + Len(entries[b])) : (<< e >> \o entries[b])[k] =
             IF k <= 1 THEN << e >>[k] ELSE entries[b][k - 1]
    BY <1>9, <2>1, ConcatProperties
  <2>3. DOMAIN entries'[b] = 1..(Len(entries[b]) + 1)
    BY <1>9, <1>10, <2>2, LenProperties
  <2>4. \A k \in 1..Len(entries[b]) :
          /\ k + 1 \in 1..(1 + Len(entries[b])) /\ ~(k + 1 <= 1) /\ (k + 1) - 1 = k
    BY <1>9
  <2>5. 1 \in 1..(1 + Len(entries[b]))
    BY <1>9
  <2> QED  BY <1>9, <1>10, <2>1, <2>2, <2>3, <2>4, <2>5
<1>12. entries' \in [Boards -> Seq(Entries)]
  BY <1>3, <1>9, <1>11
<1>13. /\ cursor' \in [Boards -> Nat] /\ handles' \in [Boards -> SUBSET Packets]
       /\ \A c \in Boards : handles'[c] \subseteq handles[c]
  BY <1>3, <1>9
<1>14. \A c \in Boards : cursor'[c] <= Len(entries'[c])
  <2> SUFFICES ASSUME NEW c \in Boards PROVE cursor'[c] <= Len(entries'[c])
    OBVIOUS
  <2>1. cursor[c] \in Nat /\ cursor[c] <= Len(entries[c])
    BY <1>9
  <2>2. CASE c = b
    <3>1. cursor'[b] = IF cursor[b] = 0 THEN 0 ELSE cursor[b] + 1
      BY <1>3, <1>9
    <3> QED  BY <1>9, <1>11, <2>1, <2>2, <3>1
  <2>3. CASE c # b
    BY <1>3, <1>9, <1>10, <2>1, <2>3
  <2> QED  BY <2>2, <2>3
<1>15. XpccTypeOK'
  <2>1. log' \in Seq(Packets) /\ Len(log') <= MaxMessages
    BY <1>3, <1>7, AppendLog DEF XpccIInv
  <2> QED  BY <1>3, <1>12, <1>13, <1>14, <2>1 DEF XpccIInv, XpccTypeOK
<1>16. /\ Entered' /\ OneEntry' /\ ResponsesFirst'
       /\ \A c \in Boards : \A k \in DOMAIN entries'[c] :
            \/ entries'[c][k].header = h
            \/ \E j \in DOMAIN entries[c] : entries'[c][k] = entries[c][j]
  <2> DEFINE f == [k \in Nat |-> k - 1]
  <2>1. \A k \in DOMAIN entries'[b] :
          \/ k = 1 /\ entries'[b][k] = e
          \/ /\ k # 1 /\ f[k] \in DOMAIN entries[b]
             /\ entries'[b][k] = entries[b][f[k]]
             /\ h.type = "REQUEST" => k < 1
             /\ h.type = "RESPONSE" => 1 < k
    <3> SUFFICES ASSUME NEW k \in 1..(Len(entries[b]) + 1), k # 1
                 PROVE  /\ f[k] \in DOMAIN entries[b] /\ 1 < k
                        /\ entries'[b][k] = entries[b][f[k]]
      BY <1>7, <1>11
    <3>1. k - 1 \in 1..Len(entries[b]) /\ (k - 1) + 1 = k /\ 1 < k /\ f[k] = k - 1
      BY <1>9
    <3> QED  BY <1>9, <1>11, <3>1
  <2>2. \A j, k \in DOMAIN entries'[b] : j # 1 /\ k # 1 /\ j < k => f[j] < f[k]
    BY <1>9, <1>11
  <2> HIDE DEF f
  <2>3. Inserted(b, e, 1, f)
    BY <1>8, <2>1, <2>2 DEF Inserted
  <2> QED  BY <1>3, <1>7, <1>8, <1>10, <1>12, <2>3, EntryAdded
<1> QED  BY <1>3, <1>5, <1>7, <1>13, <1>15, <1>16, MessageAdded

-----------------------------------------------------------------------------
LEMMA XpccInitIInv ==
  ASSUME XpccInit
  PROVE  XpccIInv
<1>1. /\ log = << >> /\ acked = {} /\ Made = {}
      /\ \A b \in Boards : /\ entries[b] = << >> /\ DOMAIN entries[b] = {}
                           /\ backlog[b] = << >> /\ DOMAIN backlog[b] = {}
                           /\ handles[b] = {} /\ cursor[b] = 0
      /\ \A m \in Message : delivered[m] = 0 /\ outcomes[m] = << >>
  BY DEF XpccInit, Made
<1>2. XpccTypeOK
  BY <1>1, EmptySeq, XpccAssumption DEF XpccInit, XpccTypeOK
<1>3. Answering
  BY <1>1, EmptySeq DEF Answering
<1> QED  BY <1>1, <1>2, <1>3 DEF XpccIInv, Logged, Entered, OneEntry, ResponsesFirst,
         Handled, Received, Fresh, Counted, AckedIsDelivered, AnswerEndsWaiting

LEMMA XpccNextIInv ==
  ASSUME XpccIInv, [XpccNext]_xpccVars
  PROVE  XpccIInv'
<1>1. ASSUME NEW call \in ActionCalls, AddMessage(call)
      PROVE  XpccIInv'
  BY <1>1, AddMessageKeeps
<1>2. ASSUME NEW b \in Boards, NEW request \in handles[b], AddResponse(b, request)
      PROVE  XpccIInv'
  BY <1>2, AddResponseKeeps
<1>3. ASSUME NEW b \in Boards, UpdateOnceRx(b)
      PROVE  XpccIInv'
  BY <1>3, UpdateOnceRxKeeps
<1>4. ASSUME NEW b \in Boards, HandleWaitingMessages(b)
      PROVE  XpccIInv'
  <2>1. PICK i \in 1..MaxMessages :
          \/ PublishEvent(b, i) \/ InnerRequest(b, i) \/ InnerResponse(b, i)
          \/ Transmit(b, i) \/ Retransmit(b, i) \/ TimeOut(b, i)
    BY <1>4 DEF HandleWaitingMessages
  <2>2. i \in Nat
    BY XpccAssumption
  <2> QED  BY <2>1, <2>2, PublishEventKeeps, InnerRequestKeeps, InnerResponseKeeps,
           TransmitKeeps, RetransmitKeeps, TimeOutKeeps
<1>5. CASE UNCHANGED xpccVars
  <2>1. UNCHANGED << log, entries, cursor, backlog, handles, delivered, acked,
                     outcomes >>
    BY <1>5 DEF xpccVars
  <2>2. XpccTypeOK' /\ KeptEntries /\ Grows
    BY <2>1, EntriesSame, GrowsSame DEF XpccIInv, XpccTypeOK
  <2>3. Received'
    BY <2>1, <2>2, BacklogSame
  <2>4. ASSUME NEW m \in Made
        PROVE  CountedOf(m)'
    <3>1. CASE log[m].destination = Everyone
      BY <2>1, <2>2, <3>1, CountedKept
    <3>2. CASE log[m].destination # Everyone
      <4>1. Total(m)' = delivered'[m] +
              Cardinality(Copies(backlog'[BoardOf[log[m].destination]], m))
        BY <2>1, <2>2, <3>2, TotalTypedThen
      <4>2. Total(m) = delivered[m] +
              Cardinality(Copies(backlog[BoardOf[log[m].destination]], m))
        BY DEF Total
      <4>3. Total(m) \in Nat
        BY <3>2, TotalTyped DEF XpccIInv
      <4> HIDE DEF Total
      <4>4. Total(m)' <= Total(m)
        BY <2>1, <4>1, <4>2, <4>3
      <4> QED  BY <2>1, <2>2, <3>2, <4>4, CountedKept
    <3> QED  BY <3>1, <3>2
  <2> QED  BY <2>1, <2>2, <2>3, <2>4, StepKeeps
<1> QED  BY <1>1, <1>2, <1>3, <1>4, <1>5 DEF XpccNext

LEMMA XpccInvariant ==
  XpccSpec => []XpccIInv
<1>1. XpccInit => XpccIInv
  BY XpccInitIInv
<1>2. XpccIInv /\ [XpccNext]_xpccVars => XpccIInv'
  BY XpccNextIInv
<1> QED  BY <1>1, <1>2, PTL DEF XpccSpec

(* The variables stay in their types: a pass never stands beyond the end of *)
(* the list, whatever handlers add to it or packets remove from it.         *)
THEOREM XpccTypeCorrect == XpccSpec => []XpccTypeOK
<1>1. XpccIInv => XpccTypeOK
  BY DEF XpccIInv
<1> QED  BY <1>1, XpccInvariant, PTL

(* The callback of a call is called at most once: who calls it removes the  *)
(* entry in the same step, and nobody else has an entry of this message.    *)
THEOREM CallbackCorrect == XpccSpec => []CallbackOnce
<1>1. XpccIInv => CallbackOnce
  BY MadeIsMessage DEF XpccIInv, Answering, CallbackOnce
<1> QED  BY <1>1, XpccInvariant, PTL

(* An action runs at most three times for one call: what was delivered and  *)
(* what is on its way is never more than what was sent.                     *)
THEOREM ExecutionsCorrect == XpccSpec => []ExecutionsBounded
<1>1. XpccIInv => ExecutionsBounded
  <2> SUFFICES ASSUME XpccIInv, NEW m \in Made PROVE delivered[m] <= 3
    BY DEF ExecutionsBounded
  <2>1. CountedOf(m)
    BY DEF XpccIInv, Counted
  <2>2. CASE log[m].destination = Everyone
    BY <2>1, <2>2 DEF CountedOf
  <2>3. CASE log[m].destination # Everyone
    <3>1. Total(m) <= 3
      BY <2>1, <2>3 DEF CountedOf
    <3>2. Total(m) \in Nat /\ delivered[m] \in Nat /\ Total(m) >= delivered[m]
      BY <2>3, TotalTyped DEF XpccIInv
    <3> HIDE DEF Total
    <3> QED  BY <3>1, <3>2
  <2> QED  BY <2>2, <2>3
<1> QED  BY <1>1, XpccInvariant, PTL

(* What a sender takes for acknowledged was delivered, or a message that    *)
(* headerFits() cannot tell from it was.                                    *)
THEOREM AcknowledgeCorrect == XpccSpec => []AckedIsDelivered
<1>1. XpccIInv => AckedIsDelivered
  BY DEF XpccIInv
<1> QED  BY <1>1, XpccInvariant, PTL

(* A response that has been delivered ends the wait of its request.         *)
THEOREM AnswerCorrect == XpccSpec => []AnswerEndsWaiting
<1>1. XpccIInv => AnswerEndsWaiting
  BY DEF XpccIInv
<1> QED  BY <1>1, XpccInvariant, PTL
=============================================================================
