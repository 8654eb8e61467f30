------------------------------ MODULE AmnbNode ------------------------------
(***************************************************************************)
(* modm::amnb::Node: nodes on one half-duplex bus that broadcast, request  *)
(* and respond, with collision detection and retransmission.  A node runs  *)
(* three fibers: one that calls request(), update_transmit(), and          *)
(* update_receive().  The first two share send(), its flag, its counter    *)
(* and its timer.                                                          *)
(*                                                                         *)
(* A step is what a fiber does between two yields.  The bus is external:   *)
(* what a node hears, and which transmission survives a collision, is any  *)
(* outcome that the electrical configuration allows.                       *)
(***************************************************************************)
EXTENDS Integers, FiniteSets, Sequences

CONSTANTS
  Nodes,         \* the nodes, each identified with its address
  Commands,      \* the 8 bit IDs of the services
  NoMessage,     \* no message
  Actions,       \* actionList of each node, as a set of commands
  Listeners,     \* listenerList of each node, as a set of commands
  Calls,         \* what the application of each node may broadcast or request
  CallsPerNode,  \* bound: how often each of them calls
  Priority,      \* command >> (8 - PRIORITY_BITS)
  MinTxTries,    \* MIN_TX_TRIES, 20
  Counters,      \* 2^8, the number of values of tx_counter
  TxBufferSize,  \* the capacity of tx_queue
  InboxSize      \* bound: messages in the receive buffer of a UART

Types == {"Broadcast", "Request", "Response", "Error", "UserError"}

(* What a message carries: an argument that the action takes or one that it *)
(* does not take, what the callback returns, or an Error.  "Refused" is     *)
(* WrongArgumentSize, or ResponseAllocationFailed for an argument that is   *)
(* missing.                                                                 *)
Payloads == {"argument", "misfit", "result", "Refused", "NoAction",
             "ResponseAllocationFailed", "RequestTimeout"}

(* `call' is history and not on the wire: which call of which application   *)
(* a message belongs to.                                                    *)
Messages == [type : Types, address : Nodes, command : Commands,
             payload : Payloads, call : Nodes \X Nat]

(* What request() returns when its argument cannot be allocated: a Response *)
(* of its own, with the address 0 and the command 0.                        *)
NotAllocated == [type |-> "Response", address |-> 0, command |-> 0,
                 payload |-> "RequestAllocationFailed", call |-> << >>]

ASSUME AmnbAssumption ==
  /\ IsFiniteSet(Nodes)
  /\ NoMessage \notin Messages
  /\ Actions \in [Nodes -> SUBSET Commands]
  /\ Listeners \in [Nodes -> SUBSET Commands]
  /\ Calls \in [Nodes -> SUBSET Messages]
  /\ \A n \in Nodes : \A m \in Calls[n] : m.payload \in {"argument", "misfit"}
  /\ \A n \in Nodes : \A m \in Calls[n] :
       \/ m.type = "Request"
       \/ m.type = "Broadcast" /\ m.address = n
  /\ Priority \in [Commands -> Nat]
  /\ MinTxTries \in Nat \ {0} /\ Counters \in Nat /\ MinTxTries < Counters
  /\ CallsPerNode \in [Nodes -> Nat] /\ InboxSize \in Nat
  /\ TxBufferSize \in Nat /\ TxBufferSize >= 2

VARIABLES
  place,            \* where each fiber that sends is
  is_sending,       \* Node::is_sending
  tx_counter,       \* Node::tx_counter
  tries,            \* history: transmissions of the message in send()
  tx_queue,         \* Node::tx_queue
  request_msg,      \* Node::request_msg
  response_status,  \* Node::response_status
  calls,            \* history: how often the application has called
  asked,            \* history: the request that was sent last
  requests,         \* history: all requests that were sent
  inbox,            \* what the UART has received, not yet read
  rx,               \* Node::rx_msg after its header, and is_rx_msg_for_us
  garbled,          \* the transmissions that have collided and not survived
  executed          \* history: the requests that each node's actions were called for

senderVars == << place, is_sending, tx_counter, tries >>
requestVars == << request_msg, response_status, asked, requests >>
receiverVars == << inbox, rx, executed >>
vars == << place, is_sending, tx_counter, tries, tx_queue, request_msg,
           response_status, calls, asked, requests, inbox, rx, garbled, executed >>

Fibers == {"request", "transmit"}

(* claim    polls is_sending              busy      polls the medium        *)
(* backoff  polls tx_timer                air       inside transmit()       *)
(* waiting  polls response_status and response_timer                        *)
Places == {"idle", "claim", "busy", "backoff", "air", "waiting"}

Sending == {"busy", "backoff", "air"}

(* What has arrived: the whole message, or only its header.                 *)
Arrivals == [msg : Messages, whole : BOOLEAN]

TypeOK ==
  /\ place \in [Nodes -> [Fibers -> Places]]
  /\ is_sending \in [Nodes -> BOOLEAN]
  /\ tx_counter \in [Nodes -> 0..(Counters - 1)]
  /\ tries \in [Nodes -> Nat]
  /\ tx_queue \in [Nodes -> Seq(Messages)]
  /\ request_msg \in [Nodes -> Messages \cup {NoMessage, NotAllocated}]
  /\ response_status \in [Nodes -> {"NotWaiting", "Waiting", "Received"}]
  /\ calls \in [Nodes -> Nat]
  /\ asked \in [Nodes -> Messages \cup {NoMessage}]
  /\ requests \subseteq Messages
  /\ inbox \in [Nodes -> Seq(Arrivals)]
  /\ rx \in [Nodes -> [arrival : Arrivals, ours : BOOLEAN] \cup {NoMessage}]
  /\ garbled \subseteq Nodes
  /\ executed \in [Nodes -> SUBSET Messages]

Init ==
  /\ place = [n \in Nodes |-> [f \in Fibers |-> "idle"]]
  /\ is_sending = [n \in Nodes |-> FALSE]
  /\ tx_counter = [n \in Nodes |-> 0]
  /\ tries = [n \in Nodes |-> 0]
  /\ tx_queue = [n \in Nodes |-> << >>]
  /\ request_msg = [n \in Nodes |-> NoMessage]
  /\ response_status = [n \in Nodes |-> "NotWaiting"]
  /\ calls = [n \in Nodes |-> 0]
  /\ asked = [n \in Nodes |-> NoMessage]
  /\ requests = {}
  /\ inbox = [n \in Nodes |-> << >>]
  /\ rx = [n \in Nodes |-> NoMessage]
  /\ garbled = {}
  /\ executed = [n \in Nodes |-> {}]

-----------------------------------------------------------------------------
(* The medium.                                                             *)
OnAir == {n \in Nodes : \E f \in Fibers : place[n][f] = "air"}

(* isMediumBusy() is true while something that was received waits to be     *)
(* read.  While another node transmits it may be true: the first byte is    *)
(* not heard, and a receiver that has met an error is deaf between bytes.   *)
HasReceived(n) == inbox[n] # << >> \/ rx[n] # NoMessage

OthersOnAir(n) == OnAir \ {n} # {}

(* A transmission beside others garbles all of them or all but one: on an   *)
(* open-drain bus the sender that never reads back a wrong bit goes on.     *)
Collide(n) ==
  IF OnAir = {}
    THEN garbled' = garbled
    ELSE \E survivor \in ((OnAir \cup {n}) \ garbled) \cup {NoMessage} :
           garbled' = (OnAir \cup {n}) \ {survivor}

-----------------------------------------------------------------------------
(* send().                                                                 *)
Goto(n, f, p) == place' = [place EXCEPT ![n][f] = p]

(* The test of the medium and, when it is free, the start of transmit().    *)
(* `before' is the number of transmissions so far.                          *)
Attempt(n, f, before) ==
  \/ /\ HasReceived(n) \/ OthersOnAir(n)
     /\ Goto(n, f, "busy")
     /\ tries' = [tries EXCEPT ![n] = before]
     /\ UNCHANGED garbled
  \/ /\ ~HasReceived(n)
     /\ Goto(n, f, "air")
     /\ tries' = [tries EXCEPT ![n] = before + 1]
     /\ Collide(n)

(* The message in send().                                                   *)
Outgoing(n, f) ==
  IF f = "request" THEN request_msg[n] ELSE Head(tx_queue[n])

InitialTries(c) ==
  IF Priority[c] < MinTxTries THEN Priority[c] ELSE MinTxTries

(* poll(not is_sending) succeeds, and a mutant that does not look.          *)
FreeIgnored(n) == TRUE

Free(n) == ~is_sending[n]

(* Both callers poll the flag and enter send() without a yield between.     *)
Claim(n, f) ==
  /\ Free(n)
  /\ is_sending' = [is_sending EXCEPT ![n] = TRUE]
  /\ tx_counter' = [tx_counter EXCEPT ![n] =
                      InitialTries(Outgoing(n, f).command)]
  /\ Attempt(n, f, 0)
  /\ UNCHANGED << tx_queue, request_msg, calls, asked, requests, receiverVars >>

ClaimForRequest(n) ==
  /\ place[n]["request"] = "claim"
  /\ response_status' = [response_status EXCEPT ![n] = "Waiting"]
  /\ Claim(n, "request")

ClaimForQueue(n) ==
  /\ place[n]["transmit"] = "idle"
  /\ tx_queue[n] # << >>
  /\ Claim(n, "transmit")
  /\ UNCHANGED response_status

(* The medium is found free after it was busy or after a collision.         *)
Reschedule(n, f) ==
  /\ place[n][f] = "busy"
  /\ ~HasReceived(n)
  /\ Goto(n, f, "backoff")
  /\ UNCHANGED << is_sending, tx_counter, tries, tx_queue, requestVars, calls,
                  receiverVars, garbled >>

(* tx_timer has expired.                                                    *)
TryAgain(n, f) ==
  /\ place[n][f] = "backoff"
  /\ Attempt(n, f, tries[n])
  /\ UNCHANGED << is_sending, tx_counter, tx_queue, requestVars, calls,
                  receiverVars >>

(* The flag when send() returns, and a mutant that returns from the middle  *)
(* of the loop after a collision.                                           *)
StillSending(n) == n \in garbled

SendingAfter(n) == FALSE

(* tx_queue.pop(), and a mutant that keeps a message that was given up.     *)
PoppedIfSent(n) ==
  IF n \in garbled THEN tx_queue[n] ELSE Tail(tx_queue[n])

Popped(n) == Tail(tx_queue[n])

(* send() returns: to request(), which waits for the response, or to        *)
(* update_transmit(), which removes the message.                            *)
Leave(n, f) ==
  /\ is_sending' = [is_sending EXCEPT ![n] = SendingAfter(n)]
  /\ tries' = [tries EXCEPT ![n] = 0]
  /\ IF f = "request"
       THEN Goto(n, f, "waiting") /\ UNCHANGED tx_queue
       ELSE /\ Goto(n, f, "idle")
            /\ tx_queue' = [tx_queue EXCEPT ![n] = Popped(n)]

(* What the others hear of a transmission.  A node that transmits reads     *)
(* only its own bytes.                                                      *)
Deliver(n, msg) ==
  \E whole, header \in SUBSET
       {m \in Nodes \ OnAir : Len(inbox[m]) < InboxSize} :
    /\ whole \cap header = {}
    /\ inbox' = [m \in Nodes |->
         IF m \in whole
           THEN Append(inbox[m], [msg |-> msg, whole |-> TRUE])
           ELSE IF m \in header
             THEN Append(inbox[m], [msg |-> msg, whole |-> FALSE])
             ELSE inbox[m]]

(* transmit() has read back every byte.                                     *)
Transmitted(n, f) ==
  /\ place[n][f] = "air"
  /\ n \notin garbled
  /\ Deliver(n, Outgoing(n, f))
  /\ Leave(n, f)
  /\ UNCHANGED << tx_counter, requestVars, calls, rx, garbled, executed >>

(* The counter is decremented and compared with 0: from 0 it wraps around.  *)
(* And a mutant that gives up one try too late.                             *)
GiveUpLate(n) == tx_counter[n] = 0

GiveUp(n) == tx_counter[n] = 1

Decrement(n) == (tx_counter[n] + Counters - 1) % Counters

(* transmit() has failed: a collision, or the sender has not read back a    *)
(* byte in time, maybe the last one of a message that others have received. *)
Failed(n, f) ==
  /\ place[n][f] = "air"
  /\ \/ n \in garbled /\ UNCHANGED inbox
     \/ n \notin garbled /\ Deliver(n, Outgoing(n, f))
  /\ garbled' = garbled \ {n}
  /\ tx_counter' = [tx_counter EXCEPT ![n] = Decrement(n)]
  /\ IF GiveUp(n)
       THEN Leave(n, f)
       ELSE Goto(n, f, "busy") /\ UNCHANGED << is_sending, tries, tx_queue >>
  /\ UNCHANGED << requestVars, calls, rx, executed >>

-----------------------------------------------------------------------------
(* The application: broadcast() and request().                             *)
Push(n, msg) ==
  IF Len(tx_queue[n]) < TxBufferSize
    THEN tx_queue' = [tx_queue EXCEPT ![n] = Append(@, msg)]
    ELSE UNCHANGED tx_queue

Called(n) ==
  /\ calls[n] < CallsPerNode[n]
  /\ calls' = [calls EXCEPT ![n] = @ + 1]

Broadcast(n, msg) ==
  /\ msg.type = "Broadcast"
  /\ Called(n)
  /\ Push(n, msg)
  /\ UNCHANGED << senderVars, requestVars, receiverVars, garbled >>

Request(n, msg) ==
  /\ msg.type = "Request"
  /\ place[n]["request"] = "idle"
  /\ Called(n)
  /\ LET request == [msg EXCEPT !.call = << n, calls[n] + 1 >>]
     IN  /\ request_msg' = [request_msg EXCEPT ![n] = request]
         /\ asked' = [asked EXCEPT ![n] = request]
         /\ requests' = requests \cup {request}
  /\ Goto(n, "request", "claim")
  /\ UNCHANGED << is_sending, tx_counter, tries, tx_queue, response_status,
                  receiverVars, garbled >>

(* request() returns at once: its argument cannot be allocated.             *)
RequestUnallocated(n, msg) ==
  /\ msg.type = "Request"
  /\ place[n]["request"] = "idle"
  /\ Called(n)
  /\ request_msg' = [request_msg EXCEPT ![n] = NotAllocated]
  /\ UNCHANGED << senderVars, tx_queue, response_status, asked, requests,
                  receiverVars, garbled >>

(* The end of request(), with the response or after response_timer, which   *)
(* is looked at again: it may expire between a response and the next turn.  *)
Return(n, expired) ==
  /\ place[n]["request"] = "waiting"
  /\ response_status[n] = "Received" \/ expired
  /\ response_status' = [response_status EXCEPT ![n] = "NotWaiting"]
  /\ LET timeout == [request_msg[n] EXCEPT !.type = "Error", !.address = n,
                                           !.payload = "RequestTimeout"]
         answer == IF expired THEN timeout ELSE request_msg[n]
     IN  request_msg' = [request_msg EXCEPT ![n] = answer]
  /\ Goto(n, "request", "idle")
  /\ UNCHANGED << is_sending, tx_counter, tries, tx_queue, calls, asked,
                  requests, receiverVars, garbled >>

-----------------------------------------------------------------------------
(* update_receive().                                                       *)
IsAnswer(msg) == msg.type \in {"Response", "Error", "UserError"}

(* handleRxMessage(false): is this node interested?                         *)
Interested(n, msg) ==
  \/ msg.type = "Broadcast" /\ msg.command \in Listeners[n]
  \/ msg.type = "Request" /\ msg.address = n /\ msg.command \in Actions[n]
  \/ IsAnswer(msg) /\ response_status[n] = "Waiting"

HasNoAction(n, msg) ==
  msg.type = "Request" /\ msg.address = n /\ msg.command \notin Actions[n]

Answer(msg, type, payload) == [msg EXCEPT !.type = type, !.payload = payload]

ReceiveHeader(n) ==
  /\ n \notin OnAir
  /\ rx[n] = NoMessage
  /\ inbox[n] # << >>
  /\ LET arrival == Head(inbox[n])
     IN  /\ rx' = [rx EXCEPT ![n] =
                     [arrival |-> arrival,
                      ours |-> Interested(n, arrival.msg)]]
         /\ IF HasNoAction(n, arrival.msg)
              THEN Push(n, Answer(arrival.msg, "Error", "NoAction"))
              ELSE UNCHANGED tx_queue
  /\ inbox' = [inbox EXCEPT ![n] = Tail(@)]
  /\ UNCHANGED << senderVars, requestVars, calls, garbled, executed >>

(* Does a response answer the request that waits?  And a mutant that does   *)
(* not compare the commands.                                                *)
AnyCommand(n, msg) == request_msg[n].address = msg.address

Matches(n, msg) ==
  /\ request_msg[n].address = msg.address
  /\ request_msg[n].command = msg.command

(* Action::call(): the callback is called if it takes the argument.         *)
Fits(msg) == msg.payload = "argument"

(* It is not called, and the error is sent in a Response.                   *)
Refuse(n, msg) ==
  /\ ~Fits(msg)
  /\ Push(n, Answer(msg, "Response", "Refused"))
  /\ UNCHANGED executed

(* What a callback returns: a result, or ErrorResponse(), or what is left   *)
(* of one that cannot be allocated, where ErrorResponse() keeps its type.   *)
Outcomes == {<< "Response", "result" >>, << "UserError", "result" >>,
             << "Error", "ResponseAllocationFailed" >>,
             << "UserError", "ResponseAllocationFailed" >>}

Execute(n, msg) ==
  /\ Fits(msg)
  /\ executed' = [executed EXCEPT ![n] = @ \cup {msg}]
  /\ \E outcome \in Outcomes : Push(n, Answer(msg, outcome[1], outcome[2]))

Act(n, msg) ==
  /\ Refuse(n, msg) \/ Execute(n, msg)
  /\ UNCHANGED << request_msg, response_status >>

Accept(n, msg) ==
  /\ IF response_status[n] = "Waiting" /\ Matches(n, msg)
       THEN /\ request_msg' = [request_msg EXCEPT ![n] = msg]
            /\ response_status' = [response_status EXCEPT ![n] = "Received"]
       ELSE UNCHANGED << request_msg, response_status >>
  /\ UNCHANGED << executed, tx_queue >>

(* receiveData() and, for a whole message of interest,                      *)
(* handleRxMessage(true).                                                   *)
ReceiveData(n) ==
  /\ rx[n] # NoMessage
  /\ LET msg == rx[n].arrival.msg
         handle == rx[n].arrival.whole /\ rx[n].ours
     IN  \/ handle /\ msg.type = "Request" /\ Act(n, msg)
         \/ handle /\ IsAnswer(msg) /\ Accept(n, msg)
         \/ /\ ~handle \/ msg.type = "Broadcast"
            /\ UNCHANGED << executed, tx_queue, request_msg, response_status >>
  /\ rx' = [rx EXCEPT ![n] = NoMessage]
  /\ UNCHANGED << senderVars, calls, asked, requests, inbox, garbled >>

-----------------------------------------------------------------------------
SendStep(n, f) ==
  \/ Reschedule(n, f)
  \/ TryAgain(n, f)
  \/ Transmitted(n, f)
  \/ Failed(n, f)

Step(n) ==
  \/ ClaimForRequest(n)
  \/ ClaimForQueue(n)
  \/ \E f \in Fibers : SendStep(n, f)
  \/ \E expired \in BOOLEAN : Return(n, expired)
  \/ ReceiveHeader(n)
  \/ ReceiveData(n)

Next ==
  \E n \in Nodes :
    \/ Step(n)
    \/ \E msg \in Calls[n] :
         Broadcast(n, msg) \/ Request(n, msg) \/ RequestUnallocated(n, msg)

(* Every fiber of a node has its turn, every timer expires, and every       *)
(* transmission ends.                                                       *)
Fairness ==
  \A n \in Nodes :
    /\ WF_vars(ClaimForRequest(n))
    /\ WF_vars(ClaimForQueue(n))
    /\ \A f \in Fibers :
         /\ WF_vars(Reschedule(n, f))
         /\ WF_vars(TryAgain(n, f))
         /\ WF_vars(Transmitted(n, f) \/ Failed(n, f))
    /\ WF_vars(\E expired \in BOOLEAN : Return(n, expired))
    /\ WF_vars(ReceiveHeader(n))
    /\ WF_vars(ReceiveData(n))

Spec == Init /\ [][Next]_vars /\ Fairness

-----------------------------------------------------------------------------
(* One fiber of a node is inside send(), the one that has set is_sending:   *)
(* the other would overwrite its counter and its timer.                     *)
SendersExclude ==
  \A n \in Nodes :
    /\ \A f, g \in Fibers :
         place[n][f] \in Sending /\ place[n][g] \in Sending => f = g
    /\ is_sending[n] <=> \E f \in Fibers : place[n][f] \in Sending

(* A message leaves send() after at most MIN_TX_TRIES transmissions, unless *)
(* its command is below 1 << (8 - PRIORITY_BITS).                           *)
TriesBounded ==
  (\A c \in Commands : Priority[c] > 0) =>
    \A n \in Nodes : tries[n] <= MinTxTries

(* A message tells the truth about a request: its node has no such action,  *)
(* the action was not called because it does not take the argument, or it   *)
(* was called and this is the outcome.                                      *)
TellsOf(msg, r) ==
  /\ msg.address = r.address /\ msg.command = r.command /\ msg.call = r.call
  /\ \/ /\ << msg.type, msg.payload >> = << "Error", "NoAction" >>
        /\ r.command \notin Actions[r.address]
     \/ /\ << msg.type, msg.payload >> = << "Response", "Refused" >>
        /\ r.payload = "misfit" /\ r \notin executed[r.address]
     \/ /\ << msg.type, msg.payload >> \in Outcomes
        /\ r.payload = "argument" /\ r \in executed[r.address]

(* What request() has returned tells what became of a request: of one that  *)
(* sent to the node and for the command that were asked, maybe an earlier   *)
(* one or one of another node, for an answer carries nothing to tell them   *)
(* apart.  Or the time was up, or nothing was sent.                         *)
AnswersAreReal ==
  \A n \in Nodes :
    place[n]["request"] = "idle" /\ asked[n] # NoMessage =>
      LET answer == request_msg[n]
      IN  \/ answer = NotAllocated
          \/ /\ answer.type = "Error" /\ answer.payload = "RequestTimeout"
             /\ answer.address = n /\ answer.command = asked[n].command
          \/ \E r \in requests :
               /\ r.address = asked[n].address /\ r.command = asked[n].command
               /\ TellsOf(answer, r)

(* An answer belongs to the call that returns it.  It need not: see the     *)
(* README.                                                                  *)
AnswersAreOwn ==
  \A n \in Nodes :
    /\ place[n]["request"] = "idle" /\ asked[n] # NoMessage
    /\ request_msg[n] # NotAllocated
    => request_msg[n].call = asked[n].call

(* A positive response of the node that was asked means that its action was *)
(* called: "Positive Response with a custom user payload" in message.hpp.in *)
(* beside "Negative Response with a system error code".  It need not.       *)
PositiveMeansExecuted ==
  \A n \in Nodes :
    /\ place[n]["request"] = "idle" /\ asked[n] # NoMessage
    /\ request_msg[n].address = asked[n].address
    /\ request_msg[n].type = "Response"
    => \E r \in executed[asked[n].address] : r.call = request_msg[n].call

(* Only the node that was asked sends the response.                         *)
ResponsesAreOwn ==
  \A n \in Nodes, f \in Fibers :
    place[n][f] = "air" /\ IsAnswer(Outgoing(n, f)) =>
      Outgoing(n, f).address = n

(* request() returns.                                                       *)
RequestReturns ==
  \A n \in Nodes :
    place[n]["request"] # "idle" ~> place[n]["request"] = "idle"

(* A queued broadcast or response is sent or given up: the queue drains.    *)
QueueDrains ==
  \A n \in Nodes : tx_queue[n] # << >> ~> tx_queue[n] = << >>
=============================================================================
