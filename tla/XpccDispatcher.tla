--------------------------- MODULE XpccDispatcher ---------------------------
(***************************************************************************)
(* xpcc::Dispatcher: the components of several boards call actions of each *)
(* other, publish events and respond.  Actions and responses that leave a  *)
(* board are acknowledged, and transmitted up to three times.              *)
(*                                                                         *)
(* update() is cut into its steps: one packet that was received, one entry *)
(* of the list.  An application may call from outside update() and from    *)
(* every handler and callback inside it: its calls may come between any    *)
(* two of these steps.  The bus is external: it may lose every packet.     *)
(***************************************************************************)
EXTENDS Integers, SequencesExt

CONSTANTS
  Boards,
  Components,   \* the addresses of the components
  Everyone,     \* the address of events, 0
  BoardOf,      \* the board of each component
  Ids,          \* packet identifiers of actions and events
  Registered,   \* the actions that each component has registered
  ActionCalls,  \* the actions that may be called, the events published
  MaxMessages,  \* bound: requests and responses, without retransmissions
  BacklogSize   \* bound: packets that a backend has received, not yet read

(* A NEGATIVE_RESPONSE is handled as a RESPONSE is.                         *)
HeaderTypes == {"REQUEST", "RESPONSE", "TIMEOUT"}

ASSUME XpccAssumption ==
  /\ Everyone \notin Components
  /\ BoardOf \in [Components -> Boards]
  /\ Registered \in [Components -> SUBSET Ids]
  /\ ActionCalls \subseteq [source : Components,
                            destination : Components \cup {Everyone},
                            packetIdentifier : Ids,
                            type : {"Default", "Callback"}]
  /\ MaxMessages \in Nat /\ BacklogSize \in Nat

VARIABLES
  log,        \* history: the messages, in the order they were made
  entries,    \* Dispatcher::entries of each board
  cursor,     \* the entry that handleWaitingMessages() is at, or 0
  backlog,    \* the packets that the backend of each board has received
  handles,    \* the requests that the handlers of each board may answer
  delivered,  \* history: how often each message has been delivered
  acked,      \* history: the messages that a received packet has confirmed
  outcomes    \* history: the calls of the callback of each message

xpccVars ==
  << log, entries, cursor, backlog, handles, delivered, acked, outcomes >>

Message == 1..MaxMessages

(* A header, with the number of the message it is for.                      *)
Packets == [type : HeaderTypes, isAcknowledge : BOOLEAN,
            destination : Components \cup {Everyone}, source : Components,
            packetIdentifier : Ids, msg : Message]

Entries == [type : {"Default", "Callback"}, header : Packets,
            state : {"TransmissionPending", "WaitForACK", "WaitForResponse"},
            tries : 0..2]

XpccTypeOK ==
  /\ log \in Seq(Packets) /\ Len(log) <= MaxMessages
  /\ entries \in [Boards -> Seq(Entries)]
  /\ cursor \in [Boards -> Nat]
  /\ \A b \in Boards : cursor[b] <= Len(entries[b])
  /\ backlog \in [Boards -> Seq(Packets)]
  /\ handles \in [Boards -> SUBSET Packets]
  /\ delivered \in [Message -> Nat]
  /\ acked \subseteq Message
  /\ outcomes \in [Message -> Seq([type : HeaderTypes, msg : Message])]

XpccInit ==
  /\ log = << >>
  /\ entries = [b \in Boards |-> << >>]
  /\ cursor = [b \in Boards |-> 0]
  /\ backlog = [b \in Boards |-> << >>]
  /\ handles = [b \in Boards |-> {}]
  /\ delivered = [m \in Message |-> 0]
  /\ acked = {}
  /\ outcomes = [m \in Message |-> << >>]

-----------------------------------------------------------------------------
(* The postman of a board and the backend.                                 *)

(* DynamicPostman knows the components that have registered an action.      *)
IsComponentAvailable(b, c) ==
  c \in Components /\ BoardOf[c] = b /\ Registered[c] # {}

HasAction(b, header) ==
  /\ IsComponentAvailable(b, header.destination)
  /\ header.packetIdentifier \in Registered[header.destination]

(* deliverPacket() of a request: the handler gets a ResponseHandle.         *)
DeliverRequest(b, header) ==
  IF HasAction(b, header)
    THEN /\ delivered' = [delivered EXCEPT ![header.msg] = @ + 1]
         /\ handles' = [handles EXCEPT ![b] = @ \cup {header}]
    ELSE UNCHANGED << delivered, handles >>

(* Who makes use of a packet: the other boards ignore it.                   *)
Receivers(b, packet) ==
  IF packet.destination = Everyone
    THEN Boards \ {b}
    ELSE {BoardOf[packet.destination]} \ {b}

(* sendPacket(): every receiver may miss it.  `box' is what the backends    *)
(* hold before.                                                             *)
SendPacket(b, packet, box) ==
  \E heard \in SUBSET {r \in Receivers(b, packet) :
                         Len(box[r]) < BacklogSize} :
    backlog' = [r \in Boards |->
                IF r \in heard THEN Append(box[r], packet) ELSE box[r]]

SendAcknowledge(b, header, box) ==
  SendPacket(b, [header EXCEPT !.isAcknowledge = TRUE,
                               !.destination = header.source,
                               !.source = header.destination], box)

-----------------------------------------------------------------------------
(* The application.                                                        *)
NewEntry(type, header) ==
  [type |-> type, header |-> header, state |-> "TransmissionPending",
   tries |-> 0]

(* callAction() and publishEvent(): addMessage() appends.                   *)
AddMessage(call) ==
  /\ Len(log) < MaxMessages
  /\ LET header == [type |-> "REQUEST", isAcknowledge |-> FALSE,
                    destination |-> call.destination, source |-> call.source,
                    packetIdentifier |-> call.packetIdentifier,
                    msg |-> Len(log) + 1]
     IN  /\ log' = Append(log, header)
         /\ entries' = [entries EXCEPT ![BoardOf[call.source]] =
                          Append(@, NewEntry(call.type, header))]
  /\ UNCHANGED << cursor, backlog, handles, delivered, acked, outcomes >>

(* sendResponse() and sendNegativeResponse(): addResponse() prepends.       *)
AddResponse(b, request) ==
  /\ request \in handles[b]
  /\ Len(log) < MaxMessages
  /\ LET header == [type |-> "RESPONSE", isAcknowledge |-> FALSE,
                    destination |-> request.source,
                    source |-> request.destination,
                    packetIdentifier |-> request.packetIdentifier,
                    msg |-> Len(log) + 1]
     IN  /\ log' = Append(log, header)
         /\ entries' = [entries EXCEPT ![b] =
                          << NewEntry("Default", header) >> \o @]
  /\ cursor' = [cursor EXCEPT ![b] = IF @ = 0 THEN 0 ELSE @ + 1]
  /\ handles' = [handles EXCEPT ![b] = @ \ {request}]
  /\ UNCHANGED << backlog, delivered, acked, outcomes >>

-----------------------------------------------------------------------------
(* update(), first part: the packets that were received.                   *)

RemoveEntry(b, i) == entries' = [entries EXCEPT ![b] = RemoveAt(@, i)]

(* Two headers fit.  And a mutant that compares no addresses.               *)
IdentifierFits(entry, header) ==
  header.packetIdentifier = entry.header.packetIdentifier

HeaderFits(entry, header) ==
  /\ header.source = entry.header.destination
  /\ header.destination = entry.header.source
  /\ header.packetIdentifier = entry.header.packetIdentifier

(* callbackResponse()                                                       *)
Answered(entry, header, type) ==
  IF entry.type = "Callback"
    THEN outcomes' = [outcomes EXCEPT ![entry.header.msg] =
                        Append(@, [type |-> type, msg |-> header.msg])]
    ELSE UNCHANGED outcomes

(* The first entry that a packet fits, or 0.                                *)
Fitting(b, packet) ==
  SelectInSeq(entries[b], LAMBDA entry : HeaderFits(entry, packet))

(* Does the entry stay?  And a mutant that keeps an entry that is answered. *)
StaysAnswered(entry, packet) == entry.type = "Callback"

Stays(entry, packet) ==
  /\ entry.type = "Callback"
  /\ packet.isAcknowledge /\ packet.type = "REQUEST"

(* The entry that fits goes, whatever its state, except a request with a    *)
(* callback that is acknowledged.                                           *)
HandlePacket(b, packet) ==
  LET i == Fitting(b, packet)
      entry == entries[b][i]
  IN  /\ i # 0
      /\ acked' = acked \cup {entry.header.msg}
      /\ IF Stays(entry, packet)
           THEN entries' = [entries EXCEPT ![b][i].state = "WaitForResponse"]
           ELSE RemoveEntry(b, i)
      /\ IF packet.isAcknowledge
           THEN UNCHANGED outcomes
           ELSE Answered(entry, packet, packet.type)

(* handleActionCall()                                                       *)
ReceiveRequest(b, packet) ==
  /\ packet.type = "REQUEST" /\ ~packet.isAcknowledge
  /\ DeliverRequest(b, packet)
  /\ IF HasAction(b, packet)
       THEN SendAcknowledge(b, packet, [backlog EXCEPT ![b] = Tail(@)])
       ELSE backlog' = [backlog EXCEPT ![b] = Tail(@)]
  /\ UNCHANGED << entries, acked, outcomes >>

ReceiveOther(b, packet) ==
  /\ packet.type # "REQUEST" \/ packet.isAcknowledge
  /\ \/ HandlePacket(b, packet)
     \/ Fitting(b, packet) = 0 /\ UNCHANGED << entries, acked, outcomes >>
  /\ LET i == Fitting(b, packet)
         is_response == i # 0 /\ entries[b][i].type = "Callback"
         rest == [backlog EXCEPT ![b] = Tail(@)]
     IN  IF packet.isAcknowledge
           THEN backlog' = rest /\ UNCHANGED delivered
           ELSE /\ delivered' = [delivered EXCEPT ![packet.msg] = @ + 1]
                /\ IF is_response \/ IsComponentAvailable(b, packet.destination)
                     THEN SendAcknowledge(b, packet, rest)
                     ELSE backlog' = rest
  /\ UNCHANGED handles

UpdateOnceRx(b) ==
  /\ cursor[b] = 0
  /\ backlog[b] # << >>
  /\ \/ ReceiveRequest(b, Head(backlog[b]))
     \/ ReceiveOther(b, Head(backlog[b]))
  /\ UNCHANGED << log, cursor >>

-----------------------------------------------------------------------------
(* update(), second part: handleWaitingMessages().                         *)

(* The entries of a pass.  And a mutant that ends before the last one.      *)
PassWithoutLast(b) == 1..(Len(entries[b]) - 1)

Pass(b) == 1..Len(entries[b])

(* A pass looks at entry i next.  It skips the entries that wait, unless    *)
(* their time is up when it comes to them, but none that is pending.        *)
LooksAt(b, i, state) ==
  /\ i \in Pass(b) /\ i >= cursor[b]
  /\ \A j \in DOMAIN entries[b] : j >= cursor[b] /\ j < i =>
       entries[b][j].state # "TransmissionPending"
  /\ entries[b][i].state = state

(* The pass goes on at entry i.  It has ended when nothing there is pending:*)
(* an entry whose time is up later belongs to the next pass.                *)
GoOnAt(b, i) ==
  cursor' = [cursor EXCEPT ![b] =
    IF \E j \in DOMAIN entries'[b] :
         j >= i /\ entries'[b][j].state = "TransmissionPending"
      THEN i
      ELSE 0]

(* An event is delivered once, and nobody acknowledges it.                  *)
PublishEvent(b, i) ==
  /\ LooksAt(b, i, "TransmissionPending")
  /\ entries[b][i].header.destination = Everyone
  /\ SendPacket(b, entries[b][i].header, backlog)
  /\ RemoveEntry(b, i)
  /\ GoOnAt(b, i)
  /\ UNCHANGED << log, handles, delivered, acked, outcomes >>

(* sendMessageToInnerComponent() of a request.  The copy that it also sends *)
(* to the bus fits nothing on another board and is left out.                *)
InnerRequest(b, i) ==
  /\ LooksAt(b, i, "TransmissionPending")
  /\ LET entry == entries[b][i]
     IN  /\ entry.header.type = "REQUEST"
         /\ IsComponentAvailable(b, entry.header.destination)
         /\ DeliverRequest(b, entry.header)
         /\ IF entry.type = "Callback"
              THEN entries' = [entries EXCEPT ![b][i].state = "WaitForResponse"]
              ELSE RemoveEntry(b, i)
  /\ GoOnAt(b, i)
  /\ UNCHANGED << log, backlog, acked, outcomes >>

(* The requests that a response to an inner component answers: behind it,   *)
(* where requests are appended.  And a mutant that looks at one too few.    *)
AnsweredByLater(b, i) ==
  {j \in DOMAIN entries[b] :
     /\ j > i + 1
     /\ entries[b][j].header.type = "REQUEST"
     /\ entries[b][j].state # "TransmissionPending"
     /\ HeaderFits(entries[b][j], entries[b][i].header)}

AnsweredBy(b, i) ==
  {j \in DOMAIN entries[b] :
     /\ j > i
     /\ entries[b][j].header.type = "REQUEST"
     /\ entries[b][j].state # "TransmissionPending"
     /\ HeaderFits(entries[b][j], entries[b][i].header)}

(* sendMessageToInnerComponent() of a response.                             *)
InnerResponse(b, i) ==
  /\ LooksAt(b, i, "TransmissionPending")
  /\ LET header == entries[b][i].header
     IN  /\ header.type # "REQUEST"
         /\ IsComponentAvailable(b, header.destination)
         /\ IF AnsweredBy(b, i) = {}
              THEN RemoveEntry(b, i) /\ UNCHANGED outcomes
              ELSE LET j == Min(AnsweredBy(b, i))
                   IN  /\ entries' =
                            [entries EXCEPT ![b] = RemoveAt(RemoveAt(@, j), i)]
                       /\ Answered(entries[b][j], header, header.type)
         /\ delivered' = [delivered EXCEPT ![header.msg] = @ + 1]
  /\ GoOnAt(b, i)
  /\ UNCHANGED << log, backlog, handles, acked >>

(* The destination is not on this board.                                    *)
Transmit(b, i) ==
  /\ LooksAt(b, i, "TransmissionPending")
  /\ LET header == entries[b][i].header
     IN  /\ header.destination # Everyone
         /\ ~IsComponentAvailable(b, header.destination)
         /\ SendPacket(b, header, backlog)
  /\ entries' = [entries EXCEPT ![b][i].state = "WaitForACK"]
  /\ GoOnAt(b, i + 1)
  /\ UNCHANGED << log, handles, delivered, acked, outcomes >>

(* The last try is over.  And a mutant with one try more.                   *)
TriesUsedLate(entry) == entry.tries >= 3

TriesUsed(entry) == entry.tries >= 2

(* acknowledgeTimeout has passed.                                           *)
Retransmit(b, i) ==
  /\ LooksAt(b, i, "WaitForACK")
  /\ ~TriesUsed(entries[b][i])
  /\ SendPacket(b, entries[b][i].header, backlog)
  /\ entries' = [entries EXCEPT ![b][i].tries = @ + 1]
  /\ GoOnAt(b, i + 1)
  /\ UNCHANGED << log, handles, delivered, acked, outcomes >>

TimeOut(b, i) ==
  /\ LooksAt(b, i, "WaitForACK")
  /\ TriesUsed(entries[b][i])
  /\ Answered(entries[b][i], entries[b][i].header, "TIMEOUT")
  /\ RemoveEntry(b, i)
  /\ GoOnAt(b, i)
  /\ UNCHANGED << log, backlog, handles, delivered, acked >>

HandleWaitingMessages(b) ==
  \E i \in 1..MaxMessages :
    \/ PublishEvent(b, i)
    \/ InnerRequest(b, i)
    \/ InnerResponse(b, i)
    \/ Transmit(b, i)
    \/ Retransmit(b, i)
    \/ TimeOut(b, i)

-----------------------------------------------------------------------------
XpccNext ==
  \/ \E call \in ActionCalls : AddMessage(call)
  \/ \E b \in Boards :
       \/ \E request \in handles[b] : AddResponse(b, request)
       \/ UpdateOnceRx(b)
       \/ HandleWaitingMessages(b)

(* Every board calls update() again and again, and every time is up.        *)
XpccFairness ==
  \A b \in Boards :
    /\ WF_xpccVars(UpdateOnceRx(b))
    /\ WF_xpccVars(HandleWaitingMessages(b))

XpccSpec == XpccInit /\ [][XpccNext]_xpccVars /\ XpccFairness

-----------------------------------------------------------------------------
SameHeader(m, k) ==
  /\ log[m].source = log[k].source
  /\ log[m].destination = log[k].destination
  /\ log[m].packetIdentifier = log[k].packetIdentifier

Made == DOMAIN log

(* The callback of a call is called at most once, whatever is lost, sent    *)
(* again or late: with a response or with TIMEOUT, never with both.         *)
CallbackOnce == \A m \in Made : Len(outcomes[m]) <= 1

(* Lost acknowledges make an action run again, but at most twice more.      *)
ExecutionsBounded == \A m \in Made : delivered[m] <= 3

(* What the sender takes for acknowledged has reached the dispatcher of the *)
(* destination, unless another message has the same addresses and the same  *)
(* identifier: headerFits() does not tell the two apart.                    *)
AckedIsDelivered ==
  \A m \in acked :
    delivered[m] > 0 \/ \E k \in Made \ {m} : SameHeader(m, k)

(* The same without the exception: an acknowledge fits only the message     *)
(* that it acknowledges.                                                    *)
AckFitsItsMessage == \A m \in acked : delivered[m] > 0

(* Entries are sent until they are removed or wait for a response.          *)
BeingSent ==
  \E b \in Boards : \E i \in DOMAIN entries[b] :
    entries[b][i].state # "WaitForResponse"

(* Nothing is sent for ever, on a bus that loses everything either: when    *)
(* the applications make no more messages, the boards fall silent.          *)
SendingEnds == BeingSent ~> ~BeingSent

(* A request does not wait any more when its response has been delivered,   *)
(* on one board or over the bus, unless another message has its header.     *)
AnswerEndsWaiting ==
  \A m, r \in Made :
    /\ log[m].type = "REQUEST" /\ log[r].type # "REQUEST"
    /\ HeaderFits([header |-> log[m]], log[r])
    /\ delivered[r] > 0
    /\ \A k \in Made \ {m} : ~SameHeader(m, k)
    => ~\E b \in Boards : \E i \in DOMAIN entries[b] :
         entries[b][i].header.msg = m
=============================================================================
