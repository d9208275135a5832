---------------------------- MODULE RabbitDelivery ----------------------------
(***************************************************************************)
(* providers/rabbitmq/consumer: the loop of subscribe that hands each      *)
(* delivery to Subscriber.Consume and acknowledges it, over a connection   *)
(* that loses channels and reconnects (RabbitClient).                      *)
(*                                                                         *)
(* The broker keeps a message until it is acknowledged, and delivers it    *)
(* again when the channel ends that it was delivered on.  No prefetch      *)
(* limit is set: it may deliver everything at once, and the library keeps  *)
(* the deliveries in a buffer.                                             *)
(***************************************************************************)
EXTENDS RabbitClient, Sequences, SequencesExt

CONSTANT MaxMessages \* bound: messages in the queue

ASSUME DeliveryAssumption == MaxMessages \in Nat

(* The messages in the order of the queue. *)
Message == 1..MaxMessages
NoMessage == 0

VARIABLES
  ready,   \* the messages the broker has to deliver
  unacked, \* the messages delivered on a channel, in this order, without ack
  buffer,  \* the deliveries a consumer has still to receive
  current, \* d, the delivery it is at
  stage,   \* what it does with it
  handled, \* the messages for which Subscriber.Consume has returned
  acked    \* the messages the broker has deleted

deliveryVars == <<ready, unacked, buffer, current, stage, handled, acked>>
allVars == <<vars, deliveryVars>>

DeliveryTypeOK ==
  /\ TypeOK
  /\ ready \subseteq Message
  /\ unacked \in [Chan -> Seq(Message)]
  /\ buffer \in [Consumer -> Seq(Message)]
  /\ current \in [Consumer -> Message \cup {NoMessage}]
  /\ stage \in [Consumer -> {"select", "consume", "ack"}]
  /\ handled \subseteq Message
  /\ acked \subseteq Message

DeliveryInit ==
  /\ Init
  /\ ready = Message
  /\ unacked = [ch \in Chan |-> <<>>]
  /\ buffer = [c \in Consumer |-> <<>>]
  /\ current = [c \in Consumer |-> NoMessage]
  /\ stage = [c \in Consumer |-> "select"]
  /\ handled = {}
  /\ acked = {}

-----------------------------------------------------------------------------
(* The broker and the library *)

Receiving(c) == subscribed[c] = "receive" /\ held[c] \in alive

(* The channels that a step ends give their messages back. *)
Requeued ==
  /\ unacked' = [ch \in Chan |-> IF ch \in alive' THEN unacked[ch] ELSE <<>>]
  /\ ready' = ready \cup UNION {ToSet(unacked[ch]) : ch \in Chan \ alive'}

(* The next message of the queue; one that came back has its old place. *)
Deliver(c) ==
  /\ Receiving(c)
  /\ \E m \in ready :
       /\ \A n \in ready : m <= n
       /\ ready' = ready \ {m}
       /\ unacked' = [unacked EXCEPT ![held[c]] = Append(@, m)]
       /\ buffer' = [buffer EXCEPT ![c] = Append(@, m)]
  /\ UNCHANGED <<vars, current, stage, handled, acked>>

-----------------------------------------------------------------------------
(* The loop of subscribe *)

Received(c, next) ==
  /\ subscribed[c] = "receive"
  /\ stage[c] = "select"
  /\ buffer[c] # <<>>
  /\ current' = [current EXCEPT ![c] = Head(buffer[c])]
  /\ buffer' = [buffer EXCEPT ![c] = Tail(buffer[c])]
  /\ stage' = [stage EXCEPT ![c] = next]
  /\ UNCHANGED <<vars, ready, unacked, handled, acked>>

(* Mutant: the delivery is acknowledged before it is consumed. *)
ReceiveAcksFirst(c) == Received(c, "ack")

(* case d, ok := <-msg *)
Receive(c) == Received(c, "consume")

(* subscriber.Consume returns; its error is only logged. *)
Handle(c) ==
  /\ stage[c] = "consume"
  /\ handled' = handled \cup {current[c]}
  /\ stage' = [stage EXCEPT ![c] = "ack"]
  /\ UNCHANGED <<vars, ready, unacked, buffer, current, acked>>

(* The place of m among the messages delivered on ch. *)
UpTo(ch, m) == Min({n \in 1..Len(unacked[ch]) : unacked[ch][n] = m})

(* d.Ack(true): with the delivery, all earlier ones of its channel are     *)
(* acknowledged, whoever received them.  On a channel that has ended it    *)
(* fails, which is logged; one that an earlier Ack has covered changes     *)
(* nothing, and the exception it raises is a LoseChannel.                  *)
Ack(c) ==
  /\ stage[c] = "ack"
  /\ LET ch == held[c]
         n == UpTo(ch, current[c]) IN
     IF ch \in alive /\ current[c] \in ToSet(unacked[ch])
     THEN /\ acked' = acked \cup ToSet(SubSeq(unacked[ch], 1, n))
          /\ unacked' = [unacked EXCEPT ![ch] = SubSeq(@, n + 1, Len(@))]
     ELSE UNCHANGED <<acked, unacked>>
  /\ current' = [current EXCEPT ![c] = NoMessage]
  /\ stage' = [stage EXCEPT ![c] = "select"]
  /\ UNCHANGED <<vars, ready, buffer, handled>>

(* Mutant: after it subscribed again the consumer goes on with the         *)
(* deliveries of the channel that has ended.                               *)
ConsumerKeepsDeliveries(c) ==
  /\ \/ ConsumerDeclares(c) \/ ConsumerGetsChannel(c) \/ Consume(c) \/ ConsumerPanics(c)
     \/ stage[c] = "select" /\ (DeliveriesEnd(c) \/ ConsumerStops(c))
  /\ Requeued
  /\ UNCHANGED <<buffer, current, stage, handled, acked>>

(* A step of a consumer in RabbitClient.  It leaves the loop only from   *)
(* the select, and forgets what is in the buffer: the library drops that,  *)
(* sooner or later, when the channel ends.                                 *)
ConsumerGoesOn(c) ==
  /\ \/ ConsumerDeclares(c) \/ ConsumerGetsChannel(c) \/ Consume(c) \/ ConsumerPanics(c)
     \/ stage[c] = "select" /\ (DeliveriesEnd(c) \/ ConsumerStops(c))
  /\ Requeued
  /\ buffer' = IF subscribed[c] = "receive" THEN [buffer EXCEPT ![c] = <<>>] ELSE buffer
  /\ UNCHANGED <<current, stage, handled, acked>>

Delivering(c) == Receive(c) \/ Handle(c) \/ Ack(c) \/ ConsumerGoesOn(c)

-----------------------------------------------------------------------------
(* The whole *)

Beside(A) == A /\ Requeued /\ UNCHANGED <<buffer, current, stage, handled, acked>>

DeliveryNext ==
  /\ ~crashed
  /\ \/ Beside(ConnStep /\ UNCHANGED <<publisherVars, subscribed>>)
     \/ \E t \in Sender : Beside(SendMessage(t) \/ Sending(t))
     \/ \E c \in Consumer : Beside(Subscribe(c)) \/ Delivering(c) \/ Deliver(c)

(* As in RabbitClient; besides, the broker delivers what it has. *)
DeliveryFairness ==
  LET Live(A) == ~crashed /\ Beside(A /\ UNCHANGED <<publisherVars, subscribed>>) IN
  /\ WF_allVars(Live(WatcherStep))
  /\ SF_allVars(Live(WatcherLocks))
  /\ WF_allVars(Live(\E ch \in Chan : ChanStep(ch)))
  /\ WF_allVars(Live(CloseStep))
  /\ \A t \in Sender : SF_allVars(~crashed /\ Beside(Sending(t)))
  /\ \A c \in Consumer :
       SF_allVars(~crashed /\ Delivering(c)) /\ WF_allVars(~crashed /\ Deliver(c))

DeliverySpec == DeliveryInit /\ [][DeliveryNext]_allVars /\ DeliveryFairness

-----------------------------------------------------------------------------
(* Properties *)

(* The consumers have pool keys of their own.  Nothing in the code sees to *)
(* it: two consumers of one queue without a name share a channel.          *)
OwnChannels == \A c, d \in Consumer : ConKey[c] = ConKey[d] => c = d

(* At least once: whatever is lost and delivered again, the broker deletes *)
(* a message only after Subscriber.Consume has returned for it, although   *)
(* each Ack covers all earlier deliveries of the channel.                  *)
AckedWasHandled == acked \subseteq handled

(* No message gets lost or doubled: each is ready, or on its way on one    *)
(* channel, once, or deleted, however channels end under the consumers.    *)
NothingIsLost ==
  /\ Message = ready \cup acked \cup UNION {ToSet(unacked[ch]) : ch \in Chan}
  /\ ready \cap acked = {}
  /\ \A ch \in Chan :
       /\ IsInjective(unacked[ch])
       /\ ToSet(unacked[ch]) \cap (ready \cup acked) = {}
       /\ \A other \in Chan \ {ch} : ToSet(unacked[ch]) \cap ToSet(unacked[other]) = {}

(* The loop of subscribe is a consumer of an at-least-once queue: although *)
(* Ack(true) asks for all deliveries of a channel, each step deletes one   *)
(* message at most, and that one was handled.                              *)
Queue == INSTANCE AbstractQueue WITH
  Link <- Chan, taken <- [ch \in Chan |-> ToSet(unacked[ch])], deleted <- acked
ImplementsQueue == Queue!Spec

(* A channel exception ended the service channel. *)
ServiceGone == conn = "up" /\ service = "lost"

(* After losses of connection or channel a subscribed consumer goes on     *)
(* until every message is handled and deleted, unless the program is       *)
(* stopping or the service channel was lost without its connection, which  *)
(* nothing reopens.                                                        *)
MessagesGetDone ==
  \A c \in Consumer, m \in Message :
    subscribed[c] \notin {"idle", "done"}
      ~> (m \in acked \/ ServiceGone \/ isClosed \/ ctxDone \/ crashed)
=============================================================================
