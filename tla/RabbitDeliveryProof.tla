------------------------- MODULE RabbitDeliveryProof -------------------------
(***************************************************************************)
(* Theorems about the deliveries of RabbitDelivery, for any number of      *)
(* consumers, messages, channels, losses and reconnect attempts: no        *)
(* message is lost, and consumers with channels of their own take part in  *)
(* an at-least-once queue.                                                 *)
(***************************************************************************)
EXTENDS RabbitDelivery, RabbitClientProof, SequenceTheorems

(* The types of the variables of this module. *)
DeliveryTypes ==
  /\ ready \subseteq Message
  /\ unacked \in [Chan -> Seq(Message)]
  /\ buffer \in [Consumer -> Seq(Message)]
  /\ current \in [Consumer -> Message \cup {NoMessage}]
  /\ stage \in [Consumer -> {"select", "consume", "ack"}]
  /\ handled \subseteq Message
  /\ acked \subseteq Message

(* The broker has taken back what was delivered on a channel that ended. *)
EndedIsEmpty == \A ch \in Chan : ch \notin alive => unacked[ch] = <<>>

(* A delivery at hand keeps the consumer in its loop, and is handled       *)
(* before its Ack.                                                         *)
AtWork(c) ==
  /\ stage[c] # "select" => subscribed[c] = "receive" /\ current[c] \in Message
  /\ stage[c] = "ack" => current[c] \in handled
  /\ subscribed[c] # "receive" => buffer[c] = <<>>

(* What holds whatever keys the consumers have. *)
DeliveryInv ==
  /\ HoldInv
  /\ DeliveryTypes
  /\ EndedIsEmpty
  /\ NothingIsLost
  /\ \A c \in Consumer : AtWork(c)

(* Without ack are the delivery a consumer is at, and then what is in its  *)
(* buffer: so Ack(true) covers just that delivery.                         *)
InOrder(c) ==
  /\ stage[c] = "select" => unacked[held[c]] = buffer[c]
  /\ stage[c] # "select" =>
       /\ unacked[held[c]] # <<>>
       /\ Head(unacked[held[c]]) = current[c]
       /\ Tail(unacked[held[c]]) = buffer[c]

(* Of the channels with its key only the one a consumer receives on has    *)
(* messages, until the consumer returns for good.                          *)
OthersAreEmpty(c) ==
  \A ch \in Chan :
    KeyOf(ch) = ConKey[c] =>
      \/ subscribed[c] = "done"
      \/ subscribed[c] = "receive" /\ held[c] = ch
      \/ unacked[ch] = <<>>

(* What holds besides when the consumers have channels of their own. *)
LoopInv ==
  /\ \A c \in Consumer : OthersAreEmpty(c) /\ (Receiving(c) => InOrder(c))
  /\ AckedWasHandled

-----------------------------------------------------------------------------
(* The deliveries and the connection. *)

(* Every step is one of RabbitClient or leaves its variables alone. *)
LEMMA StepOfClient == DeliveryNext => [Next]_vars
<1> SUFFICES ASSUME DeliveryNext PROVE [Next]_vars
  OBVIOUS
<1>1. CASE ~crashed /\ Beside(ConnStep /\ UNCHANGED <<publisherVars, subscribed>>)
  BY <1>1 DEF Beside, Next
<1>2. ASSUME ~crashed, NEW t \in Sender, Beside(SendMessage(t) \/ Sending(t))
      PROVE  [Next]_vars
  BY <1>2 DEF Beside, Next
<1>3. ASSUME ~crashed, NEW c \in Consumer,
             Beside(Subscribe(c)) \/ Delivering(c) \/ Deliver(c)
      PROVE  [Next]_vars
  <2>1. CASE Beside(Subscribe(c))
    BY <1>3, <2>1 DEF Beside, Next
  <2>2. CASE ConsumerGoesOn(c)
    BY <1>3, <2>2 DEF ConsumerGoesOn, Consuming, Next
  <2>3. CASE Receive(c) \/ Handle(c) \/ Ack(c) \/ Deliver(c)
    BY <2>3 DEF Receive, Received, Handle, Ack, Deliver
  <2>4. QED
    BY <1>3, <2>1, <2>2, <2>3 DEF Delivering
<1>4. QED
  BY <1>1, <1>2, <1>3 DEF DeliveryNext

(* NewConsumer and the queue before the first delivery. *)
LEMMA DeliveryBegins == DeliveryInit => DeliveryInv /\ LoopInv
<1> SUFFICES ASSUME DeliveryInit PROVE DeliveryInv /\ LoopInv
  OBVIOUS
<1> USE DEF DeliveryInit
<1>1. HoldInv
  BY HoldInit
<1>2. DeliveryTypes
  <2>1. unacked \in [Chan -> Seq(Message)] /\ buffer \in [Consumer -> Seq(Message)]
    BY EmptySeq
  <2>2. stage \in [Consumer -> {"select", "consume", "ack"}]
    OBVIOUS
  <2>3. current \in [Consumer -> Message \cup {NoMessage}]
    OBVIOUS
  <2>4. QED
    BY <2>1, <2>2, <2>3 DEF DeliveryTypes
<1>3. EndedIsEmpty /\ AckedWasHandled
  BY DEF EndedIsEmpty, AckedWasHandled
<1>4. \A c \in Consumer : subscribed[c] = "idle" /\ stage[c] = "select" /\ buffer[c] = <<>>
  BY DEF Init
<1>5. \A c \in Consumer : AtWork(c) /\ OthersAreEmpty(c) /\ ~Receiving(c)
  BY <1>4 DEF AtWork, OthersAreEmpty, Receiving
<1>6. NothingIsLost
  <2>1. \A ch \in Chan : ToSet(unacked[ch]) = {} /\ IsInjective(unacked[ch])
    BY EmptySeq DEF ToSet, IsInjective
  <2>2. QED
    BY <2>1 DEF NothingIsLost
<1>7. QED
  BY <1>1, <1>2, <1>3, <1>5, <1>6 DEF DeliveryInv, LoopInv

(* The connection, its watchers and Close open no channel. *)
LEMMA ConnectionOpensNothing ==
  ASSUME RabbitInv, ConnStep
  PROVE  held' = held /\ alive' \subseteq alive
<1> USE DEF links, locks, watchers, closer
<1>1. CASE Connect \/ Cancel \/ LoseConnection \/ LoseService
  BY <1>1 DEF Connect, Cancel, LoseConnection, LinksEnd, LoseService
<1>2. ASSUME NEW ch \in Chan, LoseChannel(ch) \/ ChanStep(ch)
      PROVE  held' = held /\ alive' \subseteq alive
  BY <1>2 DEF LoseChannel, ChanStep, ChanLoops, ChanDeletes, ChanDeleteRaces, ChanGoes, Panic
<1>3. CASE WatcherStep \/ WatcherLocks
  BY <1>3 DEF WatcherStep, WatcherLocks, StartsDialing, WatcherLoops, WatcherSeesLoss,
     WatcherGoes, DialFails, DialLoses, DialSucceeds, DialGivesUp,
     NoAttemptsLeft, Panic
<1>4. CASE CloseLocks \/ CloseStep
  BY <1>4 DEF CloseLocks, CloseBegins, CloseStep, CloseChannel, CloseFails, ClosePanics,
     CloseConn, LinksEnd, Panic
<1>5. QED
  BY <1>1, <1>2, <1>3, <1>4 DEF ConnStep

(* A new channel is none that anybody works with. *)
LEMMA NewIsUnused ==
  ASSUME RabbitInv, NEW u \in User, NEW k \in Key, NewChannel(u, k)
  PROVE  \E ch \in Chan :
           /\ ch \notin alive
           /\ alive' = alive \cup {ch}
           /\ \A v \in User : held[v] # ch
           /\ held' = [held EXCEPT ![u] = ch]
BY ChanFacts DEF NewChannel, Unused

-----------------------------------------------------------------------------
(* Sequences of messages. *)

LEMMA ToSetRange ==
  ASSUME NEW s \in Seq(Message)
  PROVE  /\ ToSet(s) = {s[i] : i \in 1..Len(s)} /\ ToSet(s) \subseteq Message
         /\ Len(s) \in Nat
         /\ IsInjective(s) <=> \A i, j \in 1..Len(s) : s[i] = s[j] => i = j
BY LenProperties, ElementOfSeq DEF ToSet, IsInjective

LEMMA ToSetEmpty == ToSet(<<>>) = {} /\ IsInjective(<<>>)
BY EmptySeq DEF ToSet, IsInjective

(* A message put behind others that it is none of. *)
LEMMA AppendDistinct ==
  ASSUME NEW s \in Seq(Message), NEW m \in Message \ ToSet(s), IsInjective(s)
  PROVE  /\ Append(s, m) \in Seq(Message)
         /\ ToSet(Append(s, m)) = ToSet(s) \cup {m}
         /\ IsInjective(Append(s, m))
<1> DEFINE t == Append(s, m)
<1>1. /\ t \in Seq(Message) /\ Len(s) \in Nat /\ Len(t) = Len(s) + 1
      /\ \A i \in 1..Len(s) : t[i] = s[i]
      /\ t[Len(s) + 1] = m
  BY AppendProperties, LenProperties
<1> HIDE DEF t
<1>2. ToSet(t) = ToSet(s) \cup {m}
  <2>1. ToSet(t) = {t[i] : i \in 1..(Len(s) + 1)} /\ ToSet(s) = {s[i] : i \in 1..Len(s)}
    BY <1>1, ToSetRange
  <2>2. 1..(Len(s) + 1) = (1..Len(s)) \cup {Len(s) + 1}
    BY <1>1
  <2>3. QED
    BY <1>1, <2>1, <2>2
<1>3. IsInjective(t)
  <2>1. \A i \in 1..Len(s) : t[i] # m
    BY <1>1, ToSetRange
  <2>2. \A i, j \in 1..Len(s) : t[i] = t[j] => i = j
    BY <1>1, ToSetRange
  <2>3. \A i \in 1..(Len(s) + 1) : i \in 1..Len(s) \/ i = Len(s) + 1
    BY <1>1
  <2>4. \A i, j \in 1..(Len(s) + 1) : t[i] = t[j] => i = j
    BY <1>1, <2>1, <2>2, <2>3
  <2>5. QED
    BY <1>1, <2>4, ToSetRange
<1>4. QED
  BY <1>1, <1>2, <1>3 DEF t

(* Cutting a sequence in two keeps all its messages. *)
LEMMA CutDistinct ==
  ASSUME NEW s \in Seq(Message), NEW n \in 1..Len(s), IsInjective(s)
  PROVE  /\ SubSeq(s, n + 1, Len(s)) \in Seq(Message)
         /\ IsInjective(SubSeq(s, n + 1, Len(s)))
         /\ ToSet(SubSeq(s, 1, n)) \cap ToSet(SubSeq(s, n + 1, Len(s))) = {}
         /\ ToSet(SubSeq(s, 1, n)) \cup ToSet(SubSeq(s, n + 1, Len(s))) = ToSet(s)
<1> DEFINE l == Len(s)
           a == SubSeq(s, 1, n)
           b == SubSeq(s, n + 1, l)
<1>1. l \in Nat /\ n \in Nat /\ 1 <= n /\ n <= l /\ \A i \in 1..l : s[i] \in Message
  BY LenProperties, ElementOfSeq
<1>2. a \in Seq(Message) /\ Len(a) = n /\ \A i \in 1..n : a[i] = s[i]
  <2>1. \A i \in 1..n : s[i] \in Message
    BY <1>1
  <2>2. \A i \in 1..(n - 1 + 1) : a[i] = s[1 + i - 1]
    BY <1>1, <2>1, SubSeqProperties
  <2>3. a \in Seq(Message) /\ Len(a) = n - 1 + 1
    BY <1>1, <2>1, SubSeqProperties
  <2>4. QED
    BY <1>1, <2>2, <2>3
<1>3. b \in Seq(Message) /\ Len(b) = l - n /\ \A i \in 1..(l - n) : b[i] = s[n + i]
  <2>1. \A i \in (n + 1)..l : s[i] \in Message
    BY <1>1
  <2>2. \A i \in 1..(l - (n + 1) + 1) : b[i] = s[(n + 1) + i - 1]
    BY <1>1, <2>1, SubSeqProperties
  <2>3. b \in Seq(Message) /\ Len(b) = IF n + 1 <= l THEN l - (n + 1) + 1 ELSE 0
    BY <1>1, <2>1, SubSeqProperties
  <2>4. QED
    BY <1>1, <2>2, <2>3
<1>4. \A i, j \in 1..l : s[i] = s[j] => i = j
  BY ToSetRange
<1> HIDE DEF a, b
<1>5. ToSet(a) = {s[i] : i \in 1..n}
  BY <1>2, ToSetRange
<1>6. ToSet(b) = {s[i] : i \in (n + 1)..l}
  <2>1. ToSet(b) = {s[n + i] : i \in 1..(l - n)}
    <3>1. ToSet(b) = {b[i] : i \in 1..(l - n)}
      BY <1>3, ToSetRange
    <3>2. QED
      BY <1>3, <3>1
  <2>2. \A i \in (n + 1)..l : i - n \in 1..(l - n) /\ n + (i - n) = i
    BY <1>1
  <2>3. \A i \in 1..(l - n) : n + i \in (n + 1)..l
    BY <1>1
  <2>4. QED
    BY <2>1, <2>2, <2>3
<1>7. ToSet(s) = {s[i] : i \in 1..l}
  BY ToSetRange
<1>8. IsInjective(b)
  <2>1. \A i \in 1..(l - n) : n + i \in 1..l
    BY <1>1
  <2>2. \A i, j \in 1..(l - n) : b[i] = b[j] => i = j
    BY <1>1, <1>3, <1>4, <2>1
  <2>3. QED
    BY <1>3, <2>2, ToSetRange
<1>9. /\ \A i \in 1..l : i \in 1..n \/ i \in (n + 1)..l
      /\ \A i \in 1..n : i \in 1..l /\ i \notin (n + 1)..l
      /\ \A i \in (n + 1)..l : i \in 1..l
  BY <1>1
<1>10. ToSet(a) \cap ToSet(b) = {} /\ ToSet(a) \cup ToSet(b) = ToSet(s)
  BY <1>4, <1>5, <1>6, <1>7, <1>9
<1>11. QED
  BY <1>3, <1>8, <1>10 DEF a, b

(* A message has one place among the deliveries of its channel. *)
LEMMA PlaceOf ==
  ASSUME NEW ch \in Chan, unacked[ch] \in Seq(Message), IsInjective(unacked[ch]),
         NEW i \in 1..Len(unacked[ch])
  PROVE  UpTo(ch, unacked[ch][i]) = i
<1> DEFINE s == unacked[ch]
           I == {n \in 1..Len(s) : s[n] = s[i]}
<1>1. \A n \in I : n = i
  BY ToSetRange
<1>2. i \in I /\ i \in Int
  BY LenProperties
<1>3. \A x \in I : (\A y \in I : x <= y) => x = i
  BY <1>1
<1>4. \A y \in I : i <= y
  BY <1>1, <1>2
<1>5. Min(I) = i
  BY <1>2, <1>3, <1>4 DEF Min
<1>6. QED
  BY <1>5 DEF UpTo

-----------------------------------------------------------------------------
(* Channels end, and their messages are ready again. *)
LEMMA RequeuedKeeps ==
  ASSUME DeliveryTypes, NothingIsLost, Requeued, acked' = acked
  PROVE  /\ ready' \subseteq Message
         /\ unacked' \in [Chan -> Seq(Message)]
         /\ EndedIsEmpty'
         /\ NothingIsLost'
         /\ \A ch \in Chan : ch \in alive' => unacked'[ch] = unacked[ch]
         /\ \A ch \in Chan : unacked[ch] = <<>> => unacked'[ch] = <<>>
<1> DEFINE T(ch) == ToSet(unacked[ch])
<1>1. \A ch \in Chan : unacked'[ch] = IF ch \in alive' THEN unacked[ch] ELSE <<>>
  BY DEF Requeued
<1>2. \A ch \in Chan : T(ch) \subseteq Message
  BY ToSetRange DEF DeliveryTypes
<1>3. ready' = ready \cup UNION {T(ch) : ch \in Chan \ alive'}
  BY DEF Requeued
<1>4. unacked' \in [Chan -> Seq(Message)]
  <2>1. \A ch \in Chan : (IF ch \in alive' THEN unacked[ch] ELSE <<>>) \in Seq(Message)
    BY EmptySeq DEF DeliveryTypes
  <2>2. QED
    BY <2>1 DEF Requeued
<1>5. \A ch \in Chan : ToSet(unacked'[ch]) = IF ch \in alive' THEN T(ch) ELSE {}
  BY <1>1, ToSetEmpty
<1> HIDE DEF T
<1>6. /\ Message = ready \cup acked \cup UNION {T(ch) : ch \in Chan}
      /\ ready \cap acked = {}
      /\ \A ch \in Chan : /\ T(ch) \cap ready = {} /\ T(ch) \cap acked = {}
                         /\ \A other \in Chan \ {ch} : T(ch) \cap T(other) = {}
  BY DEF NothingIsLost, T
<1>7. Message = ready' \cup acked \cup UNION {ToSet(unacked'[ch]) : ch \in Chan}
  <2>1. ASSUME NEW m \in Message PROVE m \in ready' \cup acked \cup UNION {ToSet(unacked'[ch]) : ch \in Chan}
    BY <1>3, <1>5, <1>6
  <2>2. ready' \subseteq Message /\ acked \subseteq Message
    BY <1>2, <1>3 DEF DeliveryTypes
  <2>3. \A ch \in Chan : ToSet(unacked'[ch]) \subseteq Message
    BY <1>2, <1>5
  <2>4. QED
    BY <2>1, <2>2, <2>3
<1>8. ready' \cap acked = {}
  BY <1>3, <1>6
<1>9. ASSUME NEW ch \in Chan
      PROVE  /\ IsInjective(unacked'[ch])
             /\ ToSet(unacked'[ch]) \cap (ready' \cup acked) = {}
             /\ \A other \in Chan \ {ch} : ToSet(unacked'[ch]) \cap ToSet(unacked'[other]) = {}
  <2>1. IsInjective(unacked'[ch])
    BY <1>1, ToSetEmpty DEF NothingIsLost
  <2>2. ASSUME ch \in alive' PROVE T(ch) \cap ready' = {}
    BY <1>3, <1>6, <2>2
  <2>3. ToSet(unacked'[ch]) \cap (ready' \cup acked) = {}
    BY <1>5, <1>6, <2>2
  <2>4. \A other \in Chan \ {ch} : ToSet(unacked'[ch]) \cap ToSet(unacked'[other]) = {}
    BY <1>5, <1>6
  <2>5. QED
    BY <2>1, <2>3, <2>4
<1>10. NothingIsLost'
  BY <1>7, <1>8, <1>9 DEF NothingIsLost
<1>11. ready' \subseteq Message
  BY <1>2, <1>3 DEF DeliveryTypes
<1>12. QED
  BY <1>1, <1>4, <1>10, <1>11 DEF EndedIsEmpty

(* A sender works with a channel of its own choice only. *)
LEMMA SenderLeavesConsumer ==
  ASSUME RabbitInv, NEW t \in Sender, NEW c \in Consumer, SendMessage(t) \/ Sending(t)
  PROVE  /\ held'[c] = held[c] /\ subscribed' = subscribed
         /\ held[c] \notin alive => held[c] \notin alive'
<1> USE DEF connVars, links, locks, watchers, closer, publisherVars
<1>1. c # t /\ t \in User /\ c \in User /\ held \in [User -> Chan \cup {NoChan}] /\ PubKey \in Key
  BY ClientAssumption, UserFacts DEF RabbitInv, ConnInv, ConnTypeOK
<1>2. CASE SendMessage(t) \/ CheckConnected(t) \/ ConnectLocks(t) \/ PublishFails(t)
  BY <1>2 DEF SendMessage, CheckConnected, ConnectLocks, PublishFails
<1>3. CASE DeclareExchange(t) \/ SenderPanics(t)
  BY <1>3 DEF DeclareExchange, Declared, NotDeclared, SenderPanics, DeclarePanics,
     ChannelPanics, Panic
<1>4. CASE Publish(t)
  BY <1>1, <1>4 DEF Publish, UseChannel
<1>5. CASE GetPublishChannel(t)
  <2>1. subscribed' = subscribed
    BY <1>5 DEF GetPublishChannel
  <2>2. CASE PooledChannel(t, PubKey) \/ NoNewChannel(PubKey)
    BY <1>1, <2>1, <2>2 DEF PooledChannel, NoNewChannel
  <2>3. CASE NewChannel(t, PubKey)
    BY <1>1, <2>1, <2>3, NewIsUnused
  <2>4. QED
    BY <1>5, <2>2, <2>3 DEF GetPublishChannel
<1>6. QED
  BY <1>2, <1>3, <1>4, <1>5 DEF Sending

(* So does a consumer: it leaves the others alone. *)
LEMMA ConsumerLeavesOthers ==
  ASSUME RabbitInv, NEW c \in Consumer, NEW d \in Consumer \ {c}, Subscribe(c) \/ Consuming(c)
  PROVE  /\ held'[d] = held[d] /\ subscribed'[d] = subscribed[d]
         /\ held[d] \notin alive => held[d] \notin alive'
<1> USE DEF connVars, links, locks, watchers, closer
<1>1. /\ c \in User /\ d \in User /\ ConKey[c] \in Key
      /\ held \in [User -> Chan \cup {NoChan}]
      /\ subscribed \in [Consumer -> {"idle", "declare", "get", "consume", "receive", "done"}]
  BY UserFacts DEF RabbitInv, ConnInv, ConnTypeOK, ClientTypeOK
<1>2. CASE Subscribe(c)
  BY <1>1, <1>2 DEF Subscribe, At
<1>3. CASE ConsumerDeclares(c) \/ ConsumerPanics(c)
  BY <1>1, <1>3 DEF ConsumerDeclares, Declared, NotDeclared, ConsumerPanics, DeclarePanics,
     ChannelPanics, Panic, At
<1>4. CASE Consume(c) \/ DeliveriesEnd(c) \/ ConsumerStops(c)
  BY <1>1, <1>4 DEF Consume, UseChannel, DeliveriesEnd, ConsumerStops, DropChannel, At
<1>5. CASE ConsumerGetsChannel(c)
  <2>1. subscribed'[d] = subscribed[d]
    BY <1>1, <1>5 DEF ConsumerGetsChannel, At
  <2>2. CASE PooledChannel(c, ConKey[c]) \/ NoNewChannel(ConKey[c])
    BY <1>1, <2>1, <2>2 DEF PooledChannel, NoNewChannel
  <2>3. CASE NewChannel(c, ConKey[c])
    BY <1>1, <2>1, <2>3, NewIsUnused
  <2>4. QED
    BY <1>5, <2>2, <2>3 DEF ConsumerGetsChannel
<1>6. QED
  BY <1>2, <1>3, <1>4, <1>5 DEF Consuming

-----------------------------------------------------------------------------
(* Every step keeps DeliveryInv, whatever keys the consumers have. *)

(* A step of the connection, of a sender, or of Subscribe. *)
LEMMA OthersKeep ==
  ASSUME DeliveryInv, HoldInv', Requeued,
         UNCHANGED <<buffer, current, stage, handled, acked>>,
         \A c \in Consumer :
           \/ subscribed'[c] = subscribed[c]
           \/ subscribed[c] = "idle" /\ subscribed'[c] = "declare"
  PROVE  DeliveryInv'
<1>1. DeliveryTypes' /\ EndedIsEmpty' /\ NothingIsLost'
  BY RequeuedKeeps DEF DeliveryInv, DeliveryTypes
<1>2. ASSUME NEW c \in Consumer PROVE AtWork(c)'
  BY DEF DeliveryInv, AtWork
<1>3. QED
  BY <1>1, <1>2 DEF DeliveryInv

(* A consumer gets into its loop or out of it. *)
LEMMA GoingOnKeeps ==
  ASSUME DeliveryInv, HoldInv', NEW c \in Consumer, ConsumerGoesOn(c)
  PROVE  DeliveryInv' /\ stage[c] = "select" /\ stage'[c] = "select" /\ buffer'[c] = <<>>
<1>1. Requeued /\ UNCHANGED <<current, stage, handled, acked>> /\ Consuming(c)
  BY DEF ConsumerGoesOn, Consuming
<1>2. buffer' = IF subscribed[c] = "receive" THEN [buffer EXCEPT ![c] = <<>>] ELSE buffer
  BY DEF ConsumerGoesOn
<1>3. DeliveryTypes' /\ EndedIsEmpty' /\ NothingIsLost'
  BY <1>1, <1>2, RequeuedKeeps, EmptySeq DEF DeliveryInv, DeliveryTypes
<1>4. stage[c] = "select"
  BY DEF ConsumerGoesOn, ConsumerDeclares, ConsumerGetsChannel, Consume, ConsumerPanics,
     AtWork, DeliveryInv
<1>5. buffer'[c] = <<>> /\ \A d \in Consumer \ {c} : buffer'[d] = buffer[d]
  BY <1>2 DEF AtWork, DeliveryInv, DeliveryTypes
<1>6. \A d \in Consumer \ {c} : subscribed'[d] = subscribed[d]
  BY <1>1, ConsumerLeavesOthers DEF DeliveryInv, HoldInv
<1>7. ASSUME NEW d \in Consumer PROVE AtWork(d)'
  <2>1. CASE d = c
    BY <1>1, <1>4, <1>5, <2>1 DEF AtWork
  <2>2. CASE d # c
    BY <1>1, <1>5, <1>6, <2>2 DEF AtWork, DeliveryInv
  <2>3. QED
    BY <2>1, <2>2
<1>8. QED
  BY <1>1, <1>3, <1>4, <1>5, <1>7 DEF DeliveryInv

(* The loop changes nothing of the connection and its users. *)
LEMMA LoopFacts ==
  ASSUME DeliveryInv, UNCHANGED vars
  PROVE  /\ HoldInv' /\ UNCHANGED <<alive, held, subscribed>>
         /\ DeliveryTypes /\ EndedIsEmpty /\ NothingIsLost
         /\ \A ch \in Chan : unacked[ch] \in Seq(Message) /\ IsInjective(unacked[ch])
         /\ \A c \in Consumer :
              /\ AtWork(c) /\ buffer[c] \in Seq(Message)
              /\ subscribed[c] = "receive" => held[c] \in Chan /\ KeyOf(held[c]) = ConKey[c]
BY HoldStep DEF DeliveryInv, DeliveryTypes, NothingIsLost, HoldInv, ConsumerHolds, vars,
   connVars, links

(* The broker delivers a message. *)
LEMMA DeliverKeeps ==
  ASSUME DeliveryInv, NEW c \in Consumer, Deliver(c)
  PROVE  /\ DeliveryInv'
         /\ \E m \in Message \ ToSet(unacked[held[c]]) :
              /\ m \in ready /\ ready' = ready \ {m}
              /\ unacked'[held[c]] = Append(unacked[held[c]], m)
              /\ ToSet(unacked'[held[c]]) = ToSet(unacked[held[c]]) \cup {m}
              /\ buffer'[c] = Append(buffer[c], m)
         /\ \A ch \in Chan \ {held[c]} : unacked'[ch] = unacked[ch]
         /\ \A d \in Consumer \ {c} : buffer'[d] = buffer[d]
<1>1. PICK m \in ready :
        /\ ready' = ready \ {m}
        /\ unacked' = [unacked EXCEPT ![held[c]] = Append(@, m)]
        /\ buffer' = [buffer EXCEPT ![c] = Append(@, m)]
  BY DEF Deliver
<1>2. /\ subscribed[c] = "receive" /\ held[c] \in alive
      /\ UNCHANGED <<vars, current, stage, handled, acked>>
  BY DEF Deliver, Receiving
<1>3. /\ HoldInv' /\ UNCHANGED <<alive, held, subscribed>>
      /\ DeliveryTypes /\ EndedIsEmpty /\ NothingIsLost
      /\ \A ch \in Chan : unacked[ch] \in Seq(Message) /\ IsInjective(unacked[ch])
      /\ \A d \in Consumer : AtWork(d) /\ buffer[d] \in Seq(Message)
      /\ held[c] \in Chan
  BY <1>2, LoopFacts
<1> DEFINE h == held[c]
           T(ch) == ToSet(unacked[ch])
<1>4. m \in Message /\ m \notin T(h)
  BY <1>1, <1>3 DEF DeliveryTypes, NothingIsLost
<1>5. /\ unacked'[h] = Append(unacked[h], m)
      /\ \A ch \in Chan \ {h} : unacked'[ch] = unacked[ch]
      /\ buffer'[c] = Append(buffer[c], m)
      /\ \A d \in Consumer \ {c} : buffer'[d] = buffer[d]
  BY <1>1, <1>3 DEF DeliveryTypes
<1>6. /\ unacked'[h] \in Seq(Message) /\ IsInjective(unacked'[h])
      /\ ToSet(unacked'[h]) = T(h) \cup {m}
  BY <1>3, <1>4, <1>5, AppendDistinct
<1>7. \A ch \in Chan : ToSet(unacked'[ch]) = IF ch = h THEN T(h) \cup {m} ELSE T(ch)
  BY <1>5, <1>6
<1>8. DeliveryTypes'
  <2>1. buffer'[c] \in Seq(Message)
    BY <1>3, <1>4, <1>5, AppendProperties
  <2>2. unacked' \in [Chan -> Seq(Message)] /\ buffer' \in [Consumer -> Seq(Message)]
    BY <1>1, <1>5, <1>6, <2>1, <1>3 DEF DeliveryTypes
  <2>3. QED
    BY <1>1, <1>2, <1>3, <2>2 DEF DeliveryTypes
<1>9. EndedIsEmpty'
  BY <1>2, <1>3, <1>5 DEF EndedIsEmpty
<1>10. \A d \in Consumer : AtWork(d)'
  BY <1>2, <1>3, <1>5 DEF AtWork
<1> HIDE DEF h, T
<1>11. NothingIsLost'
  <2>1. /\ Message = ready \cup acked \cup UNION {T(ch) : ch \in Chan}
        /\ ready \cap acked = {}
        /\ \A ch \in Chan : /\ T(ch) \cap (ready \cup acked) = {} /\ IsInjective(unacked[ch])
                           /\ \A other \in Chan \ {ch} : T(ch) \cap T(other) = {}
    BY <1>3 DEF NothingIsLost, T
  <2>2. ready' = ready \ {m} /\ acked' = acked /\ m \in ready /\ h \in Chan
    BY <1>1, <1>2, <1>3 DEF h
  <2>3. Message = ready' \cup acked' \cup UNION {ToSet(unacked'[ch]) : ch \in Chan}
    BY <1>4, <1>7, <2>1, <2>2
  <2>4. ASSUME NEW ch \in Chan
        PROVE  /\ IsInjective(unacked'[ch])
               /\ ToSet(unacked'[ch]) \cap (ready' \cup acked') = {}
               /\ \A other \in Chan \ {ch} : ToSet(unacked'[ch]) \cap ToSet(unacked'[other]) = {}
    <3>1. IsInjective(unacked'[ch])
      BY <1>5, <1>6, <2>1
    <3>2. ToSet(unacked'[ch]) \cap (ready' \cup acked') = {}
      BY <1>7, <2>1, <2>2
    <3>3. ASSUME NEW other \in Chan \ {ch}
          PROVE  ToSet(unacked'[ch]) \cap ToSet(unacked'[other]) = {}
      <4>1. m \notin T(ch) /\ m \notin T(other) /\ T(ch) \cap T(other) = {}
        BY <2>1, <2>2
      <4>2. QED
        BY <1>7, <4>1
    <3>4. QED
      BY <3>1, <3>2, <3>3
  <2>5. ready' \cap acked' = {}
    BY <2>1, <2>2
  <2>6. QED
    BY <2>3, <2>4, <2>5 DEF NothingIsLost
<1>12. QED
  BY <1>1, <1>3, <1>4, <1>5, <1>7, <1>8, <1>9, <1>10, <1>11 DEF DeliveryInv, h, T

(* case d, ok := <-msg *)
LEMMA ReceiveKeeps ==
  ASSUME DeliveryInv, NEW c \in Consumer, Receive(c)
  PROVE  /\ DeliveryInv'
         /\ current'[c] = Head(buffer[c]) /\ buffer'[c] = Tail(buffer[c]) /\ stage'[c] = "consume"
         /\ \A d \in Consumer \ {c} : /\ buffer'[d] = buffer[d] /\ current'[d] = current[d]
                                      /\ stage'[d] = stage[d]
<1>1. /\ subscribed[c] = "receive" /\ stage[c] = "select" /\ buffer[c] # <<>>
      /\ UNCHANGED <<vars, ready, unacked, handled, acked>>
  BY DEF Receive, Received
<1>2. /\ HoldInv' /\ UNCHANGED <<alive, subscribed>>
      /\ DeliveryTypes /\ EndedIsEmpty /\ NothingIsLost
      /\ \A d \in Consumer : AtWork(d) /\ buffer[d] \in Seq(Message)
  BY <1>1, LoopFacts
<1>3. Head(buffer[c]) \in Message /\ Tail(buffer[c]) \in Seq(Message)
  BY <1>1, <1>2, HeadTailProperties
<1>4. /\ current'[c] = Head(buffer[c]) /\ buffer'[c] = Tail(buffer[c]) /\ stage'[c] = "consume"
      /\ \A d \in Consumer \ {c} : /\ buffer'[d] = buffer[d] /\ current'[d] = current[d]
                                   /\ stage'[d] = stage[d]
  BY <1>2 DEF Receive, Received, DeliveryTypes
<1>5. DeliveryTypes'
  BY <1>1, <1>2, <1>3 DEF Receive, Received, DeliveryTypes
<1>6. EndedIsEmpty' /\ NothingIsLost'
  BY <1>1, <1>2 DEF EndedIsEmpty, NothingIsLost
<1>7. \A d \in Consumer : AtWork(d)'
  BY <1>1, <1>2, <1>3, <1>4 DEF AtWork
<1>8. QED
  BY <1>2, <1>4, <1>5, <1>6, <1>7 DEF DeliveryInv

(* Subscriber.Consume returns. *)
LEMMA HandleKeeps ==
  ASSUME DeliveryInv, NEW c \in Consumer, Handle(c)
  PROVE  /\ DeliveryInv' /\ subscribed[c] = "receive" /\ current[c] \in Message
         /\ stage[c] = "consume" /\ stage'[c] = "ack"
         /\ \A d \in Consumer \ {c} : stage'[d] = stage[d]
<1>1. /\ stage[c] = "consume" /\ handled' = handled \cup {current[c]}
      /\ UNCHANGED <<vars, ready, unacked, buffer, current, acked>>
  BY DEF Handle
<1>2. /\ HoldInv' /\ UNCHANGED <<alive, subscribed>>
      /\ DeliveryTypes /\ EndedIsEmpty /\ NothingIsLost
      /\ \A d \in Consumer : AtWork(d)
  BY <1>1, LoopFacts
<1>3. subscribed[c] = "receive" /\ current[c] \in Message
  BY <1>1, <1>2 DEF AtWork
<1>4. stage'[c] = "ack" /\ \A d \in Consumer \ {c} : stage'[d] = stage[d]
  BY <1>2 DEF Handle, DeliveryTypes
<1>5. DeliveryTypes'
  BY <1>1, <1>2, <1>3 DEF Handle, DeliveryTypes
<1>6. EndedIsEmpty' /\ NothingIsLost'
  BY <1>1, <1>2 DEF EndedIsEmpty, NothingIsLost
<1>7. \A d \in Consumer : AtWork(d)'
  BY <1>1, <1>2, <1>3, <1>4 DEF AtWork
<1>8. QED
  BY <1>1, <1>2, <1>3, <1>4, <1>5, <1>6, <1>7 DEF DeliveryInv

(* d.Ack(true). *)
LEMMA AckKeeps ==
  ASSUME DeliveryInv, NEW c \in Consumer, Ack(c)
  PROVE  /\ DeliveryInv' /\ subscribed[c] = "receive" /\ current[c] \in handled
         /\ stage[c] = "ack" /\ stage'[c] = "select"
         /\ \A ch \in Chan \ {held[c]} : unacked'[ch] = unacked[ch]
         /\ \A d \in Consumer \ {c} : current'[d] = current[d] /\ stage'[d] = stage[d]
<1>1. stage[c] = "ack" /\ UNCHANGED <<vars, ready, buffer, handled>>
  BY DEF Ack
<1>2. /\ HoldInv' /\ UNCHANGED <<alive, subscribed>>
      /\ DeliveryTypes /\ EndedIsEmpty /\ NothingIsLost
      /\ \A ch \in Chan : unacked[ch] \in Seq(Message) /\ IsInjective(unacked[ch])
      /\ \A d \in Consumer : AtWork(d)
      /\ subscribed[c] = "receive" => held[c] \in Chan
  BY <1>1, LoopFacts
<1>3. subscribed[c] = "receive" /\ current[c] \in handled /\ held[c] \in Chan
  BY <1>1, <1>2 DEF AtWork
<1>4. /\ stage'[c] = "select"
      /\ \A d \in Consumer \ {c} : current'[d] = current[d] /\ stage'[d] = stage[d]
      /\ stage' \in [Consumer -> {"select", "consume", "ack"}]
      /\ current' \in [Consumer -> Message \cup {NoMessage}]
  BY <1>2 DEF Ack, DeliveryTypes
<1>5. \A d \in Consumer : AtWork(d)'
  BY <1>1, <1>2, <1>3, <1>4 DEF AtWork
<1> DEFINE h == held[c]
           T(ch) == ToSet(unacked[ch])
<1>6. CASE UNCHANGED <<acked, unacked>>
  <2>1. DeliveryTypes' /\ EndedIsEmpty' /\ NothingIsLost'
    BY <1>1, <1>2, <1>4, <1>6 DEF DeliveryTypes, EndedIsEmpty, NothingIsLost
  <2>2. QED
    BY <1>1, <1>2, <1>3, <1>4, <1>5, <1>6, <2>1 DEF DeliveryInv
<1>7. CASE h \in alive /\ current[c] \in T(h)
  <2>1. PICK n \in 1..Len(unacked[h]) : current[c] = unacked[h][n]
    BY <1>2, <1>3, <1>7, ToSetRange
  <2>2. UpTo(h, current[c]) = n
    BY <1>2, <1>3, <2>1, PlaceOf
  <2> DEFINE a == SubSeq(unacked[h], 1, n)
             b == SubSeq(unacked[h], n + 1, Len(unacked[h]))
  <2>3. acked' = acked \cup ToSet(a) /\ unacked' = [unacked EXCEPT ![h] = b]
    BY <1>7, <2>2 DEF Ack
  <2>4. /\ b \in Seq(Message) /\ IsInjective(b)
        /\ ToSet(a) \cap ToSet(b) = {} /\ ToSet(a) \cup ToSet(b) = T(h)
    BY <1>2, <1>3, <2>1, CutDistinct
  <2> HIDE DEF a, b, h, T
  <2>5. h \in Chan /\ \A ch \in Chan : T(ch) \subseteq Message
    BY <1>2, <1>3, ToSetRange DEF h, T
  <2>6. unacked'[h] = b /\ \A ch \in Chan \ {h} : unacked'[ch] = unacked[ch]
    BY <1>2, <2>3, <2>5 DEF DeliveryTypes
  <2>7. \A ch \in Chan : ToSet(unacked'[ch]) = IF ch = h THEN ToSet(b) ELSE T(ch)
    BY <2>6 DEF T
  <2>8. DeliveryTypes'
    <3>1. unacked' \in [Chan -> Seq(Message)]
      BY <1>2, <2>3, <2>4 DEF DeliveryTypes
    <3>2. acked' \subseteq Message
      BY <1>2, <2>3, <2>4, <2>5 DEF DeliveryTypes
    <3>3. QED
      BY <1>1, <1>2, <1>4, <3>1, <3>2 DEF DeliveryTypes
  <2>9. EndedIsEmpty'
    BY <1>2, <1>7, <2>6 DEF EndedIsEmpty
  <2>10. NothingIsLost'
    <3>1. /\ Message = ready \cup acked \cup UNION {T(ch) : ch \in Chan}
          /\ ready \cap acked = {}
          /\ \A ch \in Chan : /\ T(ch) \cap (ready \cup acked) = {} /\ IsInjective(unacked[ch])
                             /\ \A other \in Chan \ {ch} : T(ch) \cap T(other) = {}
      BY <1>2 DEF NothingIsLost, T
    <3>2. ready' = ready
      BY <1>1
    <3>3. Message = ready' \cup acked' \cup UNION {ToSet(unacked'[ch]) : ch \in Chan}
      <4>1. ASSUME NEW x \in Message
            PROVE  x \in ready' \cup acked' \cup UNION {ToSet(unacked'[ch]) : ch \in Chan}
        BY <2>3, <2>4, <2>5, <2>7, <3>1, <3>2
      <4>2. ready' \cup acked' \subseteq Message
        BY <2>3, <2>4, <2>5, <3>1, <3>2
      <4>3. \A ch \in Chan : ToSet(unacked'[ch]) \subseteq Message
        BY <2>4, <2>5, <2>7
      <4>4. QED
        BY <4>1, <4>2, <4>3
    <3>4. ready' \cap acked' = {}
      BY <2>3, <2>4, <2>5, <3>1, <3>2
    <3>5. ASSUME NEW ch \in Chan
          PROVE  /\ IsInjective(unacked'[ch])
                 /\ ToSet(unacked'[ch]) \cap (ready' \cup acked') = {}
                 /\ \A other \in Chan \ {ch} : ToSet(unacked'[ch]) \cap ToSet(unacked'[other]) = {}
      <4>1. IsInjective(unacked'[ch])
        BY <2>4, <2>6, <3>1
      <4>2. ToSet(unacked'[ch]) \subseteq T(ch)
        BY <2>4, <2>7
      <4>3. ToSet(unacked'[ch]) \cap ToSet(a) = {}
        <5>1. CASE ch = h
          BY <2>4, <2>7, <5>1
        <5>2. CASE ch # h
          <6>1. T(ch) \cap T(h) = {}
            BY <2>5, <3>1, <5>2
          <6>2. QED
            BY <2>4, <4>2, <6>1
        <5>3. QED
          BY <5>1, <5>2
      <4>4. ToSet(unacked'[ch]) \cap (ready' \cup acked') = {}
        BY <2>3, <3>1, <3>2, <4>2, <4>3
      <4>5. ASSUME NEW other \in Chan \ {ch}
            PROVE  ToSet(unacked'[ch]) \cap ToSet(unacked'[other]) = {}
        <5>1. ToSet(unacked'[other]) \subseteq T(other) /\ T(ch) \cap T(other) = {}
          BY <2>4, <2>7, <3>1
        <5>2. QED
          BY <4>2, <5>1
      <4>6. QED
        BY <4>1, <4>4, <4>5
    <3>6. QED
      BY <3>3, <3>4, <3>5 DEF NothingIsLost
  <2>11. QED
    BY <1>1, <1>2, <1>3, <1>4, <1>5, <2>6, <2>8, <2>9, <2>10 DEF DeliveryInv, h
<1>8. QED
  BY <1>6, <1>7 DEF Ack

LEMMA DeliveryStep == DeliveryInv /\ [DeliveryNext]_allVars => DeliveryInv'
<1> SUFFICES ASSUME DeliveryInv, [DeliveryNext]_allVars PROVE DeliveryInv'
  OBVIOUS
<1>1. HoldInv'
  BY StepOfClient, HoldStep DEF DeliveryInv, allVars
<1>2. CASE UNCHANGED allVars
  <2>1. UNCHANGED <<vars, deliveryVars, alive, subscribed>>
    BY <1>2 DEF allVars, vars, connVars, links
  <2>2. QED
    BY <1>1, <2>1 DEF deliveryVars, DeliveryInv, DeliveryTypes, EndedIsEmpty, AtWork, NothingIsLost
<1>3. CASE Beside(ConnStep /\ UNCHANGED <<publisherVars, subscribed>>)
  BY <1>1, <1>3, OthersKeep DEF Beside
<1>4. ASSUME NEW t \in Sender, Beside(SendMessage(t) \/ Sending(t)) PROVE DeliveryInv'
  <2>1. subscribed' = subscribed
    BY <1>4 DEF Beside, SendMessage, Sending, CheckConnected, ConnectLocks, DeclareExchange,
       GetPublishChannel, Publish, PublishFails, SenderPanics
  <2>2. QED
    BY <1>1, <1>4, <2>1, OthersKeep DEF Beside
<1>5. ASSUME NEW c \in Consumer, Beside(Subscribe(c)) PROVE DeliveryInv'
  <2>1. \A d \in Consumer :
          \/ subscribed'[d] = subscribed[d]
          \/ subscribed[d] = "idle" /\ subscribed'[d] = "declare"
    BY <1>5 DEF Beside, Subscribe, At, DeliveryInv, HoldInv, RabbitInv, ClientTypeOK
  <2>2. QED
    BY <1>1, <1>5, <2>1, OthersKeep DEF Beside
<1>6. ASSUME NEW c \in Consumer, Delivering(c) \/ Deliver(c) PROVE DeliveryInv'
  BY <1>1, <1>6, DeliverKeeps, ReceiveKeeps, HandleKeeps, AckKeeps, GoingOnKeeps DEF Delivering
<1>7. QED
  BY <1>2, <1>3, <1>4, <1>5, <1>6 DEF DeliveryNext

-----------------------------------------------------------------------------
(* Consumers with channels of their own. *)

(* A step that takes from the channels of d at most what ends with them.   *)
LEMMA UntouchedKeeps ==
  ASSUME DeliveryInv, LoopInv, NEW d \in Consumer,
         held'[d] = held[d], buffer'[d] = buffer[d], current'[d] = current[d], stage'[d] = stage[d],
         \/ subscribed'[d] = subscribed[d]
         \/ subscribed[d] = "idle" /\ subscribed'[d] = "declare",
         held[d] \notin alive => held[d] \notin alive',
         \A ch \in Chan :
           KeyOf(ch) = ConKey[d] => /\ ch \in alive' => unacked'[ch] = unacked[ch]
                                    /\ unacked[ch] = <<>> => unacked'[ch] = <<>>
  PROVE  OthersAreEmpty(d)' /\ (Receiving(d) => InOrder(d))'
<1>1. OthersAreEmpty(d) /\ (Receiving(d) => InOrder(d))
  BY DEF LoopInv
<1>2. OthersAreEmpty(d)'
  BY <1>1 DEF OthersAreEmpty
<1>3. ASSUME Receiving(d)' PROVE InOrder(d)'
  <2>1. Receiving(d) /\ held[d] \in alive'
    BY <1>3 DEF Receiving
  <2>2. held[d] \in Chan /\ KeyOf(held[d]) = ConKey[d]
    BY <2>1 DEF Receiving, DeliveryInv, HoldInv, ConsumerHolds
  <2>3. unacked'[held[d]] = unacked[held[d]]
    BY <2>1, <2>2
  <2>4. QED
    BY <1>1, <2>1, <2>3 DEF InOrder
<1>4. QED
  BY <1>2, <1>3

(* A consumer gets into its loop or out of it. *)
LEMMA GoingOnOrdered ==
  ASSUME DeliveryInv, LoopInv, HoldInv', NEW c \in Consumer, ConsumerGoesOn(c)
  PROVE  LoopInv'
<1> USE DEF connVars, links, locks, watchers, closer
<1>1. /\ OthersAreEmpty(c) /\ ConsumerHolds(c) /\ ConsumerHolds(c)'
      /\ subscribed \in [Consumer -> {"idle", "declare", "get", "consume", "receive", "done"}]
      /\ c \in User /\ held \in [User -> Chan \cup {NoChan}]
  BY UserFacts DEF DeliveryInv, LoopInv, HoldInv, RabbitInv, ClientTypeOK, ConnInv, ConnTypeOK
<1>2. /\ Requeued /\ UNCHANGED <<current, stage, handled, acked>> /\ Consuming(c)
      /\ buffer' = IF subscribed[c] = "receive" THEN [buffer EXCEPT ![c] = <<>>] ELSE buffer
  BY DEF ConsumerGoesOn, Consuming
<1>3. /\ \A ch \in Chan : ch \in alive' => unacked'[ch] = unacked[ch]
      /\ \A ch \in Chan : unacked[ch] = <<>> => unacked'[ch] = <<>>
  BY <1>2, RequeuedKeeps DEF DeliveryInv
<1>4. buffer'[c] = <<>> /\ stage'[c] = "select"
  BY GoingOnKeeps
<1>5. OthersAreEmpty(c)' /\ (Receiving(c) => InOrder(c))'
  <2>1. CASE subscribed[c] \notin {"receive", "done"}
    <3>1. \A ch \in Chan : KeyOf(ch) = ConKey[c] => unacked'[ch] = <<>>
      BY <1>1, <1>3, <2>1 DEF OthersAreEmpty
    <3>2. ASSUME Receiving(c)' PROVE InOrder(c)'
      <4>1. held'[c] \in Chan /\ KeyOf(held'[c]) = ConKey[c]
        BY <1>1, <3>2 DEF Receiving, ConsumerHolds
      <4>2. QED
        BY <1>4, <3>1, <4>1 DEF InOrder
    <3>3. QED
      BY <3>1, <3>2 DEF OthersAreEmpty
  <2>2. CASE DeliveriesEnd(c)
    <3>1. \A ch \in Chan : KeyOf(ch) = ConKey[c] => unacked[ch] = <<>>
      BY <1>1, <2>2 DEF DeliveriesEnd, OthersAreEmpty, DeliveryInv, EndedIsEmpty
    <3>2. subscribed'[c] # "receive"
      BY <1>1, <2>2 DEF DeliveriesEnd, At
    <3>3. QED
      BY <1>3, <3>1, <3>2 DEF OthersAreEmpty, Receiving
  <2>3. CASE ConsumerStops(c)
    BY <1>1, <2>3 DEF ConsumerStops, At, OthersAreEmpty, Receiving
  <2>4. QED
    BY <2>1, <2>2, <2>3
       DEF ConsumerGoesOn, ConsumerDeclares, ConsumerGetsChannel, Consume, ConsumerPanics
<1>6. ASSUME NEW d \in Consumer \ {c} PROVE OthersAreEmpty(d)' /\ (Receiving(d) => InOrder(d))'
  <2>1. /\ held'[d] = held[d] /\ subscribed'[d] = subscribed[d]
        /\ held[d] \notin alive => held[d] \notin alive'
    BY <1>2, ConsumerLeavesOthers DEF DeliveryInv, HoldInv
  <2>2. buffer'[d] = buffer[d]
    BY <1>2 DEF DeliveryInv, DeliveryTypes
  <2>3. QED
    BY <1>2, <1>3, <2>1, <2>2, UntouchedKeeps
<1>7. AckedWasHandled'
  BY <1>2 DEF LoopInv, AckedWasHandled
<1>8. QED
  BY <1>5, <1>6, <1>7 DEF LoopInv

(* The channel c receives on is of no other consumer's key. *)
LEMMA OwnKeyOnly ==
  ASSUME OwnChannels, DeliveryInv, NEW c \in Consumer, NEW d \in Consumer \ {c},
         subscribed[c] = "receive"
  PROVE  KeyOf(held[c]) # ConKey[d]
BY DEF OwnChannels, DeliveryInv, HoldInv, ConsumerHolds

LEMMA DeliverOrdered ==
  ASSUME OwnChannels, DeliveryInv, LoopInv, NEW c \in Consumer, Deliver(c)
  PROVE  LoopInv'
<1>1. /\ subscribed[c] = "receive" /\ held[c] \in alive
      /\ UNCHANGED <<vars, current, stage, handled, acked>>
  BY DEF Deliver, Receiving
<1>2. /\ UNCHANGED <<alive, held, subscribed>> /\ held[c] \in Chan
      /\ unacked[held[c]] \in Seq(Message) /\ buffer[c] \in Seq(Message)
  BY <1>1, LoopFacts
<1>3. PICK m \in Message : /\ unacked'[held[c]] = Append(unacked[held[c]], m)
                           /\ buffer'[c] = Append(buffer[c], m)
  BY DeliverKeeps
<1>4. /\ \A ch \in Chan \ {held[c]} : unacked'[ch] = unacked[ch]
      /\ \A d \in Consumer \ {c} : buffer'[d] = buffer[d]
  BY DeliverKeeps
<1>5. InOrder(c) /\ OthersAreEmpty(c)
  BY <1>1 DEF LoopInv, Receiving
<1>6. OthersAreEmpty(c)'
  BY <1>1, <1>2, <1>4, <1>5 DEF OthersAreEmpty
<1>7. InOrder(c)'
  <2>1. CASE stage[c] = "select"
    BY <1>1, <1>2, <1>3, <1>5, <2>1 DEF InOrder
  <2>2. CASE stage[c] # "select"
    <3>1. unacked[held[c]] # <<>> /\ Head(unacked[held[c]]) = current[c] /\ Tail(unacked[held[c]]) = buffer[c]
      BY <1>5, <2>2 DEF InOrder
    <3>2. /\ Append(unacked[held[c]], m) # <<>>
          /\ Head(Append(unacked[held[c]], m)) = Head(unacked[held[c]])
          /\ Tail(Append(unacked[held[c]], m)) = Append(Tail(unacked[held[c]]), m)
      BY <1>2, <3>1, AppendProperties, HeadTailAppend
    <3>3. QED
      BY <1>1, <1>2, <1>3, <2>2, <3>1, <3>2 DEF InOrder
  <2>3. QED
    BY <2>1, <2>2
<1>8. ASSUME NEW d \in Consumer \ {c} PROVE OthersAreEmpty(d)' /\ (Receiving(d) => InOrder(d))'
  <2>1. \A ch \in Chan : KeyOf(ch) = ConKey[d] => unacked'[ch] = unacked[ch]
    BY <1>1, <1>4, OwnKeyOnly
  <2>2. QED
    BY <1>1, <1>2, <1>4, <2>1, UntouchedKeeps
<1>9. QED
  BY <1>1, <1>6, <1>7, <1>8 DEF LoopInv, AckedWasHandled

LEMMA ReceiveOrdered ==
  ASSUME DeliveryInv, LoopInv, NEW c \in Consumer, Receive(c)
  PROVE  LoopInv'
<1>1. /\ subscribed[c] = "receive" /\ stage[c] = "select" /\ buffer[c] # <<>>
      /\ UNCHANGED <<vars, unacked, handled, acked>>
  BY DEF Receive, Received
<1>2. UNCHANGED <<alive, held, subscribed>>
  BY <1>1, LoopFacts
<1>3. OthersAreEmpty(c)' /\ (Receiving(c) => InOrder(c))'
  BY <1>1, <1>2, ReceiveKeeps DEF LoopInv, OthersAreEmpty, Receiving, InOrder
<1>4. ASSUME NEW d \in Consumer \ {c} PROVE OthersAreEmpty(d)' /\ (Receiving(d) => InOrder(d))'
  BY <1>1, <1>2, ReceiveKeeps, UntouchedKeeps
<1>5. QED
  BY <1>1, <1>3, <1>4 DEF LoopInv, AckedWasHandled

LEMMA HandleOrdered ==
  ASSUME DeliveryInv, LoopInv, NEW c \in Consumer, Handle(c)
  PROVE  LoopInv'
<1>1. /\ handled' = handled \cup {current[c]}
      /\ UNCHANGED <<vars, unacked, buffer, current, acked>>
  BY DEF Handle
<1>2. UNCHANGED <<alive, held, subscribed>>
  BY <1>1, LoopFacts
<1>3. OthersAreEmpty(c)' /\ (Receiving(c) => InOrder(c))'
  BY <1>1, <1>2, HandleKeeps DEF LoopInv, OthersAreEmpty, Receiving, InOrder
<1>4. ASSUME NEW d \in Consumer \ {c} PROVE OthersAreEmpty(d)' /\ (Receiving(d) => InOrder(d))'
  BY <1>1, <1>2, HandleKeeps, UntouchedKeeps
<1>5. QED
  BY <1>1, <1>3, <1>4 DEF LoopInv, AckedWasHandled

(* Ack(true) covers the delivery at hand and no other. *)
LEMMA AckCoversOne ==
  ASSUME DeliveryInv, LoopInv, NEW c \in Consumer, Ack(c), held[c] \in alive
  PROVE  /\ unacked[held[c]] # <<>> /\ Tail(unacked[held[c]]) = buffer[c]
         /\ acked' = acked \cup {current[c]}
         /\ unacked'[held[c]] = Tail(unacked[held[c]])
         /\ ToSet(Tail(unacked[held[c]])) = ToSet(unacked[held[c]]) \ {current[c]}
         /\ current[c] \in ToSet(unacked[held[c]])
<1> DEFINE u == unacked[held[c]]
<1>1. /\ subscribed[c] = "receive" /\ stage[c] = "ack" /\ UNCHANGED vars
  BY AckKeeps DEF Ack
<1>2. u \in Seq(Message) /\ IsInjective(u) /\ held[c] \in Chan /\ unacked \in [Chan -> Seq(Message)]
  BY <1>1, LoopFacts DEF DeliveryTypes
<1>3. u # <<>> /\ Head(u) = current[c] /\ Tail(u) = buffer[c]
  BY <1>1 DEF LoopInv, Receiving, InOrder
<1>4. Len(u) \in Nat /\ 1 \in 1..Len(u) /\ u[1] = current[c]
  BY <1>2, <1>3, LenProperties, HeadTailProperties, EmptySeq
<1>5. UpTo(held[c], current[c]) = 1
  BY <1>2, <1>4, PlaceOf
<1>6. current[c] \in ToSet(u)
  BY <1>2, <1>4, ToSetRange
<1>7. /\ acked' = acked \cup ToSet(SubSeq(u, 1, 1))
      /\ unacked' = [unacked EXCEPT ![held[c]] = SubSeq(u, 2, Len(u))]
  BY <1>5, <1>6 DEF Ack
<1>8. ToSet(SubSeq(u, 1, 1)) = {current[c]}
  <2>1. \A i \in 1..1 : u[i] \in Message
    BY <1>2, <1>4, ElementOfSeq
  <2>2. /\ SubSeq(u, 1, 1) \in Seq(Message) /\ Len(SubSeq(u, 1, 1)) = 1
        /\ SubSeq(u, 1, 1)[1] = u[1]
    BY <2>1, SubSeqProperties
  <2>3. DOMAIN SubSeq(u, 1, 1) = {1}
    BY <2>2, LenProperties
  <2>4. QED
    BY <1>4, <2>2, <2>3 DEF ToSet
<1>9. SubSeq(u, 2, Len(u)) = Tail(u)
  BY <1>2, <1>3, TailIsSubSeq
<1>10. ToSet(Tail(u)) = ToSet(u) \ {current[c]}
  <2>1. /\ ToSet(SubSeq(u, 1, 1)) \cap ToSet(SubSeq(u, 2, Len(u))) = {}
        /\ ToSet(SubSeq(u, 1, 1)) \cup ToSet(SubSeq(u, 2, Len(u))) = ToSet(u)
    BY <1>2, <1>4, CutDistinct
  <2>2. QED
    BY <1>8, <1>9, <2>1
<1>11. QED
  BY <1>2, <1>3, <1>6, <1>7, <1>8, <1>9, <1>10

LEMMA AckOrdered ==
  ASSUME OwnChannels, DeliveryInv, LoopInv, NEW c \in Consumer, Ack(c)
  PROVE  LoopInv'
<1>1. /\ subscribed[c] = "receive" /\ current[c] \in handled
      /\ UNCHANGED <<vars, buffer, handled>>
  BY AckKeeps DEF Ack
<1>2. UNCHANGED <<alive, held, subscribed>> /\ held[c] \in Chan
  BY <1>1, LoopFacts
<1>3. OthersAreEmpty(c)' /\ (Receiving(c) => InOrder(c))'
  <2>1. OthersAreEmpty(c)'
    BY <1>1, <1>2, AckKeeps DEF LoopInv, OthersAreEmpty
  <2>2. ASSUME held[c] \in alive PROVE InOrder(c)'
    BY <1>1, <1>2, <2>2, AckCoversOne, AckKeeps DEF InOrder
  <2>3. QED
    BY <1>2, <2>1, <2>2 DEF Receiving
<1>4. ASSUME NEW d \in Consumer \ {c} PROVE OthersAreEmpty(d)' /\ (Receiving(d) => InOrder(d))'
  <2>1. \A ch \in Chan : KeyOf(ch) = ConKey[d] => unacked'[ch] = unacked[ch]
    BY <1>1, AckKeeps, OwnKeyOnly
  <2>2. QED
    BY <1>1, <1>2, <2>1, AckKeeps, UntouchedKeeps
<1>5. AckedWasHandled'
  <2>1. acked' \subseteq acked \cup {current[c]}
    BY AckCoversOne DEF Ack
  <2>2. QED
    BY <1>1, <2>1 DEF LoopInv, AckedWasHandled
<1>6. QED
  BY <1>3, <1>4, <1>5 DEF LoopInv

LEMMA LoopStep ==
  ASSUME OwnChannels
  PROVE  DeliveryInv /\ LoopInv /\ [DeliveryNext]_allVars => LoopInv'
<1> SUFFICES ASSUME DeliveryInv, LoopInv, [DeliveryNext]_allVars PROVE LoopInv'
  OBVIOUS
<1>1. HoldInv'
  BY StepOfClient, HoldStep DEF DeliveryInv, allVars
<1>2. ASSUME UNCHANGED <<buffer, current, stage, handled, acked>>, Requeued,
             \A d \in Consumer :
               /\ held'[d] = held[d] /\ (held[d] \notin alive => held[d] \notin alive')
               /\ \/ subscribed'[d] = subscribed[d]
                  \/ subscribed[d] = "idle" /\ subscribed'[d] = "declare"
      PROVE  LoopInv'
  <2>1. /\ \A ch \in Chan : ch \in alive' => unacked'[ch] = unacked[ch]
        /\ \A ch \in Chan : unacked[ch] = <<>> => unacked'[ch] = <<>>
    BY <1>2, RequeuedKeeps DEF DeliveryInv
  <2>2. ASSUME NEW d \in Consumer PROVE OthersAreEmpty(d)' /\ (Receiving(d) => InOrder(d))'
    BY <1>2, <2>1, UntouchedKeeps
  <2>3. QED
    BY <1>2, <2>2 DEF LoopInv, AckedWasHandled
<1>3. CASE UNCHANGED allVars
  <2>1. UNCHANGED <<vars, deliveryVars, alive, held, subscribed>>
    BY <1>3 DEF allVars, vars, connVars, links
  <2>2. QED
    BY <2>1 DEF deliveryVars, LoopInv, OthersAreEmpty, Receiving, InOrder, AckedWasHandled
<1>4. CASE Beside(ConnStep /\ UNCHANGED <<publisherVars, subscribed>>)
  <2>1. held' = held /\ alive' \subseteq alive /\ subscribed' = subscribed
    BY <1>4, ConnectionOpensNothing DEF Beside, DeliveryInv, HoldInv
  <2>2. QED
    BY <1>2, <1>4, <2>1 DEF Beside
<1>5. ASSUME NEW t \in Sender, Beside(SendMessage(t) \/ Sending(t)) PROVE LoopInv'
  BY <1>2, <1>5, SenderLeavesConsumer DEF Beside, DeliveryInv, HoldInv
<1>6. ASSUME NEW c \in Consumer, Beside(Subscribe(c)) PROVE LoopInv'
  <2>1. /\ held' = held /\ alive' = alive
        /\ \A d \in Consumer :
             \/ subscribed'[d] = subscribed[d]
             \/ subscribed[d] = "idle" /\ subscribed'[d] = "declare"
    BY <1>6 DEF Beside, Subscribe, At, connVars, links, DeliveryInv, HoldInv, RabbitInv, ClientTypeOK
  <2>2. QED
    BY <1>2, <1>6, <2>1 DEF Beside
<1>7. ASSUME NEW c \in Consumer, Delivering(c) \/ Deliver(c) PROVE LoopInv'
  BY <1>1, <1>7, DeliverOrdered, ReceiveOrdered, HandleOrdered, AckOrdered, GoingOnOrdered
     DEF Delivering
<1>8. QED
  BY <1>3, <1>4, <1>5, <1>6, <1>7 DEF DeliveryNext

-----------------------------------------------------------------------------
(* The theorems. *)

THEOREM DeliveryInvariant == DeliverySpec => []DeliveryInv
<1>1. DeliveryInit => DeliveryInv
  BY DeliveryBegins
<1>2. QED
  BY <1>1, DeliveryStep, PTL DEF DeliverySpec

(* Type correctness of the connection, its users and the deliveries. *)
THEOREM DeliveryTypeCorrect == DeliverySpec => []DeliveryTypeOK
<1>1. DeliveryInv => DeliveryTypeOK
  BY DEF DeliveryInv, DeliveryTypes, DeliveryTypeOK, HoldInv, RabbitInv, ConnInv, TypeOK
<1>2. QED
  BY <1>1, DeliveryInvariant, PTL

(* Whatever ends under the consumers, and whatever channels they share, a  *)
(* message is in one place.                                                *)
THEOREM NothingIsLostHolds == DeliverySpec => []NothingIsLost
<1>1. DeliveryInv => NothingIsLost
  BY DEF DeliveryInv
<1>2. QED
  BY <1>1, DeliveryInvariant, PTL

(* At least once: the broker deletes a message only after                  *)
(* Subscriber.Consume has returned for it, if no two consumers share a     *)
(* channel.                                                                *)
THEOREM AckedWasHandledHolds ==
  ASSUME OwnChannels
  PROVE  DeliverySpec => []AckedWasHandled
<1>1. DeliveryInit => LoopInv
  BY DeliveryBegins
<1>2. LoopInv => AckedWasHandled
  BY DEF LoopInv
<1>3. QED
  BY <1>1, <1>2, DeliveryInvariant, LoopStep, PTL DEF DeliverySpec

(* The deliveries add nothing to what the connection, its watchers and its *)
(* users may do: what holds of RabbitClient holds here.                    *)
THEOREM DeliveriesRefine == DeliverySpec => Init /\ [][Next]_vars
<1>1. DeliveryInit => Init
  BY DEF DeliveryInit
<1>2. [DeliveryNext]_allVars => [Next]_vars
  BY StepOfClient DEF allVars
<1>3. QED
  BY <1>1, <1>2, PTL DEF DeliverySpec

(* Also while messages are delivered nothing brings a connection back      *)
(* after a Close that returned nil.                                        *)
THEOREM ClosedStaysClosedBeside == DeliverySpec => []ClosedStaysClosed
<1>1. DeliveryInv => ClosedStaysClosed
  BY DEF DeliveryInv, HoldInv, RabbitInv, ConnInv, ClosedIsFinal, ClosedStaysClosed
<1>2. QED
  BY <1>1, DeliveryInvariant, PTL

-----------------------------------------------------------------------------
(* The at-least-once queue. *)

(* Channels that end give back what was taken from them. *)
LEMMA RequeuedGivesBack ==
  ASSUME Requeued, UNCHANGED <<handled, acked>>
  PROVE  Queue!Next
<1> DEFINE ended == Chan \ alive'
<1>1. \A ch \in Chan : ToSet(unacked'[ch]) = IF ch \in ended THEN {} ELSE ToSet(unacked[ch])
  BY ToSetEmpty DEF Requeued
<1>2. [ch \in Chan |-> ToSet(unacked'[ch])]
        = [ch \in Chan |-> IF ch \in ended THEN {} ELSE [x \in Chan |-> ToSet(unacked[x])][ch]]
  BY <1>1
<1>3. ready' = ready \cup UNION {[x \in Chan |-> ToSet(unacked[x])][ch] : ch \in ended}
  BY DEF Requeued
<1>4. Queue!GiveBack(ended)
  BY <1>2, <1>3 DEF Queue!GiveBack
<1>5. QED
  BY <1>4 DEF Queue!Next

(* Each step of the deliveries is one of the queue or leaves it alone. *)
LEMMA StepOfQueue ==
  ASSUME OwnChannels, DeliveryInv, LoopInv, [DeliveryNext]_allVars
  PROVE  [Queue!Next]_Queue!queue
<1> DEFINE taken == [ch \in Chan |-> ToSet(unacked[ch])]
<1>1. CASE UNCHANGED allVars
  BY <1>1 DEF allVars, deliveryVars, Queue!queue
<1>2. ASSUME Requeued, UNCHANGED <<handled, acked>> PROVE Queue!Next
  BY <1>2, RequeuedGivesBack
<1>3. ASSUME NEW c \in Consumer, Deliver(c) PROVE Queue!Next
  <2>1. held[c] \in Chan /\ UNCHANGED <<handled, acked>>
    BY <1>3, LoopFacts DEF Deliver, Receiving
  <2>2. PICK m \in Message : /\ m \in ready /\ ready' = ready \ {m}
                             /\ ToSet(unacked'[held[c]]) = ToSet(unacked[held[c]]) \cup {m}
    BY <1>3, DeliverKeeps
  <2>3. \A ch \in Chan \ {held[c]} : unacked'[ch] = unacked[ch]
    BY <1>3, DeliverKeeps
  <2>4. [ch \in Chan |-> ToSet(unacked'[ch])] = [taken EXCEPT ![held[c]] = @ \cup {m}]
    BY <2>1, <2>2, <2>3
  <2>5. Queue!Take(held[c], m)
    BY <2>1, <2>2, <2>4 DEF Queue!Take
  <2>6. QED
    BY <2>1, <2>5 DEF Queue!Next
<1>4. ASSUME NEW c \in Consumer, Receive(c) PROVE UNCHANGED Queue!queue
  BY <1>4 DEF Receive, Received, Queue!queue
<1>5. ASSUME NEW c \in Consumer, Handle(c) PROVE Queue!Next
  <2>1. current[c] \in Message
    BY <1>5, HandleKeeps
  <2>2. Queue!Handle(current[c])
    BY <1>5 DEF Handle, Queue!Handle
  <2>3. QED
    BY <2>1, <2>2 DEF Queue!Next
<1>6. ASSUME NEW c \in Consumer, Ack(c) PROVE [Queue!Next]_Queue!queue
  <2>1. /\ held[c] \in Chan /\ current[c] \in handled /\ current[c] \in Message
        /\ UNCHANGED <<ready, handled>>
    BY <1>6, AckKeeps, LoopFacts DEF Ack, DeliveryTypes
  <2>2. CASE held[c] \notin alive
    BY <1>6, <2>1, <2>2 DEF Ack, Queue!queue
  <2>3. CASE held[c] \in alive
    <3>1. /\ acked' = acked \cup {current[c]} /\ current[c] \in ToSet(unacked[held[c]])
          /\ ToSet(unacked'[held[c]]) = ToSet(unacked[held[c]]) \ {current[c]}
      BY <1>6, <2>3, AckCoversOne
    <3>2. \A ch \in Chan \ {held[c]} : unacked'[ch] = unacked[ch]
      BY <1>6, AckKeeps
    <3>3. [ch \in Chan |-> ToSet(unacked'[ch])] = [taken EXCEPT ![held[c]] = @ \ {current[c]}]
      BY <2>1, <3>1, <3>2
    <3>4. Queue!Delete(held[c], current[c])
      BY <2>1, <3>1, <3>3 DEF Queue!Delete
    <3>5. QED
      BY <2>1, <3>4 DEF Queue!Next
  <2>4. QED
    BY <2>2, <2>3
<1>7. QED
  BY <1>1, <1>2, <1>3, <1>4, <1>5, <1>6 DEF DeliveryNext, Beside, Delivering, ConsumerGoesOn

(* Consumers with channels of their own, the broker and the library        *)
(* between them keep the promises of an at-least-once queue: a message     *)
(* comes back when its channel ends, and an Ack, although it asks for all  *)
(* deliveries of the channel, deletes the one that was handled.            *)
THEOREM ImplementsQueueHolds ==
  ASSUME OwnChannels
  PROVE  DeliverySpec => ImplementsQueue
<1>1. DeliveryInit => Queue!Init
  BY ToSetEmpty DEF DeliveryInit, Queue!Init
<1>2. DeliveryInit => LoopInv
  BY DeliveryBegins
<1>3. DeliveryInv /\ LoopInv /\ [DeliveryNext]_allVars => [Queue!Next]_Queue!queue
  BY StepOfQueue
<1>4. QED
  BY <1>1, <1>2, <1>3, DeliveryInvariant, LoopStep, PTL
     DEF DeliverySpec, ImplementsQueue, Queue!Spec
=============================================================================
