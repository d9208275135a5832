---------------------------- MODULE RabbitClient ----------------------------
(***************************************************************************)
(* providers/rabbitmq/publisher and consumer over one connection: several  *)
(* goroutines send through one Publisher value, and several consumers are  *)
(* subscribed.  Messages have no content; a publish on an open channel     *)
(* succeeds, on a lost one it fails.                                       *)
(***************************************************************************)
EXTENDS RabbitConnection

CONSTANTS
  Sender,   \* goroutines that call SendMessage of the Publisher
  Consumer, \* the subscriptions: each call of Subscribe has a goroutine
  PubKey,   \* the pool key of the Publisher
  ConKey,   \* the pool key of each consumer: its queue and its name
  NoSender  \* Publisher.muConn is free

ASSUME ClientAssumption ==
  /\ Consumer \cap Sender = {}
  /\ User = Sender \cup Consumer
  /\ PubKey \in Key
  /\ ConKey \in [Consumer -> Key]
  /\ NoSender \notin Sender

VARIABLES
  isConnected, \* Publisher.isConnected
  muConn,      \* the sender that holds Publisher.muConn
  pc,          \* where a sender is in SendMessage
  try,         \* 0 before sendMessage, then its first or second call
  result,      \* what became of the latest message of a sender
  subscribed   \* where a consumer is

publisherVars == <<isConnected, muConn, pc, try, result>>
vars == <<connVars, publisherVars, subscribed>>

(* published: the broker got it; counted: the counter SendMessage raised;  *)
(* failed: SendMessage returned an error.                                  *)
Result == [published : BOOLEAN, counted : {"none", "ok", "bad"}, failed : BOOLEAN]
Unsent == [published |-> FALSE, counted |-> "none", failed |-> FALSE]

ClientTypeOK ==
  /\ isConnected \in BOOLEAN
  /\ muConn \in Sender \cup {NoSender}
  /\ pc \in [Sender -> {"idle", "check", "connect", "declare", "get", "publish", "fail"}]
  /\ try \in [Sender -> 0..2]
  /\ result \in [Sender -> Result]
  /\ subscribed \in [Consumer -> {"idle", "declare", "get", "consume", "receive", "done"}]

(* Types of all variables. *)
TypeOK == ConnTypeOK /\ ClientTypeOK

Init ==
  /\ ConnInit
  /\ isConnected = FALSE
  /\ muConn = NoSender
  /\ pc = [t \in Sender |-> "idle"]
  /\ try = [t \in Sender |-> 0]
  /\ result = [t \in Sender |-> Unsent]
  /\ subscribed = [c \in Consumer |-> "idle"]

Goto(t, l) == pc' = [pc EXCEPT ![t] = l]

-----------------------------------------------------------------------------
(* SendMessage *)

(* The program sends once Start has returned nil. *)
SendMessage(t) ==
  /\ pc[t] = "idle"
  /\ watcher # "none"
  /\ Goto(t, "check")
  /\ try' = [try EXCEPT ![t] = 0]
  /\ result' = [result EXCEPT ![t] = Unsent]
  /\ UNCHANGED <<connVars, isConnected, muConn, subscribed>>

(* What follows the attempt to connect, successful or not. *)
Proceed(t) ==
  IF try[t] = 0
  THEN Goto(t, "check") /\ try' = [try EXCEPT ![t] = 1]
  ELSE Goto(t, "get") /\ try' = try

(* if !p.isConnected, read without muConn *)
CheckConnected(t) ==
  /\ pc[t] = "check"
  /\ IF isConnected THEN Proceed(t) ELSE Goto(t, "connect") /\ try' = try
  /\ UNCHANGED <<connVars, isConnected, muConn, result, subscribed>>

ConnectLocks(t) ==
  /\ pc[t] = "connect"
  /\ muConn = NoSender
  /\ IF isConnected
     THEN Proceed(t) /\ muConn' = muConn
     ELSE Goto(t, "declare") /\ try' = try /\ muConn' = t
  /\ UNCHANGED <<connVars, isConnected, result, subscribed>>

(* An error of ExchangeDeclare is only logged. *)
DeclareExchange(t) ==
  /\ pc[t] = "declare"
  /\ \/ Declared /\ isConnected' = TRUE
     \/ NotDeclared /\ isConnected' = isConnected
  /\ muConn' = NoSender
  /\ Proceed(t)
  /\ UNCHANGED <<result, subscribed>>

GetPublishChannel(t) ==
  /\ pc[t] = "get"
  /\ \/ (PooledChannel(t, PubKey) \/ NewChannel(t, PubKey)) /\ Goto(t, "publish")
     \/ NoNewChannel(PubKey) /\ Goto(t, "fail")
  /\ UNCHANGED <<isConnected, muConn, try, result, subscribed>>

(* Mutant: a failed second try returns nil. *)
SendReturnsNil(t, published) ==
  /\ Goto(t, "idle")
  /\ result' = [result EXCEPT ![t] =
       [published |-> published, counted |-> IF try[t] = 1 THEN "ok" ELSE "bad",
        failed |-> FALSE]]

(* The second if tests err where errRetryPub is meant: after a second try  *)
(* the message counts as bad, and the (nil) error of that try is returned. *)
SendReturns(t, published) ==
  /\ Goto(t, "idle")
  /\ result' = [result EXCEPT ![t] =
       [published |-> published, counted |-> IF try[t] = 1 THEN "ok" ELSE "bad",
        failed |-> ~published]]

Publish(t) ==
  /\ pc[t] = "publish"
  /\ UseChannel(t, FALSE)
  /\ IF held[t] \in alive
     THEN SendReturns(t, TRUE)
     ELSE Goto(t, "fail") /\ result' = result
  /\ UNCHANGED <<isConnected, muConn, try, subscribed>>

(* sendMessage clears isConnected under muConn. *)
PublishFails(t) ==
  /\ pc[t] = "fail"
  /\ muConn = NoSender
  /\ isConnected' = FALSE
  /\ IF try[t] = 1
     THEN Goto(t, "check") /\ try' = [try EXCEPT ![t] = 2] /\ result' = result
     ELSE SendReturns(t, FALSE) /\ try' = try
  /\ UNCHANGED <<connVars, muConn, subscribed>>

SenderPanics(t) ==
  /\ \/ pc[t] = "declare" /\ DeclarePanics
     \/ pc[t] = "get" /\ ChannelPanics(PubKey)
  /\ UNCHANGED <<publisherVars, subscribed>>

Sending(t) ==
  \/ CheckConnected(t) \/ ConnectLocks(t) \/ DeclareExchange(t) \/ GetPublishChannel(t)
  \/ Publish(t) \/ PublishFails(t) \/ SenderPanics(t)

-----------------------------------------------------------------------------
(* The consumers *)

At(c, l) == subscribed' = [subscribed EXCEPT ![c] = l]

Subscribe(c) ==
  /\ subscribed[c] = "idle"
  /\ watcher # "none"
  /\ At(c, "declare")
  /\ UNCHANGED <<connVars, publisherVars>>

(* The first loop of subscribe: an error is followed by another attempt,   *)
(* whatever became of ctx and of the connection.                           *)
ConsumerDeclares(c) ==
  /\ subscribed[c] = "declare"
  /\ \/ Declared /\ At(c, "get")
     \/ NotDeclared /\ At(c, "declare")
  /\ UNCHANGED publisherVars

ConsumerGetsChannel(c) ==
  /\ subscribed[c] = "get"
  /\ \/ (PooledChannel(c, ConKey[c]) \/ NewChannel(c, ConKey[c])) /\ At(c, "consume")
     \/ NoNewChannel(ConKey[c]) /\ At(c, "declare")
  /\ UNCHANGED publisherVars

Consume(c) ==
  /\ subscribed[c] = "consume"
  /\ LET accepted == held[c] \in alive IN
     /\ UseChannel(c, accepted)
     /\ At(c, IF accepted THEN "receive" ELSE "declare")
  /\ UNCHANGED publisherVars

(* Mutant: a consumer whose deliveries end returns. *)
DeliveriesEndForGood(c) ==
  /\ subscribed[c] = "receive"
  /\ held[c] \notin alive
  /\ DropChannel(c)
  /\ At(c, "done")
  /\ UNCHANGED publisherVars

(* The end of the deliveries: a new goroutine subscribes again. *)
DeliveriesEnd(c) ==
  /\ subscribed[c] = "receive"
  /\ held[c] \notin alive
  /\ DropChannel(c)
  /\ At(c, IF isClosed THEN "done" ELSE "declare")
  /\ UNCHANGED publisherVars

ConsumerStops(c) ==
  /\ subscribed[c] = "receive"
  /\ ctxDone
  /\ DropChannel(c)
  /\ At(c, "done")
  /\ UNCHANGED publisherVars

ConsumerPanics(c) ==
  /\ \/ subscribed[c] = "declare" /\ DeclarePanics
     \/ subscribed[c] = "get" /\ ChannelPanics(ConKey[c])
  /\ UNCHANGED <<publisherVars, subscribed>>

Consuming(c) ==
  \/ ConsumerDeclares(c) \/ ConsumerGetsChannel(c) \/ Consume(c) \/ DeliveriesEnd(c)
  \/ ConsumerStops(c) \/ ConsumerPanics(c)

-----------------------------------------------------------------------------
(* The whole *)

ConnStep ==
  \/ Connect \/ Cancel \/ LoseConnection \/ LoseService
  \/ \E ch \in Chan : LoseChannel(ch) \/ ChanStep(ch)
  \/ WatcherStep \/ WatcherLocks \/ CloseLocks \/ CloseStep

Next ==
  /\ ~crashed
  /\ \/ ConnStep /\ UNCHANGED <<publisherVars, subscribed>>
     \/ \E t \in Sender : SendMessage(t) \/ Sending(t)
     \/ \E c \in Consumer : Subscribe(c) \/ Consuming(c)

(* Goroutines go on, and Go's mutexes starve nobody: a waiting writer gets *)
(* mu however many readers come, a reader however many writers, a sender   *)
(* gets muConn (strong fairness).  Losses, Cancel, Close and the sending   *)
(* of a message are never forced.                                          *)
Fairness ==
  LET Live(A) == ~crashed /\ A /\ UNCHANGED <<publisherVars, subscribed>> IN
  /\ WF_vars(Live(WatcherStep))
  /\ SF_vars(Live(WatcherLocks))
  /\ WF_vars(Live(\E ch \in Chan : ChanStep(ch)))
  /\ WF_vars(Live(CloseStep))
  /\ \A t \in Sender : SF_vars(~crashed /\ Sending(t))
  /\ \A c \in Consumer : SF_vars(~crashed /\ Consuming(c))

Spec == Init /\ [][Next]_vars /\ Fairness

-----------------------------------------------------------------------------
(* Properties *)

(* SendMessage returns nil exactly when one of its two tries reached the   *)
(* broker, whatever it counted.                                            *)
ErrorMeansUnsent ==
  \A t \in Sender : result[t].counted # "none" => (result[t].failed <=> ~result[t].published)

(* No goroutine waits in a circle: of those inside SendMessage or connect, *)
(* one is not waiting for a lock, or else the holder of mu is at work,     *)
(* which takes no other lock.                                              *)
Sends(t) ==
  \/ pc[t] \in {"check", "publish"}
  \/ pc[t] \in {"connect", "fail"} /\ muConn = NoSender
  \/ pc[t] \in {"declare", "get"} /\ ReaderMayLock
Connects(c) ==
  \/ subscribed[c] = "consume"
  \/ subscribed[c] \in {"declare", "get"} /\ ReaderMayLock
NobodyIsStuck ==
  (\E t \in Sender : pc[t] # "idle") \/ (\E c \in Consumer : subscribed[c] \in {"declare", "get"}) =>
    \/ \E t \in Sender : Sends(t)
    \/ \E c \in Consumer : Connects(c)
    \/ mu = "watcher" /\ watcher = "dial"
    \/ mu = "closer" /\ closing = "pool"

(* Every SendMessage returns: no sender waits for ever for a lock that     *)
(* another sender, the watcher or Close holds.                             *)
SendEnds == \A t \in Sender : pc[t] # "idle" ~> (pc[t] = "idle" \/ crashed)
=============================================================================
