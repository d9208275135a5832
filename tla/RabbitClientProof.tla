------------------------- MODULE RabbitClientProof -------------------------
(***************************************************************************)
(* Theorems about the RabbitMQ connection and its users, for any number of *)
(* senders, reconnect attempts and losses: Close is final, a reconnect is  *)
(* invisible, and SendMessage tells the truth about a message.             *)
(***************************************************************************)
EXTENDS RabbitClient, TLAPS

(* Who holds Connection.mu is where the code takes it. *)
LocksAgree ==
  /\ mu = "watcher" <=> watcher = "dial"
  /\ mu = "closer" <=> closing = "pool"

(* A connection that is up has a watcher, which is not about to replace    *)
(* it.  ClosedStaysClosed rests on this: Close ends a connection that is   *)
(* up, so no reconnect is under way that could follow it.                  *)
UpIsWatched == conn = "up" => watcher \in {"top", "wait", "ended"}

(* After Close the connection is lost, and the watcher will find isClosed. *)
ClosedIsFinal ==
  /\ closing # "idle" => isClosed /\ watcher # "none"
  /\ closing = "closed" =>
       conn = "lost" /\ alive = {} /\ watcher \in {"top", "wait", "ended"}

ConnInv ==
  /\ ConnTypeOK
  /\ LocksAgree
  /\ UpIsWatched
  /\ ClosedIsFinal
  /\ NoPanicDuringReconnect

RabbitInv ==
  /\ ConnInv
  /\ ClientTypeOK
  /\ ErrorMeansUnsent

-----------------------------------------------------------------------------
(* A channel belongs to a key, and each key has its channels. *)
LEMMA ChanFacts ==
  /\ \A ch \in Chan : KeyOf(ch) \in Key
  /\ \A k \in Key, i \in 1..MaxChannels : <<k, i>> \in Chan
  /\ NoChan \notin Chan
BY RabbitAssumption DEF Chan, KeyOf

(* NewConnection, NewPublisher and NewConsumer establish the invariant. *)
LEMMA RabbitInit == Init => RabbitInv
<1> SUFFICES ASSUME Init PROVE RabbitInv
  OBVIOUS
<1> USE DEF Init, ConnInit
<1>1. ConnTypeOK
  <2>1. 0 \in 0..MaxAttempts /\ 0 \in 0..MaxLosses
    BY RabbitAssumption
  <2>2. pool \in [Key -> Chan \cup {NoChan}] /\ held \in [User -> Chan \cup {NoChan}]
    BY DEF EmptyPool
  <2>3. watch \in [Chan -> {"none", "top", "wait", "delete"}]
    OBVIOUS
  <2>4. QED
    BY <2>1, <2>2, <2>3 DEF ConnTypeOK
<1>2. LocksAgree /\ UpIsWatched /\ ClosedIsFinal /\ NoPanicDuringReconnect
  BY DEF LocksAgree, UpIsWatched, ClosedIsFinal, NoPanicDuringReconnect
<1>3. ClientTypeOK /\ ErrorMeansUnsent
  <2>1. Unsent \in Result /\ Unsent.counted = "none"
    BY DEF Unsent, Result
  <2>2. \A t \in Sender : result[t] = Unsent
    OBVIOUS
  <2>3. ErrorMeansUnsent
    BY <2>1, <2>2 DEF ErrorMeansUnsent
  <2>4. result \in [Sender -> Result]
    BY <2>1
  <2>5. pc \in [Sender -> {"idle"}] /\ try \in [Sender -> {0}] /\ subscribed \in [Consumer -> {"idle"}]
    OBVIOUS
  <2>6. pc \in [Sender -> {"idle", "check", "connect", "declare", "get", "publish", "fail"}]
    BY <2>5
  <2>7. try \in [Sender -> 0..2]
    BY <2>5
  <2>8. subscribed \in [Consumer -> {"idle", "declare", "get", "consume", "receive", "done"}]
    BY <2>5
  <2>9. QED
    BY <2>3, <2>4, <2>6, <2>7, <2>8 DEF ClientTypeOK
<1>4. QED
  BY <1>1, <1>2, <1>3 DEF RabbitInv, ConnInv

(* A panic keeps the invariant unless it happens during a reconnect. *)
LEMMA PanicKeeps ==
  ASSUME ConnInv, Panic, watcher # "dial"
  PROVE  ConnInv'
BY DEF ConnInv, Panic, ConnTypeOK, LocksAgree, UpIsWatched, ClosedIsFinal,
       NoPanicDuringReconnect, links, locks, watchers, closer

(* So do the steps that change nothing of the connection. *)
LEMMA StutterKeeps ==
  ASSUME ConnInv, UNCHANGED connVars
  PROVE  ConnInv'
BY DEF ConnInv, connVars, ConnTypeOK, LocksAgree, UpIsWatched, ClosedIsFinal,
       NoPanicDuringReconnect, links, locks, watchers, closer

-----------------------------------------------------------------------------
(* Connect and what the environment does. *)
LEMMA EnvironmentKeeps ==
  ASSUME ConnInv, ~crashed,
         \/ Connect \/ Cancel \/ LoseConnection \/ LoseService
         \/ \E ch \in Chan : LoseChannel(ch)
  PROVE  ConnInv'
<1> USE ChanFacts, RabbitAssumption
    DEF ConnInv, ConnTypeOK, LocksAgree, UpIsWatched, ClosedIsFinal,
        NoPanicDuringReconnect, links, locks, watchers, closer
<1>1. CASE Connect
  BY <1>1 DEF Connect, Connected, EmptyPool
<1>2. CASE Cancel
  BY <1>2 DEF Cancel
<1>3. CASE LoseConnection
  BY <1>3 DEF LoseConnection, LinksEnd, Lost, Woken, WakeChannels
<1>4. CASE LoseService
  BY <1>4 DEF LoseService, Lost
<1>5. ASSUME NEW ch \in Chan, LoseChannel(ch) PROVE ConnInv'
  BY <1>5 DEF LoseChannel, Lost, Woken, WakeChannels
<1>6. QED
  BY <1>1, <1>2, <1>3, <1>4, <1>5

(* The connection watcher. *)
LEMMA WatcherKeeps ==
  ASSUME ConnInv, ~crashed, WatcherStep \/ WatcherLocks
  PROVE  ConnInv'
<1> USE RabbitAssumption
    DEF ConnInv, ConnTypeOK, LocksAgree, UpIsWatched, ClosedIsFinal,
        NoPanicDuringReconnect, links, locks, watchers, closer
<1>1. CASE WatcherLoops
  <2>1. CASE Panic
    BY <1>1, <2>1, PanicKeeps DEF WatcherLoops
  <2>2. CASE WatcherGoes("ended") \/ (conn = "up" /\ WatcherGoes("wait"))
    BY <1>1, <2>2 DEF WatcherLoops, WatcherGoes
  <2>3. QED
    BY <1>1, <2>1, <2>2 DEF WatcherLoops
<1>2. CASE WatcherSeesLoss
  BY <1>2 DEF WatcherSeesLoss, SeesLoss, WatcherGoes
<1>3. CASE WatcherLocks
  BY <1>3 DEF WatcherLocks, StartsDialing, WriterMayLock
<1>4. CASE DialFails
  BY <1>4 DEF DialFails
<1>5. CASE DialLoses
  BY <1>5 DEF DialLoses, Lost
<1>6. CASE DialSucceeds
  BY <1>6 DEF DialSucceeds, Connected, EmptyPool, WatcherUnlocks, DialingEnds
<1>7. CASE DialGivesUp
  BY <1>7 DEF DialGivesUp, NoAttemptsLeft, WatcherUnlocks, DialingEnds
<1>8. QED
  BY <1>1, <1>2, <1>3, <1>4, <1>5, <1>6, <1>7 DEF WatcherStep

(* The watchers of channels. *)
LEMMA ChanKeeps ==
  ASSUME ConnInv, ~crashed, NEW ch \in Chan, ChanStep(ch)
  PROVE  ConnInv'
<1> USE ChanFacts
    DEF ConnInv, ConnTypeOK, LocksAgree, UpIsWatched, ClosedIsFinal,
        NoPanicDuringReconnect, links, locks, watchers, closer
<1>1. CASE ChanLoops(ch)
  BY <1>1 DEF ChanLoops, ChanGoes
<1>2. CASE ChanDeletes(ch)
  BY <1>2 DEF ChanDeletes, ChanGoes
<1>3. CASE ChanDeleteRaces(ch)
  BY <1>3, PanicKeeps DEF ChanDeleteRaces
<1>4. QED
  BY <1>1, <1>2, <1>3 DEF ChanStep

(* Close. *)
LEMMA CloseKeeps ==
  ASSUME ConnInv, ~crashed, CloseLocks \/ CloseStep
  PROVE  ConnInv'
<1> USE ChanFacts
    DEF ConnInv, ConnTypeOK, LocksAgree, UpIsWatched, ClosedIsFinal,
        NoPanicDuringReconnect, links, locks, watchers, closer
<1>1. CASE CloseLocks
  BY <1>1 DEF CloseLocks, CloseBegins, WriterMayLock
<1>2. ASSUME NEW k \in Key, CloseChannel(k) PROVE ConnInv'
  BY <1>2 DEF CloseChannel, Woken, WakeChannels
<1>3. CASE CloseFails
  BY <1>3 DEF CloseFails
<1>4. CASE ClosePanics
  BY <1>4, PanicKeeps DEF ClosePanics
<1>5. CASE CloseConn
  BY <1>5 DEF CloseConn, LinksEnd, Woken, WakeChannels
<1>6. QED
  BY <1>1, <1>2, <1>3, <1>4, <1>5 DEF CloseStep

(* The calls of a user. *)
LEMMA CallKeeps ==
  ASSUME ConnInv, ~crashed, NEW u \in User, NEW k \in Key, NEW keep \in BOOLEAN,
         \/ PooledChannel(u, k) \/ NewChannel(u, k) \/ UseChannel(u, keep)
         \/ DropChannel(u) \/ ChannelPanics(k) \/ DeclarePanics
  PROVE  ConnInv'
<1> USE ChanFacts
    DEF ConnInv, ConnTypeOK, LocksAgree, UpIsWatched, ClosedIsFinal,
        NoPanicDuringReconnect, links, locks, watchers, closer
<1>1. CASE PooledChannel(u, k)
  BY <1>1 DEF PooledChannel, ReaderMayLock
<1>2. CASE NewChannel(u, k)
  <2>1. PICK i \in 1..MaxChannels :
          /\ alive' = alive \cup {<<k, i>>}
          /\ pool' = [pool EXCEPT ![k] = <<k, i>>]
          /\ watch' = [watch EXCEPT ![<<k, i>>] = "top"]
          /\ held' = [held EXCEPT ![u] = <<k, i>>]
    BY <1>2 DEF NewChannel
  <2>2. <<k, i>> \in Chan
    BY <2>1
  <2>3. QED
    BY <1>2, <2>1, <2>2 DEF NewChannel, ReaderMayLock
<1>3. CASE UseChannel(u, keep)
  BY <1>3 DEF UseChannel
<1>4. CASE DropChannel(u)
  BY <1>4 DEF DropChannel
<1>5. CASE ChannelPanics(k) \/ DeclarePanics
  BY <1>5, PanicKeeps DEF ChannelPanics, DeclarePanics, ReaderMayLock
<1>6. QED
  BY <1>1, <1>2, <1>3, <1>4, <1>5

-----------------------------------------------------------------------------
(* The users: SendMessage and the consumers. *)

LEMMA UserFacts ==
  /\ Sender \subseteq User
  /\ Consumer \subseteq User
  /\ PubKey \in Key
  /\ \A c \in Consumer : ConKey[c] \in Key
BY ClientAssumption

(* The end of SendMessage records the truth. *)
LEMMA SendReturnsTruth ==
  ASSUME RabbitInv, NEW t \in Sender, NEW b \in BOOLEAN, SendReturns(t, b)
  PROVE  /\ pc' \in [Sender -> {"idle", "check", "connect", "declare", "get", "publish", "fail"}]
         /\ result' \in [Sender -> Result]
         /\ ErrorMeansUnsent'
<1> DEFINE r == [published |-> b, counted |-> IF try[t] = 1 THEN "ok" ELSE "bad",
                 failed |-> ~b]
<1>1. r \in Result /\ (r.failed <=> ~r.published)
  BY DEF Result
<1>2. result' = [result EXCEPT ![t] = r] /\ result \in [Sender -> Result]
  BY DEF SendReturns, RabbitInv, ClientTypeOK
<1> HIDE DEF r
<1>3. result' \in [Sender -> Result]
  BY <1>1, <1>2
<1>4. \A s \in Sender : result'[s] = IF s = t THEN r ELSE result[s]
  BY <1>2
<1>5. ErrorMeansUnsent'
  BY <1>1, <1>4 DEF RabbitInv, ErrorMeansUnsent
<1>6. QED
  BY <1>3, <1>5 DEF SendReturns, Goto, RabbitInv, ClientTypeOK

(* A sender's step as the connection sees it. *)
LEMMA SenderKeepsConn ==
  ASSUME RabbitInv, ~crashed, NEW t \in Sender, SendMessage(t) \/ Sending(t)
  PROVE  ConnInv'
<1> USE UserFacts DEF RabbitInv
<1>1. CASE SendMessage(t) \/ CheckConnected(t) \/ ConnectLocks(t) \/ PublishFails(t)
  BY <1>1, StutterKeeps DEF SendMessage, CheckConnected, ConnectLocks, PublishFails
<1>2. CASE DeclareExchange(t)
  BY <1>2, StutterKeeps DEF DeclareExchange, Declared, NotDeclared
<1>3. CASE GetPublishChannel(t)
  BY <1>3, StutterKeeps, CallKeeps DEF GetPublishChannel, NoNewChannel
<1>4. CASE Publish(t)
  BY <1>4, CallKeeps DEF Publish
<1>5. CASE SenderPanics(t)
  BY <1>5, CallKeeps DEF SenderPanics
<1>6. QED
  BY <1>1, <1>2, <1>3, <1>4, <1>5 DEF Sending

(* A sender's step in SendMessage. *)
LEMMA SenderKeepsClient ==
  ASSUME RabbitInv, NEW t \in Sender, SendMessage(t) \/ Sending(t)
  PROVE  ClientTypeOK' /\ ErrorMeansUnsent'
<1> USE DEF Goto, Proceed
<1>1. CASE SendMessage(t)
  <2>1. Unsent \in Result /\ Unsent.counted = "none"
    BY DEF Unsent, Result
  <2>2. result' \in [Sender -> Result]
    BY <1>1, <2>1 DEF SendMessage, RabbitInv, ClientTypeOK
  <2>3. \A s \in Sender : result'[s] = IF s = t THEN Unsent ELSE result[s]
    BY <1>1 DEF SendMessage, RabbitInv, ClientTypeOK
  <2>4. ErrorMeansUnsent'
    BY <2>1, <2>3 DEF RabbitInv, ErrorMeansUnsent
  <2>5. QED
    BY <1>1, <2>2, <2>4 DEF SendMessage, RabbitInv, ClientTypeOK
<1>2. CASE CheckConnected(t)
  BY <1>2 DEF CheckConnected, RabbitInv, ClientTypeOK, ErrorMeansUnsent
<1>3. CASE ConnectLocks(t)
  BY <1>3 DEF ConnectLocks, RabbitInv, ClientTypeOK, ErrorMeansUnsent
<1>4. CASE DeclareExchange(t)
  <2>1. isConnected' \in BOOLEAN /\ muConn' = NoSender
    BY <1>4 DEF DeclareExchange, RabbitInv, ClientTypeOK
  <2>2. UNCHANGED <<result, subscribed>> /\ Proceed(t)
    BY <1>4 DEF DeclareExchange
  <2>3. pc' \in [Sender -> {"idle", "check", "connect", "declare", "get", "publish", "fail"}]
        /\ try' \in [Sender -> 0..2]
    BY <2>2 DEF RabbitInv, ClientTypeOK
  <2>4. QED
    BY <2>1, <2>2, <2>3 DEF RabbitInv, ClientTypeOK, ErrorMeansUnsent
<1>5. CASE GetPublishChannel(t)
  BY <1>5 DEF GetPublishChannel, RabbitInv, ClientTypeOK, ErrorMeansUnsent
<1>6. CASE Publish(t)
  <2>1. CASE held[t] \in alive
    BY <1>6, <2>1, SendReturnsTruth DEF Publish, RabbitInv, ClientTypeOK
  <2>2. CASE held[t] \notin alive
    BY <1>6, <2>2 DEF Publish, RabbitInv, ClientTypeOK, ErrorMeansUnsent
  <2>3. QED
    BY <2>1, <2>2
<1>7. CASE PublishFails(t)
  <2>1. CASE try[t] = 1
    <3>1. isConnected' \in BOOLEAN /\ UNCHANGED <<muConn, result, subscribed>>
      BY <1>7, <2>1 DEF PublishFails
    <3>2. pc' \in [Sender -> {"idle", "check", "connect", "declare", "get", "publish", "fail"}]
          /\ try' \in [Sender -> 0..2]
      BY <1>7, <2>1 DEF PublishFails, RabbitInv, ClientTypeOK
    <3>3. QED
      BY <3>1, <3>2 DEF RabbitInv, ClientTypeOK, ErrorMeansUnsent
  <2>2. CASE try[t] # 1
    BY <1>7, <2>2, SendReturnsTruth DEF PublishFails, RabbitInv, ClientTypeOK
  <2>3. QED
    BY <2>1, <2>2
<1>8. CASE SenderPanics(t)
  BY <1>8 DEF SenderPanics, publisherVars, RabbitInv, ClientTypeOK, ErrorMeansUnsent
<1>9. QED
  BY <1>1, <1>2, <1>3, <1>4, <1>5, <1>6, <1>7, <1>8 DEF Sending

(* A consumer. *)
LEMMA ConsumerKeeps ==
  ASSUME RabbitInv, ~crashed, NEW c \in Consumer, Subscribe(c) \/ Consuming(c)
  PROVE  RabbitInv'
<1>1. ConnInv'
  <2> USE UserFacts DEF RabbitInv
  <2>1. CASE Subscribe(c)
    BY <2>1, StutterKeeps DEF Subscribe
  <2>2. CASE ConsumerDeclares(c)
    BY <2>2, StutterKeeps DEF ConsumerDeclares, Declared, NotDeclared
  <2>3. CASE ConsumerGetsChannel(c)
    BY <2>3, StutterKeeps, CallKeeps DEF ConsumerGetsChannel, NoNewChannel
  <2>4. CASE Consume(c)
    <3>1. (held[c] \in alive) \in BOOLEAN
      OBVIOUS
    <3>2. QED
      BY <2>4, <3>1, CallKeeps DEF Consume
  <2>5. CASE DeliveriesEnd(c) \/ ConsumerStops(c)
    BY <2>5, CallKeeps DEF DeliveriesEnd, ConsumerStops
  <2>6. CASE ConsumerPanics(c)
    BY <2>6, CallKeeps DEF ConsumerPanics
  <2>7. QED
    BY <2>1, <2>2, <2>3, <2>4, <2>5, <2>6 DEF Consuming
<1>2. UNCHANGED publisherVars
  BY DEF Subscribe, Consuming, ConsumerDeclares, ConsumerGetsChannel, Consume,
         DeliveriesEnd, ConsumerStops, ConsumerPanics
<1>3. subscribed' \in [Consumer -> {"idle", "declare", "get", "consume", "receive", "done"}]
  BY DEF Subscribe, Consuming, ConsumerDeclares, ConsumerGetsChannel, Consume,
         DeliveriesEnd, ConsumerStops, ConsumerPanics, At, RabbitInv, ClientTypeOK
<1>4. QED
  BY <1>1, <1>2, <1>3 DEF RabbitInv, ClientTypeOK, ErrorMeansUnsent, publisherVars

-----------------------------------------------------------------------------
(* Every step keeps the invariant. *)
LEMMA RabbitStep == RabbitInv /\ [Next]_vars => RabbitInv'
<1> SUFFICES ASSUME RabbitInv, [Next]_vars PROVE RabbitInv'
  OBVIOUS
<1>1. CASE UNCHANGED vars
  BY <1>1, StutterKeeps DEF vars, publisherVars, RabbitInv, ClientTypeOK, ErrorMeansUnsent
<1>2. CASE ~crashed /\ ConnStep /\ UNCHANGED <<publisherVars, subscribed>>
  <2>1. ConnInv'
    BY <1>2, EnvironmentKeeps, WatcherKeeps, ChanKeeps, CloseKeeps DEF ConnStep, RabbitInv
  <2>2. QED
    BY <1>2, <2>1 DEF publisherVars, RabbitInv, ClientTypeOK, ErrorMeansUnsent
<1>3. ASSUME ~crashed, NEW t \in Sender, SendMessage(t) \/ Sending(t)
      PROVE  RabbitInv'
  BY <1>3, SenderKeepsConn, SenderKeepsClient DEF RabbitInv
<1>4. ASSUME ~crashed, NEW c \in Consumer, Subscribe(c) \/ Consuming(c)
      PROVE  RabbitInv'
  BY <1>4, ConsumerKeeps
<1>5. QED
  BY <1>1, <1>2, <1>3, <1>4 DEF Next

THEOREM RabbitInvariant == Spec => []RabbitInv
<1>1. QED
  BY RabbitInit, RabbitStep, PTL DEF Spec

(* Type correctness of connection, publisher and consumer. *)
THEOREM TypeCorrect == Spec => []TypeOK
<1>1. RabbitInv => TypeOK
  BY DEF RabbitInv, ConnInv, TypeOK
<1>2. QED
  BY <1>1, RabbitInvariant, PTL

(* Nothing brings a connection back after a Close that returned nil. *)
THEOREM ClosedStaysClosedHolds == Spec => []ClosedStaysClosed
<1>1. RabbitInv => ClosedStaysClosed
  BY DEF RabbitInv, ConnInv, ClosedIsFinal, ClosedStaysClosed
<1>2. QED
  BY <1>1, RabbitInvariant, PTL

(* No goroutine comes upon the nil connection between two attempts. *)
THEOREM NoPanicDuringReconnectHolds == Spec => []NoPanicDuringReconnect
<1>1. RabbitInv => NoPanicDuringReconnect
  BY DEF RabbitInv, ConnInv
<1>2. QED
  BY <1>1, RabbitInvariant, PTL

(* SendMessage fails exactly for the messages that were not published. *)
THEOREM ErrorMeansUnsentHolds == Spec => []ErrorMeansUnsent
<1>1. RabbitInv => ErrorMeansUnsent
  BY DEF RabbitInv
<1>2. QED
  BY <1>1, RabbitInvariant, PTL

-----------------------------------------------------------------------------
(* Who holds which lock and which channel, from which follows that nobody  *)
(* waits in a circle.                                                      *)

(* The pool maps a key to a channel that was opened for it. *)
PooledByKey == \A k \in Key : pool[k] # NoChan => KeyOf(pool[k]) = k

(* A lock is held where the code lies between Lock and Unlock, and only    *)
(* there has a sender a channel.                                           *)
SenderHolds(t) ==
  /\ muConn = t <=> pc[t] = "declare"
  /\ t \in readers <=> pc[t] = "publish"
  /\ IF pc[t] = "publish" THEN held[t] \in Chan /\ KeyOf(held[t]) = PubKey ELSE held[t] = NoChan
  /\ watcher = "none" => pc[t] = "idle"

ConsumerHolds(c) ==
  /\ c \in readers <=> subscribed[c] = "consume"
  /\ IF subscribed[c] \in {"consume", "receive"}
     THEN held[c] \in Chan /\ KeyOf(held[c]) = ConKey[c]
     ELSE held[c] = NoChan
  /\ watcher = "none" => subscribed[c] = "idle"

HoldInv ==
  /\ RabbitInv
  /\ PooledByKey
  /\ mu # "free" => readers = {}
  /\ \A t \in Sender : SenderHolds(t)
  /\ \A c \in Consumer : ConsumerHolds(c)

LEMMA HoldInit == Init => HoldInv
<1> SUFFICES ASSUME Init PROVE HoldInv
  OBVIOUS
<1>1. RabbitInv
  BY RabbitInit
<1>2. ASSUME NEW t \in Sender PROVE SenderHolds(t)
  BY UserFacts, ClientAssumption DEF Init, ConnInit, SenderHolds
<1>3. ASSUME NEW c \in Consumer PROVE ConsumerHolds(c)
  BY UserFacts DEF Init, ConnInit, ConsumerHolds
<1>4. PooledByKey /\ (mu # "free" => readers = {})
  BY DEF Init, ConnInit, EmptyPool, PooledByKey
<1>5. QED
  BY <1>1, <1>2, <1>3, <1>4 DEF HoldInv

(* What the connection does by itself leaves users and channels in place.  *)
LEMMA ConnStepHolds ==
  ASSUME HoldInv, ~crashed, ConnStep
  PROVE  /\ UNCHANGED <<readers, held>>
         /\ PooledByKey'
         /\ mu' # "free" => readers' = {}
         /\ watcher # "none" => watcher' # "none"
<1> USE ChanFacts
    DEF HoldInv, RabbitInv, ConnInv, ConnTypeOK, PooledByKey, links, locks, watchers, closer
<1>1. CASE Connect
  BY <1>1 DEF Connect, Connected, EmptyPool
<1>2. CASE Cancel \/ LoseService
  BY <1>2 DEF Cancel, LoseService
<1>3. CASE LoseConnection
  BY <1>3 DEF LoseConnection, LinksEnd, Woken
<1>4. ASSUME NEW ch \in Chan, LoseChannel(ch) \/ ChanStep(ch)
      PROVE  /\ UNCHANGED <<readers, held>> /\ PooledByKey'
             /\ mu' # "free" => readers' = {}
             /\ watcher # "none" => watcher' # "none"
  <2>1. UNCHANGED <<readers, held, mu, watcher>>
    BY <1>4 DEF LoseChannel, ChanStep, ChanLoops, ChanDeletes, ChanDeleteRaces, ChanGoes, Panic
  <2>2. pool' = pool \/ pool' = [pool EXCEPT ![KeyOf(ch)] = NoChan]
    BY <1>4 DEF LoseChannel, ChanStep, ChanLoops, ChanDeletes, ChanDeleteRaces, Panic
  <2>3. PooledByKey'
    BY <2>2
  <2>4. QED
    BY <2>1, <2>3
<1>5. CASE WatcherStep \/ WatcherLocks
  BY <1>5 DEF WatcherStep, WatcherLocks, StartsDialing, WriterMayLock, WatcherLoops,
     WatcherSeesLoss, WatcherGoes, DialFails, DialLoses, DialSucceeds, DialGivesUp,
     NoAttemptsLeft, WatcherUnlocks, DialingEnds, Connected, EmptyPool, Panic
<1>6. CASE CloseLocks \/ CloseStep
  BY <1>6 DEF CloseLocks, CloseBegins, WriterMayLock, CloseStep, CloseChannel, CloseFails,
     ClosePanics, CloseConn, LinksEnd, Woken, Panic
<1>7. QED
  BY <1>1, <1>2, <1>3, <1>4, <1>5, <1>6 DEF ConnStep

(* What a user's call does to the locks and to the channels in use. *)
LEMMA GetHolds ==
  ASSUME HoldInv, NEW u \in User, NEW k \in Key, PooledChannel(u, k) \/ NewChannel(u, k)
  PROVE  /\ PooledByKey' /\ mu' = "free" /\ watcher' = watcher
         /\ readers' = readers \cup {u}
         /\ held'[u] \in Chan /\ KeyOf(held'[u]) = k
         /\ \A v \in User \ {u} : held'[v] = held[v]
<1> USE ChanFacts
    DEF HoldInv, RabbitInv, ConnInv, ConnTypeOK, PooledByKey, links, locks, watchers, closer
<1>1. CASE PooledChannel(u, k)
  BY <1>1 DEF PooledChannel, ReaderMayLock
<1>2. CASE NewChannel(u, k)
  <2>1. PICK i \in 1..MaxChannels :
          /\ pool' = [pool EXCEPT ![k] = <<k, i>>]
          /\ held' = [held EXCEPT ![u] = <<k, i>>]
    BY <1>2 DEF NewChannel
  <2>2. <<k, i>> \in Chan /\ KeyOf(<<k, i>>) = k
    BY <2>1 DEF KeyOf
  <2>3. PooledByKey'
    BY <2>1, <2>2
  <2>4. QED
    BY <1>2, <2>1, <2>2, <2>3 DEF NewChannel, ReaderMayLock
<1>3. QED
  BY <1>1, <1>2

LEMMA UseHolds ==
  ASSUME HoldInv, NEW u \in User, NEW keep \in BOOLEAN, UseChannel(u, keep)
  PROVE  /\ PooledByKey' /\ mu' = mu /\ watcher' = watcher
         /\ readers' = readers \ {u}
         /\ held'[u] = IF keep THEN held[u] ELSE NoChan
         /\ \A v \in User \ {u} : held'[v] = held[v]
BY DEF UseChannel, HoldInv, RabbitInv, ConnInv, ConnTypeOK, PooledByKey, links, locks, watchers, closer

(* A step in which a user takes or gives back nothing of the connection. *)
LEMMA IdleHolds ==
  ASSUME HoldInv, \/ UNCHANGED connVars \/ Declared \/ NotDeclared \/ DeclarePanics
                  \/ \E k \in Key : NoNewChannel(k) \/ ChannelPanics(k)
  PROVE  PooledByKey' /\ UNCHANGED <<mu, readers, held, watcher>>
BY DEF HoldInv, PooledByKey, Declared, NotDeclared, DeclarePanics, NoNewChannel, ChannelPanics,
       Panic, connVars, links, locks, watchers, closer

(* A step of one user leaves what the others hold alone. *)
LEMMA OthersHold ==
  ASSUME HoldInv, NEW u \in User, watcher' = watcher,
         \A v \in User \ {u} : held'[v] = held[v] /\ (v \in readers' <=> v \in readers),
         \A t \in Sender \ {u} : pc'[t] = pc[t] /\ (muConn' = t <=> muConn = t),
         \A c \in Consumer \ {u} : subscribed'[c] = subscribed[c]
  PROVE  /\ \A t \in Sender \ {u} : SenderHolds(t)'
         /\ \A c \in Consumer \ {u} : ConsumerHolds(c)'
<1>1. ASSUME NEW t \in Sender \ {u} PROVE SenderHolds(t)'
  <2>1. SenderHolds(t) /\ t \in User \ {u}
    BY UserFacts DEF HoldInv
  <2>2. QED
    BY <2>1 DEF SenderHolds
<1>2. ASSUME NEW c \in Consumer \ {u} PROVE ConsumerHolds(c)'
  <2>1. ConsumerHolds(c) /\ c \in User \ {u}
    BY UserFacts DEF HoldInv
  <2>2. QED
    BY <2>1 DEF ConsumerHolds
<1>3. QED
  BY <1>1, <1>2

(* SendMessage. *)
LEMMA SenderHoldsOn ==
  ASSUME HoldInv, RabbitInv', ~crashed, NEW t \in Sender, SendMessage(t) \/ Sending(t)
  PROVE  HoldInv'
<1> USE DEF Goto, Proceed
<1>1. /\ SenderHolds(t) /\ PooledByKey /\ (mu # "free" => readers = {})
      /\ t \in User /\ PubKey \in Key /\ NoSender \notin Sender /\ t \notin Consumer
      /\ \A s \in Sender : SenderHolds(s)
      /\ pc \in [Sender -> {"idle", "check", "connect", "declare", "get", "publish", "fail"}]
      /\ muConn \in Sender \cup {NoSender}
  BY UserFacts, ClientAssumption DEF HoldInv, RabbitInv, ClientTypeOK
<1>2. subscribed' = subscribed /\ \A s \in Sender \ {t} : pc'[s] = pc[s]
  BY <1>1 DEF Sending, SendMessage, CheckConnected, ConnectLocks, DeclareExchange,
     GetPublishChannel, Publish, PublishFails, SenderPanics, SendReturns, publisherVars
<1>3. /\ PooledByKey' /\ (mu' # "free" => readers' = {}) /\ watcher' = watcher
      /\ \A v \in User \ {t} : held'[v] = held[v] /\ (v \in readers' <=> v \in readers)
      /\ \A s \in Sender \ {t} : muConn' = s <=> muConn = s
      /\ SenderHolds(t)'
  <2>1. CASE SendMessage(t)
    <3>1. UNCHANGED connVars /\ UNCHANGED muConn
      BY <2>1 DEF SendMessage
    <3>2. UNCHANGED <<mu, readers, held, watcher>> /\ PooledByKey'
      BY <3>1, IdleHolds
    <3>3. pc[t] = "idle" /\ pc'[t] = "check" /\ watcher # "none"
      BY <1>1, <2>1 DEF SendMessage
    <3>4. QED
      BY <1>1, <3>1, <3>2, <3>3 DEF SenderHolds
  <2>2. CASE CheckConnected(t)
    <3>1. UNCHANGED connVars /\ UNCHANGED muConn /\ pc[t] = "check"
      BY <2>2 DEF CheckConnected
    <3>2. UNCHANGED <<mu, readers, held, watcher>> /\ PooledByKey'
      BY <3>1, IdleHolds
    <3>3. pc'[t] \in {"check", "get", "connect"}
      BY <1>1, <2>2 DEF CheckConnected
    <3>4. QED
      BY <1>1, <3>1, <3>2, <3>3 DEF SenderHolds
  <2>3. CASE ConnectLocks(t)
    <3>1. UNCHANGED connVars /\ pc[t] = "connect" /\ muConn = NoSender
      BY <2>3 DEF ConnectLocks
    <3>2. UNCHANGED <<mu, readers, held, watcher>> /\ PooledByKey'
      BY <3>1, IdleHolds
    <3>3. \/ pc'[t] \in {"check", "get"} /\ muConn' = NoSender
          \/ pc'[t] = "declare" /\ muConn' = t
      BY <1>1, <2>3 DEF ConnectLocks
    <3>4. QED
      BY <1>1, <3>1, <3>2, <3>3 DEF SenderHolds
  <2>4. CASE DeclareExchange(t)
    <3>1. pc[t] = "declare" /\ muConn' = NoSender /\ pc'[t] \in {"check", "get"}
      BY <1>1, <2>4 DEF DeclareExchange
    <3>2. UNCHANGED <<mu, readers, held, watcher>> /\ PooledByKey'
      BY <2>4, IdleHolds DEF DeclareExchange
    <3>3. muConn = t
      BY <1>1, <3>1 DEF SenderHolds
    <3>4. QED
      BY <1>1, <3>1, <3>2, <3>3 DEF SenderHolds
  <2>5. CASE GetPublishChannel(t)
    <3>1. pc[t] = "get" /\ muConn' = muConn
      BY <2>5 DEF GetPublishChannel
    <3>2. CASE NoNewChannel(PubKey) /\ Goto(t, "fail")
      <4>1. UNCHANGED <<mu, readers, held, watcher>> /\ PooledByKey' /\ pc'[t] = "fail"
        BY <1>1, <3>2, IdleHolds
      <4>2. QED
        BY <1>1, <3>1, <4>1 DEF SenderHolds
    <3>3. CASE (PooledChannel(t, PubKey) \/ NewChannel(t, PubKey)) /\ Goto(t, "publish")
      <4>1. pc'[t] = "publish"
        BY <1>1, <3>3
      <4>2. QED
        BY <1>1, <3>1, <3>3, <4>1, GetHolds DEF SenderHolds
    <3>4. QED
      BY <2>5, <3>2, <3>3 DEF GetPublishChannel
  <2>6. CASE Publish(t)
    <3>1. pc[t] = "publish" /\ muConn' = muConn /\ pc'[t] \in {"idle", "fail"} /\ UseChannel(t, FALSE)
      BY <1>1, <2>6 DEF Publish, SendReturns
    <3>2. QED
      BY <1>1, <3>1, UseHolds DEF SenderHolds
  <2>7. CASE PublishFails(t)
    <3>1. UNCHANGED connVars /\ UNCHANGED muConn /\ pc[t] = "fail" /\ pc'[t] \in {"idle", "check"}
      BY <1>1, <2>7 DEF PublishFails, SendReturns
    <3>2. UNCHANGED <<mu, readers, held, watcher>> /\ PooledByKey'
      BY <3>1, IdleHolds
    <3>3. QED
      BY <1>1, <3>1, <3>2 DEF SenderHolds
  <2>8. CASE SenderPanics(t)
    <3>1. UNCHANGED <<mu, readers, held, watcher>> /\ PooledByKey'
      BY <1>1, <2>8, IdleHolds DEF SenderPanics
    <3>2. UNCHANGED <<pc, muConn>>
      BY <2>8 DEF SenderPanics, publisherVars
    <3>3. QED
      BY <1>1, <3>1, <3>2 DEF SenderHolds
  <2>9. QED
    BY <2>1, <2>2, <2>3, <2>4, <2>5, <2>6, <2>7, <2>8 DEF Sending
<1>4. /\ \A s \in Sender \ {t} : SenderHolds(s)'
      /\ \A c \in Consumer \ {t} : ConsumerHolds(c)'
  BY <1>1, <1>2, <1>3, OthersHold
<1>5. QED
  BY <1>1, <1>3, <1>4 DEF HoldInv

(* A consumer. *)
LEMMA ConsumerHoldsOn ==
  ASSUME HoldInv, RabbitInv', ~crashed, NEW c \in Consumer, Subscribe(c) \/ Consuming(c)
  PROVE  HoldInv'
<1>1. /\ ConsumerHolds(c) /\ PooledByKey /\ (mu # "free" => readers = {})
      /\ c \in User /\ ConKey[c] \in Key /\ c \notin Sender
      /\ subscribed \in [Consumer -> {"idle", "declare", "get", "consume", "receive", "done"}]
      /\ held \in [User -> Chan \cup {NoChan}]
  BY UserFacts, ClientAssumption
     DEF HoldInv, RabbitInv, ClientTypeOK, ConnInv, ConnTypeOK
<1>2. /\ UNCHANGED <<pc, muConn>>
      /\ \A d \in Consumer \ {c} : subscribed'[d] = subscribed[d]
  BY <1>1 DEF Subscribe, Consuming, ConsumerDeclares, ConsumerGetsChannel, Consume,
     DeliveriesEnd, ConsumerStops, ConsumerPanics, At, publisherVars
<1>3. /\ PooledByKey' /\ (mu' # "free" => readers' = {}) /\ watcher' = watcher
      /\ \A v \in User \ {c} : held'[v] = held[v] /\ (v \in readers' <=> v \in readers)
      /\ ConsumerHolds(c)'
  <2>1. CASE Subscribe(c) \/ ConsumerDeclares(c) \/ ConsumerPanics(c)
    <3>1. UNCHANGED <<mu, readers, held, watcher>> /\ PooledByKey'
      BY <1>1, <2>1, IdleHolds DEF Subscribe, ConsumerDeclares, ConsumerPanics
    <3>2. \/ subscribed[c] = "idle" /\ subscribed'[c] = "declare" /\ watcher # "none"
          \/ subscribed[c] = "declare" /\ subscribed'[c] \in {"declare", "get"}
          \/ subscribed'[c] = subscribed[c]
      BY <1>1, <2>1 DEF Subscribe, ConsumerDeclares, ConsumerPanics, At
    <3>3. QED
      BY <1>1, <3>1, <3>2 DEF ConsumerHolds
  <2>2. CASE ConsumerGetsChannel(c)
    <3>1. CASE (PooledChannel(c, ConKey[c]) \/ NewChannel(c, ConKey[c])) /\ At(c, "consume")
      <4>1. subscribed'[c] = "consume" /\ subscribed[c] = "get"
        BY <1>1, <2>2, <3>1 DEF At, ConsumerGetsChannel
      <4>2. QED
        BY <1>1, <3>1, <4>1, GetHolds DEF ConsumerHolds
    <3>2. CASE NoNewChannel(ConKey[c]) /\ At(c, "declare")
      <4>1. UNCHANGED <<mu, readers, held, watcher>> /\ PooledByKey'
        BY <1>1, <3>2, IdleHolds
      <4>2. subscribed'[c] = "declare" /\ subscribed[c] = "get"
        BY <1>1, <2>2, <3>2 DEF At, ConsumerGetsChannel
      <4>3. QED
        BY <1>1, <4>1, <4>2 DEF ConsumerHolds
    <3>3. QED
      BY <2>2, <3>1, <3>2 DEF ConsumerGetsChannel
  <2>3. CASE Consume(c)
    <3> DEFINE accepted == held[c] \in alive
    <3>1. /\ UseChannel(c, accepted) /\ subscribed[c] = "consume"
          /\ subscribed'[c] = IF accepted THEN "receive" ELSE "declare"
      BY <1>1, <2>3 DEF Consume, At
    <3>2. accepted \in BOOLEAN
      OBVIOUS
    <3> HIDE DEF accepted
    <3>3. QED
      BY <1>1, <3>1, <3>2, UseHolds DEF ConsumerHolds
  <2>4. CASE DeliveriesEnd(c) \/ ConsumerStops(c)
    <3>1. DropChannel(c) /\ subscribed[c] = "receive" /\ subscribed'[c] \in {"declare", "done"}
      BY <1>1, <2>4 DEF DeliveriesEnd, ConsumerStops, At
    <3>2. UNCHANGED <<pool, mu, readers, watcher>> /\ held' = [held EXCEPT ![c] = NoChan]
      BY <3>1 DEF DropChannel, locks, watchers
    <3>3. held'[c] = NoChan /\ \A v \in User \ {c} : held'[v] = held[v]
      BY <1>1, <3>2
    <3>4. QED
      BY <1>1, <3>1, <3>2, <3>3 DEF ConsumerHolds, PooledByKey
  <2>5. QED
    BY <2>1, <2>2, <2>3, <2>4 DEF Consuming
<1>4. /\ \A t \in Sender \ {c} : SenderHolds(t)'
      /\ \A d \in Consumer \ {c} : ConsumerHolds(d)'
  BY <1>1, <1>2, <1>3, OthersHold
<1>5. QED
  BY <1>1, <1>3, <1>4 DEF HoldInv

LEMMA HoldStep == HoldInv /\ [Next]_vars => HoldInv'
<1> SUFFICES ASSUME HoldInv, [Next]_vars PROVE HoldInv'
  OBVIOUS
<1>1. RabbitInv'
  BY RabbitStep DEF HoldInv
<1>2. CASE UNCHANGED vars
  BY <1>1, <1>2 DEF HoldInv, PooledByKey, SenderHolds, ConsumerHolds, vars, connVars, links,
     locks, watchers, closer, publisherVars
<1>3. CASE ~crashed /\ ConnStep /\ UNCHANGED <<publisherVars, subscribed>>
  BY <1>1, <1>3, ConnStepHolds DEF HoldInv, SenderHolds, ConsumerHolds, publisherVars
<1>4. ASSUME ~crashed, NEW t \in Sender, SendMessage(t) \/ Sending(t) PROVE HoldInv'
  BY <1>1, <1>4, SenderHoldsOn
<1>5. ASSUME ~crashed, NEW c \in Consumer, Subscribe(c) \/ Consuming(c) PROVE HoldInv'
  BY <1>1, <1>5, ConsumerHoldsOn
<1>6. QED
  BY <1>2, <1>3, <1>4, <1>5 DEF Next

THEOREM HoldInvariant == Spec => []HoldInv
<1>1. QED
  BY HoldInit, HoldStep, PTL DEF Spec

(* Senders, consumers, the watcher and Close never all wait for each       *)
(* other: the holder of muConn waits at most for mu, whose holder waits    *)
(* for no lock.                                                            *)
THEOREM NobodyIsStuckHolds == Spec => []NobodyIsStuck
<1>1. HoldInv => NobodyIsStuck
  <2> SUFFICES ASSUME HoldInv,
                      \/ \E t \in Sender : pc[t] # "idle"
                      \/ \E c \in Consumer : subscribed[c] \in {"declare", "get"},
                      ~(mu = "watcher" /\ watcher = "dial"), ~(mu = "closer" /\ closing = "pool")
               PROVE  (\E t \in Sender : Sends(t)) \/ (\E c \in Consumer : Connects(c))
    BY DEF NobodyIsStuck
  <2>1. mu = "free"
    BY DEF HoldInv, RabbitInv, ConnInv, ConnTypeOK, LocksAgree
  <2>2. ASSUME NEW t \in Sender, pc[t] # "idle" PROVE \E s \in Sender : Sends(s)
    <3>1. /\ pc[t] \in {"check", "connect", "declare", "get", "publish", "fail"}
          /\ muConn \in Sender \cup {NoSender} /\ watcher # "none"
      BY <2>2 DEF HoldInv, RabbitInv, ClientTypeOK, SenderHolds
    <3>2. CASE pc[t] \in {"connect", "fail"} /\ muConn # NoSender
      <4>1. muConn \in Sender /\ pc[muConn] = "declare"
        BY <3>1, <3>2 DEF HoldInv, SenderHolds
      <4>2. QED
        BY <2>1, <3>1, <4>1 DEF Sends, ReaderMayLock
    <3>3. QED
      BY <2>1, <3>1, <3>2 DEF Sends, ReaderMayLock
  <2>3. ASSUME NEW c \in Consumer, subscribed[c] \in {"declare", "get"} PROVE Connects(c)
    BY <2>1, <2>3 DEF Connects, ReaderMayLock, HoldInv, ConsumerHolds
  <2>4. QED
    BY <2>2, <2>3
<1>2. QED
  BY <1>1, HoldInvariant, PTL
=============================================================================
