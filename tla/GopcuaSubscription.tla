------------------------- MODULE GopcuaSubscription -------------------------
(***************************************************************************)
(* providers/gopcua/enity.go: Subscribe and the goroutines that receive    *)
(* what the OPC UA server notifies of.                                     *)
(*                                                                         *)
(* The entity keeps one subscription and one Go channel for all calls of   *)
(* Subscribe.  The program calls Start, Subscribe and SubscribeNodeID one  *)
(* at a time; Shutdown may come at any moment from the waiter of the       *)
(* application, and the entity may be started again.                       *)
(***************************************************************************)
EXTENDS Naturals, Sequences

CONSTANTS
  Subscriber,     \* the subscribers, one for each call of Subscribe
  QueueSize,      \* Config.QueueSize
  NoSubscription, \* Enity.subscription is nil
  NoSubscriber,   \* no Subscribe is in progress
  MaxStarts,      \* bound: clients that are connected
  MaxChannels,    \* bound: channels that initSubscription makes
  MaxMessages     \* bound: notifications

(* nil for a client or a channel; the others are numbered. *)
Nil == 0

Client == 1..MaxStarts
Channel == 1..MaxChannels
Subscription == [on : Client, to : Channel]

(* A failed message carries an Error instead of data. *)
Message == [number : 1..MaxMessages, failed : BOOLEAN]

ASSUME GopcuaAssumption ==
  /\ QueueSize \in Nat \ {0}
  /\ MaxStarts \in Nat /\ MaxChannels \in Nat /\ MaxMessages \in Nat
  /\ NoSubscription \notin Subscription
  /\ NoSubscriber \notin Subscriber

VARIABLES
  conn,         \* Enity.conn
  starts,       \* clients connected so far
  ch,           \* Enity.ch
  channels,     \* channels made so far
  buffer,       \* what is in the channels
  subscription, \* Enity.subscription
  live,         \* the subscriptions the server keeps
  noded,        \* those of them that have nodes
  calling,      \* the subscriber whose Subscribe is in ChanSubscribe
  monitored,    \* the client its NodeMonitor was made with
  pc,           \* where the goroutine of a subscriber is
  sent,         \* notifications so far
  handled,      \* the messages that were consumed, or logged as failed
  ctxDone,      \* the context is done
  crashed       \* a nil pointer was dereferenced

enityVars == <<conn, starts, ch, channels, subscription>>
serverVars == <<live, noded, sent>>
callVars == <<calling, monitored>>
readerVars == <<buffer, pc, handled>>
vars == <<enityVars, serverVars, callVars, readerVars, ctxDone, crashed>>

Init ==
  /\ conn = Nil
  /\ starts = 0
  /\ ch = Nil
  /\ channels = 0
  /\ buffer = [c \in Channel |-> <<>>]
  /\ subscription = NoSubscription
  /\ live = {}
  /\ noded = {}
  /\ calling = NoSubscriber
  /\ monitored = Nil
  /\ pc = [s \in Subscriber |-> "idle"]
  /\ sent = 0
  /\ handled = {}
  /\ ctxDone = FALSE
  /\ crashed = FALSE

-----------------------------------------------------------------------------
(* The calls of the program *)

Start ==
  /\ calling = NoSubscriber
  /\ conn = Nil
  /\ starts < MaxStarts
  /\ starts' = starts + 1
  /\ conn' = starts + 1
  /\ UNCHANGED <<ch, channels, subscription, serverVars, callVars, readerVars, ctxDone, crashed>>

(* The client is closed, which ends its subscriptions, and the handle      *)
(* cleared; the subscription and the channel are kept.                     *)
Shutdown ==
  /\ conn # Nil
  /\ conn' = Nil
  /\ live' = {}
  /\ noded' = {}
  /\ UNCHANGED <<starts, ch, channels, subscription, sent, callVars, readerVars, ctxDone, crashed>>

(* errorGroup.Go: the subscriber gets its goroutine. *)
Launch(s) == pc' = [pc EXCEPT ![s] = "select"]

(* A subscription was found: Subscribe only launches the goroutine. *)
SubscribeAgain(s) ==
  /\ calling = NoSubscriber /\ pc[s] = "idle"
  /\ subscription # NoSubscription
  /\ Launch(s)
  /\ UNCHANGED <<enityVars, serverVars, callVars, buffer, handled, ctxDone, crashed>>

(* Mutant: initSubscription does not look for a subscription. *)
InitWithoutTest(s) ==
  /\ calling = NoSubscriber /\ pc[s] = "idle"
  /\ channels < MaxChannels
  /\ calling' = s
  /\ monitored' = conn
  /\ channels' = channels + 1
  /\ ch' = channels + 1
  /\ UNCHANGED <<conn, starts, subscription, serverVars, readerVars, ctxDone, crashed>>

(* initSubscription up to ChanSubscribe: a monitor of the present client,  *)
(* and a new channel, whatever becomes of the call.                        *)
InitSubscription(s) ==
  /\ calling = NoSubscriber /\ pc[s] = "idle"
  /\ subscription = NoSubscription
  /\ channels < MaxChannels
  /\ calling' = s
  /\ monitored' = conn
  /\ channels' = channels + 1
  /\ ch' = channels + 1
  /\ UNCHANGED <<conn, starts, subscription, serverVars, readerVars, ctxDone, crashed>>

(* The server accepts the subscription, if the client is still connected. *)
Subscribed(s) ==
  /\ calling = s
  /\ monitored # Nil /\ monitored = conn
  /\ subscription' = [on |-> conn, to |-> ch]
  /\ live' = live \cup {subscription'}
  /\ calling' = NoSubscriber
  /\ Launch(s)
  /\ UNCHANGED <<conn, starts, ch, channels, noded, sent, monitored, buffer, handled, ctxDone,
                 crashed>>

(* Subscribe returns the error, and may be called again. *)
SubscribeFails(s) ==
  /\ calling = s
  /\ monitored # Nil
  /\ calling' = NoSubscriber
  /\ UNCHANGED <<enityVars, serverVars, monitored, readerVars, ctxDone, crashed>>

Crash ==
  /\ crashed' = TRUE
  /\ UNCHANGED <<enityVars, serverVars, callVars, readerVars, ctxDone>>

(* ChanSubscribe of a monitor that was made with a nil client. *)
SubscribePanics(s) == calling = s /\ monitored = Nil /\ Crash

Subscribe(s) ==
  \/ SubscribeAgain(s) \/ InitSubscription(s)
  \/ Subscribed(s) \/ SubscribeFails(s) \/ SubscribePanics(s)

(* AddNodes: the server knows the subscription, or it is an error, which   *)
(* changes nothing.                                                        *)
SubscribeNodeID ==
  /\ calling = NoSubscriber
  /\ subscription \in live
  /\ noded' = noded \cup {subscription}
  /\ UNCHANGED <<enityVars, live, sent, callVars, readerVars, ctxDone, crashed>>

SubscribeNodeIDPanics == calling = NoSubscriber /\ subscription = NoSubscription /\ Crash

-----------------------------------------------------------------------------
(* The monitor of the library puts a notification into the channel, or     *)
(* drops it when that is full.                                             *)
Notify(sub) ==
  /\ sub \in noded
  /\ ~ctxDone
  /\ sent < MaxMessages
  /\ sent' = sent + 1
  /\ \E m \in Message :
       /\ m.number = sent + 1
       /\ buffer' = [buffer EXCEPT ![sub.to] = IF Len(@) < QueueSize THEN Append(@, m) ELSE @]
  /\ UNCHANGED <<enityVars, live, noded, callVars, pc, handled, ctxDone, crashed>>

Cancel ==
  /\ ~ctxDone
  /\ ctxDone' = TRUE
  /\ UNCHANGED <<enityVars, serverVars, callVars, readerVars, crashed>>

-----------------------------------------------------------------------------
(* The goroutine of a subscriber *)

(* case <-ctx.Done() *)
Stop(s) ==
  /\ pc[s] = "select"
  /\ ctxDone
  /\ pc' = [pc EXCEPT ![s] = "done"]
  /\ UNCHANGED <<enityVars, serverVars, callVars, buffer, handled, ctxDone, crashed>>

(* Mutant: the goroutine returns the error of a message. *)
ReceiveGivesUp(s) ==
  /\ pc[s] = "select"
  /\ ch # Nil /\ buffer[ch] # <<>>
  /\ LET m == Head(buffer[ch]) IN
       /\ pc' = [pc EXCEPT ![s] = IF m.failed THEN "done" ELSE "consume"]
       /\ handled' = handled \cup {m.number}
  /\ buffer' = [buffer EXCEPT ![ch] = Tail(@)]
  /\ UNCHANGED <<enityVars, serverVars, callVars, ctxDone, crashed>>

(* case res := <-e.ch: an error is logged, data goes to the subscriber,    *)
(* whose error is only logged.                                             *)
Receive(s) ==
  /\ pc[s] = "select"
  /\ ch # Nil /\ buffer[ch] # <<>>
  /\ LET m == Head(buffer[ch]) IN
       /\ pc' = [pc EXCEPT ![s] = IF m.failed THEN "select" ELSE "consume"]
       /\ handled' = handled \cup {m.number}
  /\ buffer' = [buffer EXCEPT ![ch] = Tail(@)]
  /\ UNCHANGED <<enityVars, serverVars, callVars, ctxDone, crashed>>

(* Consume returns. *)
Consumed(s) ==
  /\ pc[s] = "consume"
  /\ pc' = [pc EXCEPT ![s] = "select"]
  /\ UNCHANGED <<enityVars, serverVars, callVars, buffer, handled, ctxDone, crashed>>

Reading(s) == Stop(s) \/ Receive(s) \/ Consumed(s)

-----------------------------------------------------------------------------
Next ==
  /\ ~crashed
  /\ \/ Start \/ Shutdown \/ SubscribeNodeID \/ SubscribeNodeIDPanics \/ Cancel
     \/ \E s \in Subscriber : Subscribe(s) \/ Reading(s)
     \/ \E sub \in Subscription : Notify(sub)

Spec == Init /\ [][Next]_vars

(* The goroutines run, and Consume returns. *)
Fairness == \A s \in Subscriber : WF_vars(~crashed /\ Reading(s))

FairSpec == Spec /\ Fairness

-----------------------------------------------------------------------------
(* Properties *)

(* However often Subscribe fails, is repeated or overlaps a Shutdown, the  *)
(* server keeps no subscription but that of the entity, and this one       *)
(* writes to the channel the goroutines read: nothing the server notifies  *)
(* of goes where nobody reads.                                             *)
NothingUnheard ==
  \A sub \in live :
    /\ sub = subscription
    /\ sub.on = conn
    /\ sub.to = ch
    /\ \E s \in Subscriber : pc[s] # "idle"

(* A notification is in a channel. *)
Waiting(n) == \E c \in Channel : \E i \in DOMAIN buffer[c] : buffer[c][i].number = n

(* What is in a channel gets to a subscriber or, if it is an error, into   *)
(* the log: neither errors nor a Shutdown of the entity stop the           *)
(* goroutines.                                                             *)
NotifiedIsHandled ==
  \A n \in 1..MaxMessages : Waiting(n) ~> n \in handled \/ ctxDone \/ crashed
=============================================================================
