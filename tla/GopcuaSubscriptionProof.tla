---------------------- MODULE GopcuaSubscriptionProof ----------------------
(***************************************************************************)
(* The theorem about GopcuaSubscription: no notification goes where nobody *)
(* reads, for any number of subscribers, failures, restarts and messages.  *)
(***************************************************************************)
EXTENDS GopcuaSubscription, TLAPS

(* A call is in ChanSubscribe only while the entity has no subscription,   *)
(* and has made its channel.                                               *)
Calling ==
  calling # NoSubscriber => subscription = NoSubscription /\ ch # Nil

(* Clients and channels are numbered as they are made.                     *)
Numbers ==
  /\ starts \in 0..MaxStarts /\ conn \in 0..starts
  /\ channels \in 0..MaxChannels /\ ch \in 0..channels

(* Once made, a subscription stays with its channel and its readers.       *)
Kept ==
  subscription # NoSubscription =>
    subscription.to = ch /\ \E s \in Subscriber : pc[s] # "idle"

SubscriptionInv ==
  /\ pc \in [Subscriber -> {"idle", "select", "consume", "done"}]
  /\ live \subseteq Subscription
  /\ Numbers
  /\ Calling
  /\ Kept
  /\ NothingUnheard

(* NewEnity has no subscription. *)
LEMMA SubscriptionBegins == Init => SubscriptionInv
  BY GopcuaAssumption DEF Init, SubscriptionInv, Numbers, Calling, Kept, NothingUnheard, Nil

(* A goroutine that was launched is never idle again. *)
LEMMA ReadersStay ==
  ASSUME SubscriptionInv, UNCHANGED <<enityVars, serverVars, callVars>>,
         pc' \in [Subscriber -> {"idle", "select", "consume", "done"}],
         \A s \in Subscriber : pc[s] # "idle" => pc'[s] # "idle"
  PROVE  SubscriptionInv'
  BY DEF SubscriptionInv, Numbers, Calling, Kept, NothingUnheard, enityVars, serverVars, callVars

LEMMA SubscriptionStep == SubscriptionInv /\ [Next]_vars => SubscriptionInv'
<1> SUFFICES ASSUME SubscriptionInv, [Next]_vars PROVE SubscriptionInv'
  OBVIOUS
<1> USE GopcuaAssumption DEF SubscriptionInv
<1>1. CASE UNCHANGED vars \/ Cancel \/ SubscribeNodeIDPanics
  BY <1>1, ReadersStay DEF vars, Cancel, SubscribeNodeIDPanics, Crash, readerVars
<1>2. CASE Start \/ Shutdown
  <2>1. /\ UNCHANGED <<ch, channels, subscription, calling, pc>>
        /\ \/ starts' = starts + 1 /\ starts < MaxStarts /\ conn' = starts'
           \/ starts' = starts /\ conn' = Nil
        /\ live' = {} \/ (live' = live /\ conn = Nil /\ conn' = starts + 1)
    BY <1>2 DEF Start, Shutdown, callVars, readerVars, serverVars
  <2>2. Numbers' /\ Calling' /\ Kept'
    BY <2>1 DEF Numbers, Calling, Kept, Nil
  <2>3. NothingUnheard'
    <3>1. ASSUME NEW sub \in live, conn = Nil PROVE FALSE
      BY <3>1 DEF NothingUnheard, Subscription, Client, Nil
    <3>2. live' = {}
      BY <2>1, <3>1
    <3>3. QED
      BY <3>2 DEF NothingUnheard
  <2>4. QED
    BY <2>1, <2>2, <2>3
<1>3. CASE SubscribeNodeID
  BY <1>3 DEF SubscribeNodeID, Numbers, Calling, Kept, NothingUnheard, enityVars, callVars, readerVars
<1>4. ASSUME NEW sub \in Subscription, Notify(sub) PROVE SubscriptionInv'
  BY <1>4 DEF Notify, Numbers, Calling, Kept, NothingUnheard, enityVars, callVars
<1>5. ASSUME NEW s \in Subscriber, SubscribeAgain(s) \/ Reading(s) PROVE SubscriptionInv'
  BY <1>5, ReadersStay DEF SubscribeAgain, Launch, Reading, Stop, Receive, Consumed
<1>6. ASSUME NEW s \in Subscriber, InitSubscription(s) PROVE SubscriptionInv'
  <2>1. /\ subscription = NoSubscription /\ subscription' = subscription
        /\ UNCHANGED <<conn, starts, live, pc>>
        /\ channels < MaxChannels /\ channels' = channels + 1 /\ ch' = channels + 1
    BY <1>6 DEF InitSubscription, serverVars, readerVars
  <2>2. live = {}
    <3>1. \A sub \in live : sub = NoSubscription /\ sub \in Subscription
      BY <2>1 DEF NothingUnheard
    <3>2. QED
      BY <3>1
  <2>3. Numbers'
    BY <2>1 DEF Numbers
  <2>4. QED
    BY <2>1, <2>2, <2>3 DEF Numbers, Calling, Kept, NothingUnheard, Nil
<1>7. ASSUME NEW s \in Subscriber, Subscribed(s) PROVE SubscriptionInv'
  <2>1. /\ calling = s /\ subscription = NoSubscription
        /\ UNCHANGED <<conn, starts, ch, channels>> /\ conn # Nil /\ ch # Nil
        /\ subscription' = [on |-> conn, to |-> ch]
        /\ live' = live \cup {subscription'}
        /\ calling' = NoSubscriber
        /\ pc' = [pc EXCEPT ![s] = "select"]
    BY <1>7 DEF Subscribed, Launch, Calling
  <2>2. live = {}
    <3>1. \A sub \in live : sub = NoSubscription /\ sub \in Subscription
      BY <2>1 DEF NothingUnheard
    <3>2. QED
      BY <3>1
  <2>3. pc'[s] # "idle"
    BY <2>1
  <2>4. subscription' \in Subscription
    BY <2>1 DEF Numbers, Subscription, Client, Channel, Nil
  <2>5. QED
    BY <2>1, <2>2, <2>3, <2>4 DEF Numbers, Calling, Kept, NothingUnheard
<1>8. ASSUME NEW s \in Subscriber, SubscribeFails(s) \/ SubscribePanics(s) PROVE SubscriptionInv'
  BY <1>8 DEF SubscribeFails, SubscribePanics, Crash, Numbers, Calling, Kept, NothingUnheard, enityVars,
    serverVars, callVars, readerVars
<1>9. QED
  BY <1>1, <1>2, <1>3, <1>4, <1>5, <1>6, <1>7, <1>8 DEF Next, Subscribe

(* Subscribe and Shutdown: whatever fails or is repeated, the server keeps *)
(* no subscription whose channel nobody reads.                             *)
THEOREM NothingUnheardHolds == Spec => []NothingUnheard
<1>1. SubscriptionInv => NothingUnheard
  BY DEF SubscriptionInv
<1>2. QED
  BY <1>1, SubscriptionBegins, SubscriptionStep, PTL DEF Spec
=============================================================================
