------------------------------ MODULE AppProof ------------------------------
(***************************************************************************)
(* Theorems about App: what the manager promises for any set of entities   *)
(* of any providers, with any names, and for any number of them added.     *)
(*                                                                         *)
(* The inductive invariant AppInv says where main is, which handles are    *)
(* open, how far the walk of Shutdown has come, and what the maps and the  *)
(* request in progress hold.                                               *)
(***************************************************************************)
EXTENDS App, SequenceTheorems, TLAPS

Order == 1..Len(enitiesOrder)

(* Add refuses the second of two entities with one full name. *)
NoRepeats ==
  \A i, j \in Order : FullName(enitiesOrder[i]) = FullName(enitiesOrder[j]) => i = j

(* Where main is, and whether the waiter runs by then. *)
Phases ==
  /\ main \in {"adding", "waiting"} => next = 0
  /\ main = "adding" => waiter = "none"
  /\ main = "waiting" => waiterFirst
  /\ main = "started" => ~waiterFirst
  /\ main \in {"started", "looping"} => next = Len(enitiesOrder)
  /\ ~waiterFirst /\ main \in {"starting", "started"} => waiter = "none"
  /\ ~waiterFirst /\ waiter = "shutdown" => main = "looping"
  /\ exit = "clean" => main = "exited"

(* A Start in progress is that of the next entity. *)
StartInPlace ==
  \A e \in Enity : startPc[e] # "idle" =>
    main = "starting" /\ next < Len(enitiesOrder) /\ e = enitiesOrder[next + 1]

(* The entity has connected and was not given up. *)
Underway(e) == startPc[e] # "idle" \/ \E i \in 1..next : e = enitiesOrder[i]

(* Until Shutdown runs, what has been started is open; after it, a handle  *)
(* is open or what a Close of the provider leaves.                         *)
Handles ==
  \A e \in Enity :
    /\ conn[e] = "closed" => T(e).closed = "closed" /\ waiter \in {"shutdown", "done"}
    /\ Underway(e) => conn[e] \in {"open", T(e).closed}
    /\ Underway(e) /\ waiter \in {"none", "select"} => conn[e] = "open"

(* The walk of Shutdown: what is left is the beginning of the order,       *)
(* reversed, and still open; the rest is closed, or has StartWatcher.      *)
Walk ==
  ~waiterFirst /\ waiter = "shutdown" =>
    /\ Len(left) <= Len(enitiesOrder)
    /\ \A i \in 1..Len(left) :
         /\ left[i] = enitiesOrder[Len(left) + 1 - i]
         /\ conn[enitiesOrder[i]] = "open"
    /\ \A i \in Len(left) + 1..Len(enitiesOrder) :
         StartWatcher[enitiesOrder[i]] \/ conn[enitiesOrder[i]] # "open"

(* The group has an error once the waiter is done, and an ErrSignal only   *)
(* after a complete walk.                                                  *)
SignalMeansClosed ==
  /\ waiter = "done" => groupErr # "none"
  /\ ~waiterFirst /\ groupErr = "signal" =>
       /\ waiter = "done"
       /\ \A e \in Added : ~StartWatcher[e] => conn[e] # "open"

(* The maps hold what added entities brought. *)
MapsOfAdded ==
  /\ \A n \in DOMAIN metrics : metrics[n] \in Added
  /\ \A n \in DOMAIN readyChecks : readyChecks[n] \in Added

(* Requests come after Start, and the loop of the handler is in its map. *)
Requests ==
  /\ request # "none" =>
       main \in {"started", "looping", "exited"} /\ next = Len(enitiesOrder)
  /\ request = "none" => unvisited = {} /\ answer = "none"
  /\ answer # "none" => unvisited = {}
  /\ request = "/ready" => unvisited \subseteq DOMAIN readyChecks
  /\ request = "/metrics" => unvisited \subseteq Sampled /\ pinging = {}

(* An entity that was not open when the request came stays closed, and its *)
(* check is still to be visited unless another one has failed.             *)
ClosedIsNoticed ==
  request = "/ready" =>
    \A e \in Added \ refused :
      KindOf[e] \notin {"echo", "dbgraph"} /\ e \notin opened =>
        /\ conn[e] = "nil"
        /\ \/ answer = "failed"
           \/ answer = "none" /\ ChecksOf[e] \subseteq unvisited \ pinging

AppInv ==
  /\ TypeOK
  /\ NoRepeats
  /\ Phases
  /\ StartInPlace
  /\ Handles
  /\ Walk
  /\ SignalMeansClosed
  /\ MapsOfAdded
  /\ AcceptedIsComplete
  /\ Requests
  /\ ClosedIsNoticed
  /\ ScrapesSurvive
  /\ DependenciesOutlive
  /\ CleanExitClosesAll

-----------------------------------------------------------------------------
(* What all rows of Traits have in common.                                 *)
LEMMA HandlesOfProviders ==
  ASSUME NEW e \in Enity
  PROVE  /\ T(e).fresh \in {"nil", "empty"}
         /\ T(e).refused \subseteq {"nil", "empty", "open"}
         /\ T(e).closed \in {"nil", "closed"}
         /\ T(e).unclosed \in {"open", T(e).closed}
         /\ KindOf[e] \notin {"echo", "dbgraph"} => T(e).closed = "nil"
<1>1. KindOf[e] \in Kinds
  BY ProviderAssumption
<1>2. CASE KindOf[e] = "pq"
  BY <1>2 DEF T, Traits, Kinds, PqTraits
<1>3. CASE KindOf[e] = "clickhouse"
  BY <1>3 DEF T, Traits, Kinds, ClickhouseTraits, PqTraits
<1>4. CASE KindOf[e] = "redis"
  BY <1>4 DEF T, Traits, Kinds, RedisTraits
<1>5. CASE KindOf[e] = "rabbitmq"
  BY <1>5 DEF T, Traits, Kinds, RabbitmqTraits
<1>6. CASE KindOf[e] = "gopcua"
  BY <1>6 DEF T, Traits, Kinds, GopcuaTraits
<1>7. CASE KindOf[e] = "dbgraph"
  BY <1>7 DEF T, Traits, Kinds, DbgraphTraits
<1>8. CASE KindOf[e] = "echo"
  BY <1>8 DEF T, Traits, Kinds, EchoTraits
<1>9. QED
  BY <1>1, <1>2, <1>3, <1>4, <1>5, <1>6, <1>7, <1>8 DEF Kinds

(* Every provider but echo has a ready check. *)
LEMMA OneCheck ==
  ASSUME NEW e \in Enity, KindOf[e] # "echo"
  PROVE  \E n : ChecksOf[e] = {n}
<1>1. KindOf[e] \in Kinds
  BY ProviderAssumption
<1>2. B(e).checked
  BY <1>1 DEF B, Builds, Kinds, PqBuilds, ClickhouseBuilds, RedisBuilds, RabbitmqBuilds,
    GopcuaBuilds, DbgraphBuilds
<1>3. QED
  BY <1>2 DEF ChecksOf

(* The order of the entities as a sequence without repetitions. *)
LEMMA OrderFacts ==
  ASSUME enitiesOrder \in Seq(Enity)
  PROVE  /\ Len(enitiesOrder) \in Nat
         /\ \A i \in Order : enitiesOrder[i] \in Enity /\ enitiesOrder[i] \in Added
         /\ \A e \in Added : e \in Enity /\ \E i \in Order : e = enitiesOrder[i]
  BY DEF Order, Added, ToSet

-----------------------------------------------------------------------------
(* Before the first Add. *)
LEMMA AppBegins == Init => AppInv
<1> SUFFICES ASSUME Init PROVE AppInv
  OBVIOUS
<1> USE HandlesOfProviders DEF Init, ProviderInit, RegistryInit
<1>1. Added = {} /\ Len(enitiesOrder) = 0 /\ Order = {} /\ enitiesOrder \in Seq(Enity)
  BY EmptySeq DEF Added, ToSet, Order
<1>2. ProviderTypeOK
  BY DEF ProviderTypeOK, Handle, GroupErr
<1>3. RegistryTypeOK
  BY DEF RegistryTypeOK
<1>4. TypeOK
  <2>1. left \in Seq(Enity) /\ next \in 0..Len(enitiesOrder)
    BY <1>1, EmptySeq
  <2>2. QED
    BY <1>1, <1>2, <1>3, <2>1 DEF TypeOK
<1>5. NoRepeats /\ Phases /\ StartInPlace /\ Walk /\ SignalMeansClosed /\ MapsOfAdded
  BY <1>1 DEF NoRepeats, Phases, StartInPlace, Walk, SignalMeansClosed, MapsOfAdded
<1>6. Handles
  BY DEF Handles, Underway
<1>7. AcceptedIsComplete /\ Requests /\ ClosedIsNoticed /\ ScrapesSurvive
  BY <1>1 DEF AcceptedIsComplete, Requests, ClosedIsNoticed, ScrapesSurvive
<1>8. DependenciesOutlive /\ CleanExitClosesAll
  BY DEF DependenciesOutlive, CleanExitClosesAll
<1>9. QED
  BY <1>4, <1>5, <1>6, <1>7, <1>8 DEF AppInv

(* What an Append does to a map, whether it succeeds or not. *)
Grows(map, names, e, map1) ==
  /\ DOMAIN map \subseteq DOMAIN map1
  /\ \A n \in DOMAIN map : map1[n] = map[n]
  /\ \A n \in DOMAIN map1 \ DOMAIN map : n \in names /\ map1[n] = e

LEMMA AppendsGrow ==
  ASSUME NEW map, NEW names, NEW e, NEW map1,
         AppendsAll(map, names, e, map1) \/ AppendConflicts(map, names, e, map1)
  PROVE  Grows(map, names, e, map1)
<1>1. PICK copied \in SUBSET names : map1 = With(map, copied, e)
  BY DEF AppendsAll, AppendConflicts
<1>2. QED
  BY <1>1 DEF Grows, With

LEMMA AddGrows ==
  ASSUME NEW e \in Enity, AddAppends(e) \/ AddConflicts(e)
  PROVE  /\ Grows(metrics, MetricsOf[e], e, metrics')
         /\ Grows(readyChecks, ChecksOf[e], e, readyChecks')
<1>1. Grows(readyChecks, ChecksOf[e], e, readyChecks)
  BY DEF Grows
<1>2. QED
  BY <1>1, AppendsGrow DEF AddAppends, AddConflicts

(* The maps of an entity that fit are there as a whole. *)
LEMMA AddIsWhole ==
  ASSUME NEW e \in Enity, AddAppends(e)
  PROVE  /\ \A n \in MetricsOf[e] : n \in DOMAIN metrics' /\ metrics'[n] = e
         /\ \A n \in ChecksOf[e] : n \in DOMAIN readyChecks' /\ readyChecks'[n] = e
  BY DEF AddAppends, AppendsAll, With

-----------------------------------------------------------------------------
(* Parts of the invariant that most steps leave alone *)

LEMMA MapsStay ==
  ASSUME AppInv, UNCHANGED <<enitiesOrder, refused, registryVars>>
  PROVE  NoRepeats' /\ MapsOfAdded' /\ AcceptedIsComplete'
  BY DEF AppInv, registryVars, NoRepeats, Order, MapsOfAdded, AcceptedIsComplete, Added

LEMMA NoRequestStays ==
  ASSUME AppInv, UNCHANGED requestVars, request = "none"
  PROVE  Requests' /\ ClosedIsNoticed' /\ ScrapesSurvive'
  BY DEF AppInv, requestVars, Requests, ClosedIsNoticed, ScrapesSurvive

(* A request goes on while entities are shut down. *)
LEMMA RequestStays ==
  ASSUME AppInv, UNCHANGED <<addVars, next, requestVars>>,
         main' = main \/ main' \in {"looping", "exited"},
         \A e \in Enity : conn[e] = "nil" => conn'[e] = "nil",
         waiter' \in {waiter, "done"} \/ waiter' = "shutdown" \/ waiter = "none"
  PROVE  Requests' /\ ClosedIsNoticed' /\ ScrapesSurvive'
<1> USE DEF AppInv, addVars, registryVars, requestVars
<1>1. Requests'
  BY DEF Requests, Sampled
<1>2. ClosedIsNoticed'
  <2>1. Added \subseteq Enity
    BY OrderFacts DEF TypeOK
  <2>2. QED
    BY <2>1 DEF ClosedIsNoticed, Added
<1>3. ScrapesSurvive'
  BY DEF ScrapesSurvive
<1>4. QED
  BY <1>1, <1>2, <1>3

(* A step of the goroutines or of the environment: at most the flags, the  *)
(* group and the channel of the signal change.                             *)
LEMMA BesideMain ==
  ASSUME AppInv, Alive, TypeOK',
         UNCHANGED <<mainVars, conn, startPc, waiter, left, requestVars>>,
         groupErr' = groupErr \/ (groupErr = "none" /\ groupErr' \notin {"none", "signal"})
  PROVE  AppInv'
<1> USE DEF AppInv, mainVars, addVars
<1>1. NoRepeats' /\ MapsOfAdded' /\ AcceptedIsComplete'
  BY MapsStay
<1>2. Requests' /\ ClosedIsNoticed' /\ ScrapesSurvive'
  BY RequestStays
<1>3. Phases' /\ StartInPlace' /\ Walk'
  BY DEF Phases, StartInPlace, Walk
<1>4. Handles'
  BY DEF Handles, Underway
<1>5. SignalMeansClosed'
  BY DEF SignalMeansClosed, Added
<1>6. DependenciesOutlive' /\ CleanExitClosesAll'
  BY DEF DependenciesOutlive, CleanExitClosesAll, Phases, Alive
<1>7. QED
  BY <1>1, <1>2, <1>3, <1>4, <1>5, <1>6

-----------------------------------------------------------------------------
(* The steps of main *)

LEMMA AddKeeps ==
  ASSUME AppInv, NEW e \in Enity, Add(e)
  PROVE  AppInv'
<1> USE DEF AppInv
<1>1. /\ main = "adding" /\ next = 0 /\ waiter = "none" /\ request = "none"
      /\ UNCHANGED <<providerVars, waiterFirst, main, next, exit, waiterVars, requestVars>>
  BY DEF Add, Phases, Requests
<1>2. /\ enitiesOrder' = Append(enitiesOrder, e)
      /\ enitiesOrder \in Seq(Enity) /\ enitiesOrder' \in Seq(Enity)
      /\ Len(enitiesOrder) \in Nat
      /\ Len(enitiesOrder') = Len(enitiesOrder) + 1
      /\ enitiesOrder'[Len(enitiesOrder) + 1] = e
      /\ \A i \in Order : enitiesOrder'[i] = enitiesOrder[i]
  BY DEF Add, TypeOK, Order
<1>3. Added' = Added \cup {e} /\ e \notin Added
  <2>1. e \notin Added
    BY DEF Add
  <2>2. DOMAIN enitiesOrder = Order /\ DOMAIN enitiesOrder' = Order \cup {Len(enitiesOrder) + 1}
    BY <1>2 DEF Order
  <2>3. QED
    BY <1>2, <2>1, <2>2 DEF Added, ToSet
<1>4. /\ Grows(metrics, MetricsOf[e], e, metrics')
      /\ Grows(readyChecks, ChecksOf[e], e, readyChecks')
  BY AddGrows DEF Add
<1>5. refused' \in {refused, refused \cup {e}}
  BY DEF Add
<1>6. TypeOK'
  <2>1. ProviderTypeOK'
    BY <1>1 DEF TypeOK, ProviderTypeOK, providerVars, enities, flags, goroutines, group
  <2>2. RegistryTypeOK'
    BY <1>1, <1>4 DEF TypeOK, RegistryTypeOK, Grows, requestVars
  <2>3. refused' \subseteq Added' /\ next' \in 0..Len(enitiesOrder')
    BY <1>1, <1>2, <1>3, <1>5 DEF TypeOK
  <2>4. QED
    BY <1>1, <1>2, <2>1, <2>2, <2>3 DEF TypeOK, waiterVars
<1>7. NoRepeats'
  <2>1. \A i \in Order : FullName(enitiesOrder[i]) # FullName(e)
    BY OrderFacts DEF Add, TypeOK
  <2>2. Order' = Order \cup {Len(enitiesOrder) + 1}
    BY <1>2 DEF Order
  <2>3. ASSUME NEW i \in Order', NEW j \in Order',
               FullName(enitiesOrder'[i]) = FullName(enitiesOrder'[j])
        PROVE  i = j
    <3>1. CASE i \in Order /\ j \in Order
      BY <1>2, <2>3, <3>1 DEF NoRepeats
    <3>2. CASE i \notin Order \/ j \notin Order
      BY <1>2, <2>1, <2>2, <2>3, <3>2
    <3>3. QED
      BY <3>1, <3>2
  <2>4. QED
    BY <2>3 DEF NoRepeats, FullName
<1>8. MapsOfAdded'
  BY <1>3, <1>4 DEF MapsOfAdded, Grows
<1>9. AcceptedIsComplete'
  <2>1. CASE refused' = refused \cup {e}
    BY <1>3, <1>4, <2>1 DEF AcceptedIsComplete, Grows
  <2>2. CASE AddAppends(e) /\ refused' = refused
    BY <1>3, <1>4, <2>2, AddIsWhole DEF AcceptedIsComplete, Grows
  <2>3. QED
    BY <2>1, <2>2 DEF Add
<1>10. Requests' /\ ClosedIsNoticed' /\ ScrapesSurvive'
  BY <1>1 DEF requestVars, Requests, ClosedIsNoticed, ScrapesSurvive
<1>11. Phases' /\ StartInPlace' /\ Walk'
  BY <1>1 DEF Phases, StartInPlace, Walk, providerVars, enities, waiterVars
<1>12. Handles'
  BY <1>1 DEF Handles, Underway, StartInPlace, providerVars, enities, waiterVars
<1>13. SignalMeansClosed'
  BY <1>1 DEF SignalMeansClosed, Phases, providerVars, group, waiterVars
<1>14. DependenciesOutlive' /\ CleanExitClosesAll'
  BY <1>1 DEF DependenciesOutlive, CleanExitClosesAll, Phases
<1>15. QED
  BY <1>6, <1>7, <1>8, <1>9, <1>10, <1>11, <1>12, <1>13, <1>14

(* What has been started is open until a Shutdown runs. *)
LEMMA StartedAreOpen ==
  ASSUME AppInv, waiter \in {"none", "select"}, next = Len(enitiesOrder)
  PROVE  \A i \in Order : conn[enitiesOrder[i]] = "open"
  BY OrderFacts DEF AppInv, TypeOK, Handles, Underway, Order

(* The calls of main that touch no entity. *)
LEMMA MainCallKeeps ==
  ASSUME AppInv, Alive, CallStart \/ OSSignalWaiter \/ StartStatistic
  PROVE  AppInv'
<1> USE DEF AppInv
<1>1. UNCHANGED <<providerVars, addVars, next, left, closeSignal, requestVars>>
  BY DEF CallStart, OSSignalWaiter, StartStatistic, Exit, waiterVars
<1>2. UNCHANGED <<enities, group, crashed, conn, startPc, groupErr, waiterFirst,
                  enitiesOrder, refused, registryVars>>
  BY <1>1 DEF providerVars, enities, group, addVars
<1>3. /\ main \in {"adding", "waiting", "starting", "started"}
      /\ main' \in {"waiting", "starting", "started", "looping", "exited"}
      /\ exit' \in {exit, "error"} /\ exit' # "clean"
      /\ waiter' = waiter \/ (waiter = "none" /\ waiter' = "select")
      /\ main' = "exited" => exit' = "error"
  <2>1. exit # "clean"
    BY DEF Alive, Phases
  <2>2. CASE CallStart
    BY <2>1, <2>2 DEF CallStart, addVars, waiterVars
  <2>3. CASE OSSignalWaiter
    BY <2>1, <2>3 DEF OSSignalWaiter, Phases, addVars
  <2>4. CASE StartStatistic
    BY <2>1, <2>4 DEF StartStatistic, Exit, TypeOK, waiterVars
  <2>5. QED
    BY <2>2, <2>3, <2>4
<1>4. TypeOK'
  BY <1>1, <1>2, <1>3 DEF TypeOK, ProviderTypeOK, RegistryTypeOK, enities, flags, goroutines,
    group, registryVars, requestVars, Added
<1>5. NoRepeats' /\ MapsOfAdded' /\ AcceptedIsComplete'
  BY <1>2, MapsStay
<1>6. Requests' /\ ClosedIsNoticed' /\ ScrapesSurvive'
  <2>1. CASE request = "none"
    BY <1>1, <2>1, NoRequestStays
  <2>2. CASE main = "started" /\ OSSignalWaiter
    BY <1>1, <1>2, <1>3, <2>2, RequestStays DEF OSSignalWaiter, Phases
  <2>3. QED
    BY <2>1, <2>2 DEF CallStart, OSSignalWaiter, StartStatistic, Requests
<1>7. Phases'
  BY <1>1, <1>2, <1>3 DEF Phases, CallStart, OSSignalWaiter, StartStatistic, Exit, waiterVars
<1>8. StartInPlace'
  <2>1. CASE main = "starting"
    BY <1>1, <1>2, <2>1 DEF StartInPlace, CallStart, OSSignalWaiter, StartStatistic, TypeOK
  <2>2. CASE main # "starting"
    BY <1>1, <1>2, <2>2 DEF StartInPlace
  <2>3. QED
    BY <2>1, <2>2
<1>9. Handles'
  BY <1>1, <1>2, <1>3 DEF Handles, Underway
<1>10. Walk' /\ SignalMeansClosed'
  BY <1>1, <1>2, <1>3 DEF Walk, SignalMeansClosed, Phases, Added
<1>11. DependenciesOutlive'
  <2>1. SUFFICES ASSUME main' = "looping", ~waiterFirst
                 PROVE  \A i \in Order : conn[enitiesOrder[i]] = "open"
    BY <1>2 DEF DependenciesOutlive, Order
  <2>2. waiter = "none" /\ next = Len(enitiesOrder)
    BY <2>1 DEF CallStart, OSSignalWaiter, StartStatistic, Exit, Phases
  <2>3. QED
    BY <2>2, StartedAreOpen
<1>12. CleanExitClosesAll'
  BY <1>3 DEF CleanExitClosesAll
<1>13. QED
  BY <1>4, <1>5, <1>6, <1>7, <1>8, <1>9, <1>10, <1>11, <1>12

(* The fields of an entity keep their types in a step of its Start. *)
LEMMA StartTypes ==
  ASSUME ProviderTypeOK, NEW x \in Enity, UNCHANGED group,
         \/ StartConnects(x) \/ StartRefused(x) \/ Migrated(x) \/ MigrateFails(x)
         \/ MigrateExits(x) \/ StartLaunches(x)
  PROVE  ProviderTypeOK'
<1> USE HandlesOfProviders DEF ProviderTypeOK, Handle, enities, flags, goroutines, group
<1>1. CASE StartConnects(x)
  BY <1>1 DEF StartConnects
<1>2. CASE StartRefused(x)
  BY <1>2 DEF StartRefused
<1>3. CASE Migrated(x) \/ MigrateFails(x)
  BY <1>3 DEF Migrated, MigrateFails
<1>4. CASE MigrateExits(x)
  BY <1>4 DEF MigrateExits, Crash
<1>5. CASE StartLaunches(x)
  BY <1>5 DEF StartLaunches
<1>6. QED
  BY <1>1, <1>2, <1>3, <1>4, <1>5

(* Start connects the next entity, launches its goroutines, or gives up. *)
LEMMA StartKeeps ==
  ASSUME AppInv, Alive, StartEnity
  PROVE  AppInv'
<1> USE DEF AppInv
<1> DEFINE x == enitiesOrder[next + 1]
<1>1. /\ main = "starting" /\ next < Len(enitiesOrder)
      /\ request = "none" /\ exit # "clean"
      /\ ~waiterFirst => waiter = "none"
      /\ UNCHANGED <<group, groupErr, waiterVars, waiter, left, closeSignal, requestVars>>
  BY DEF StartEnity, Requests, TypeOK, Phases, Alive, waiterVars, group
<1>2. /\ next \in Nat /\ Len(enitiesOrder) \in Nat
      /\ x \in Enity /\ next + 1 \in Order
      /\ \A i \in 1..next : i \in Order /\ enitiesOrder[i] # x
  BY <1>1, OrderFacts DEF TypeOK, NoRepeats, Order
<1>3. /\ UNCHANGED <<addVars, waiterFirst, enitiesOrder, refused, registryVars, metrics,
                     readyChecks, Added>>
      /\ \/ UNCHANGED <<main, next, exit>>
         \/ StartLaunches(x) /\ next' = next + 1 /\ UNCHANGED <<main, exit>>
         \/ /\ StartRefused(x) \/ MigrateFails(x)
            /\ main' = "exited" /\ exit' = "error" /\ next' = next
  BY DEF StartEnity, Exit, mainVars, addVars, registryVars, Added
<1>4. \/ (StartConnects(x) \/ Migrated(x) \/ MigrateExits(x)) /\ UNCHANGED mainVars
      \/ StartLaunches(x) /\ next' = next + 1 /\ main' = main
      \/ (StartRefused(x) \/ MigrateFails(x)) /\ main' = "exited" /\ next' = next
  BY DEF StartEnity, Exit
<1>5. \A e \in Enity : startPc[e] # "idle" => e = x
  BY DEF StartInPlace
<1>6. TypeOK'
  <2>1. ProviderTypeOK'
    BY <1>1, <1>2, <1>4, StartTypes DEF TypeOK
  <2>2. RegistryTypeOK'
    BY <1>1, <1>3 DEF TypeOK, RegistryTypeOK, requestVars
  <2>3. next' \in 0..Len(enitiesOrder')
    BY <1>1, <1>2, <1>3 DEF TypeOK
  <2>4. QED
    BY <1>1, <1>3, <2>1, <2>2, <2>3 DEF TypeOK
<1>7. NoRepeats' /\ MapsOfAdded' /\ AcceptedIsComplete'
  BY <1>3, MapsStay
<1>8. Requests' /\ ClosedIsNoticed' /\ ScrapesSurvive'
  BY <1>1, NoRequestStays
<1>9. Phases'
  BY <1>1, <1>3 DEF Phases
<1>10. StartInPlace' /\ Handles'
  <2>1. CASE StartConnects(x) /\ UNCHANGED mainVars
    <3>1. /\ startPc' = [startPc EXCEPT ![x] = startPc'[x]]
          /\ conn' = [conn EXCEPT ![x] = IF @ = "closed" THEN @ ELSE "open"]
          /\ UNCHANGED <<main, next, enitiesOrder, waiter>>
      BY <1>1, <1>2, <2>1 DEF StartConnects, mainVars, addVars, TypeOK, ProviderTypeOK
    <3>2. StartInPlace'
      BY <1>1, <1>5, <3>1 DEF StartInPlace, TypeOK, ProviderTypeOK
    <3>3. \A e \in Enity : e # x => conn'[e] = conn[e] /\ (Underway(e)' => Underway(e))
      BY <3>1 DEF Underway, TypeOK, ProviderTypeOK
    <3>4. conn'[x] = IF conn[x] = "closed" THEN "closed" ELSE "open"
      BY <1>2, <3>1 DEF TypeOK, ProviderTypeOK
    <3>5. QED
      BY <1>1, <3>1, <3>2, <3>3, <3>4 DEF Handles, TypeOK
  <2>2. CASE (Migrated(x) \/ MigrateExits(x)) /\ UNCHANGED mainVars
    <3>1. /\ UNCHANGED <<conn, main, next, enitiesOrder, waiter>>
          /\ \A e \in Enity : startPc'[e] # "idle" => startPc[e] # "idle"
      BY <1>1, <1>2, <2>2 DEF Migrated, MigrateExits, Crash, enities, mainVars, addVars,
        TypeOK, ProviderTypeOK
    <3>2. QED
      BY <3>1 DEF StartInPlace, Handles, Underway
  <2>3. CASE StartLaunches(x) /\ next' = next + 1 /\ main' = main
    <3>1. /\ UNCHANGED <<conn, enitiesOrder, waiter>>
          /\ startPc[x] = "launch"
          /\ \A e \in Enity : startPc'[e] = IF e = x THEN "idle" ELSE startPc[e]
      BY <1>1, <1>2, <1>3, <2>3 DEF StartLaunches, TypeOK, ProviderTypeOK
    <3>2. StartInPlace'
      BY <1>5, <3>1 DEF StartInPlace
    <3>3. ASSUME NEW e \in Enity, Underway(e)' PROVE Underway(e)
      <4>1. CASE e = x
        BY <3>1, <4>1 DEF Underway
      <4>2. CASE e # x
        <5>1. PICK i \in 1..next + 1 : startPc[e] # "idle" \/ e = enitiesOrder[i]
          BY <1>2, <2>3, <3>1, <3>3, <4>2 DEF Underway
        <5>2. i \in 1..next \/ startPc[e] # "idle"
          BY <1>2, <4>2, <5>1
        <5>3. QED
          BY <5>1, <5>2 DEF Underway
      <4>3. QED
        BY <4>1, <4>2
    <3>4. QED
      BY <3>1, <3>2, <3>3 DEF Handles
  <2>4. CASE (StartRefused(x) \/ MigrateFails(x)) /\ main' = "exited" /\ next' = next
    <3>1. /\ UNCHANGED <<enitiesOrder, waiter, next>>
          /\ \A e \in Enity : startPc'[e] = "idle"
          /\ \A e \in Enity : e # x => conn'[e] = conn[e]
          /\ conn'[x] = conn[x] \/ conn'[x] # "closed"
      <4>1. CASE StartRefused(x)
        <5>1. PICK h \in T(x).refused : conn' = [conn EXCEPT ![x] = h]
          BY <4>1 DEF StartRefused
        <5>2. h # "closed"
          BY <1>2, <5>1, HandlesOfProviders
        <5>3. QED
          BY <1>1, <1>2, <1>3, <1>5, <2>4, <4>1, <5>1, <5>2
          DEF StartRefused, TypeOK, ProviderTypeOK
      <4>2. CASE MigrateFails(x)
        BY <1>1, <1>2, <1>3, <1>5, <2>4, <4>2 DEF MigrateFails, TypeOK, ProviderTypeOK
      <4>3. QED
        BY <2>4, <4>1, <4>2
    <3>2. StartInPlace'
      BY <3>1 DEF StartInPlace
    <3>3. \A e \in Enity : Underway(e)' => e # x /\ Underway(e)
      BY <1>2, <3>1 DEF Underway
    <3>4. QED
      BY <3>1, <3>2, <3>3 DEF Handles
  <2>5. QED
    BY <1>4, <2>1, <2>2, <2>3, <2>4
<1>11. Walk' /\ SignalMeansClosed'
  BY <1>1, <1>3 DEF Walk, SignalMeansClosed
<1>12. DependenciesOutlive' /\ CleanExitClosesAll'
  BY <1>1, <1>3 DEF DependenciesOutlive, CleanExitClosesAll
<1>13. QED
  BY <1>6, <1>7, <1>8, <1>9, <1>10, <1>11, <1>12

(* Loop returns when the group is done, with nil after an ErrSignal. *)
LEMMA LoopKeeps ==
  ASSUME AppInv, Alive, Loop
  PROVE  AppInv'
<1> USE DEF AppInv
<1>1. /\ main = "looping" /\ main' = "exited" /\ waiter = "done" /\ GroupDone
      /\ exit' = IF groupErr \in {"none", "signal"} THEN "clean" ELSE "error"
      /\ UNCHANGED <<providerVars, addVars, next, waiterVars, requestVars>>
  BY DEF Loop, Exit
<1>2. /\ UNCHANGED <<enities, group, groupErr, crashed, conn, startPc, waiterFirst, waiter, left,
                     enitiesOrder, refused, registryVars, GroupDone>>
      /\ Added' = Added
  BY <1>1 DEF providerVars, enities, group, addVars, waiterVars, GroupDone, goroutines, Added
<1>3. TypeOK'
  BY <1>1, <1>2 DEF TypeOK, ProviderTypeOK, RegistryTypeOK, enities, flags, goroutines,
    group, registryVars, requestVars, waiterVars
<1>4. NoRepeats' /\ MapsOfAdded' /\ AcceptedIsComplete'
  BY <1>2, MapsStay
<1>5. Requests' /\ ClosedIsNoticed' /\ ScrapesSurvive'
  BY <1>1, <1>2, RequestStays
<1>6. Phases' /\ StartInPlace' /\ Walk' /\ SignalMeansClosed' /\ DependenciesOutlive'
  BY <1>1, <1>2 DEF Phases, StartInPlace, Walk, SignalMeansClosed, DependenciesOutlive
<1>7. Handles'
  BY <1>1, <1>2 DEF Handles, Underway
<1>8. CleanExitClosesAll'
  BY <1>1, <1>2 DEF CleanExitClosesAll, SignalMeansClosed
<1>9. QED
  BY <1>3, <1>4, <1>5, <1>6, <1>7, <1>8

-----------------------------------------------------------------------------
(* The steps of the waiter *)

(* While the waiter runs, a program that called it after Start is in Loop. *)
LEMMA WaiterWithLoop ==
  ASSUME AppInv, Alive, ~waiterFirst, waiter # "none"
  PROVE  main = "looping" /\ next = Len(enitiesOrder)
  BY DEF AppInv, TypeOK, Phases, Alive

LEMMA TakeSignalKeeps ==
  ASSUME AppInv, Alive, TakeSignal
  PROVE  AppInv'
<1> USE DEF AppInv
<1>1. /\ waiter = "select" /\ waiter' = "shutdown" /\ left' = Reverse(enitiesOrder)
      /\ closeSignal' = FALSE
      /\ UNCHANGED <<providerVars, mainVars, requestVars>>
  BY DEF TakeSignal
<1>2. UNCHANGED <<enities, group, groupErr, crashed, conn, startPc, addVars, waiterFirst, main,
                  next, exit, enitiesOrder, refused, registryVars, Added>>
  BY <1>1 DEF providerVars, enities, group, mainVars, addVars, Added
<1>3. /\ left' \in Seq(Enity) /\ Len(left') = Len(enitiesOrder) /\ Len(enitiesOrder) \in Nat
      /\ \A i \in Order : left'[i] = enitiesOrder[Len(enitiesOrder) + 1 - i]
  BY <1>1, OrderFacts DEF Reverse, Order, TypeOK
<1>4. TypeOK'
  BY <1>1, <1>2, <1>3 DEF TypeOK, ProviderTypeOK, RegistryTypeOK, enities, flags, goroutines,
    group, registryVars, requestVars
<1>5. NoRepeats' /\ MapsOfAdded' /\ AcceptedIsComplete'
  BY <1>2, MapsStay
<1>6. Requests' /\ ClosedIsNoticed' /\ ScrapesSurvive'
  BY <1>1, <1>2, RequestStays
<1>7. Walk'
  <2>1. SUFFICES ASSUME ~waiterFirst PROVE Walk'
    BY <1>2 DEF Walk
  <2>2. \A i \in Order : conn[enitiesOrder[i]] = "open"
    BY <1>1, <2>1, WaiterWithLoop, StartedAreOpen
  <2>3. QED
    BY <1>2, <1>3, <2>2 DEF Walk, Order
<1>8. Phases' /\ SignalMeansClosed'
  BY <1>1, <1>2, WaiterWithLoop DEF Phases, SignalMeansClosed
<1>9. StartInPlace' /\ DependenciesOutlive' /\ CleanExitClosesAll'
  BY <1>2 DEF StartInPlace, DependenciesOutlive, CleanExitClosesAll, Phases, Alive
<1>10. Handles'
  BY <1>1, <1>2 DEF Handles, Underway
<1>11. QED
  BY <1>4, <1>5, <1>6, <1>7, <1>8, <1>9, <1>10

(* The waiter returns its error to the group. *)
LEMMA WaiterEndsKeeps ==
  ASSUME AppInv, Alive, TakeCancel \/ DrainFails \/ ReturnErrSignal
  PROVE  AppInv'
<1> USE DEF AppInv
<1>1. /\ waiter \in {"select", "shutdown"} /\ waiter' = "done"
      /\ UNCHANGED <<enities, crashed, mainVars, left, closeSignal, requestVars>>
  BY DEF TakeCancel, DrainFails, ReturnErrSignal
<1>2. UNCHANGED <<conn, startPc, addVars, waiterFirst, main, next, exit, enitiesOrder, refused,
                  registryVars, Added>>
  BY <1>1 DEF enities, mainVars, addVars, Added
<1>3. /\ ctxDone' = TRUE /\ groupErr' \in GroupErr /\ groupErr' # "none"
      /\ groupErr' = "signal" => groupErr = "signal" \/ ReturnErrSignal
  BY DEF TakeCancel, DrainFails, ReturnErrSignal, GroupFails, GroupErr, TypeOK, ProviderTypeOK
<1>4. TypeOK'
  BY <1>1, <1>2, <1>3 DEF TypeOK, ProviderTypeOK, RegistryTypeOK, enities, flags, goroutines,
    registryVars, requestVars
<1>5. NoRepeats' /\ MapsOfAdded' /\ AcceptedIsComplete'
  BY <1>2, MapsStay
<1>6. Requests' /\ ClosedIsNoticed' /\ ScrapesSurvive'
  BY <1>1, <1>2, RequestStays
<1>7. Phases' /\ Walk'
  BY <1>1, <1>2 DEF Phases, Walk
<1>8. StartInPlace' /\ DependenciesOutlive' /\ CleanExitClosesAll'
  BY <1>2 DEF StartInPlace, DependenciesOutlive, CleanExitClosesAll, Phases, Alive
<1>9. Handles'
  BY <1>1, <1>2 DEF Handles, Underway
<1>10. SignalMeansClosed'
  <2>1. SUFFICES ASSUME ~waiterFirst, ReturnErrSignal, NEW e \in Added, ~StartWatcher[e]
                 PROVE  conn[e] # "open"
    BY <1>1, <1>2, <1>3 DEF SignalMeansClosed
  <2>2. waiter = "shutdown" /\ Len(left) = 0
    BY <2>1 DEF ReturnErrSignal
  <2>3. PICK i \in Order : e = enitiesOrder[i]
    BY <2>1, OrderFacts DEF TypeOK
  <2>4. QED
    BY <2>1, <2>2, <2>3, OrderFacts DEF Walk, Order, TypeOK
<1>11. QED
  BY <1>4, <1>5, <1>6, <1>7, <1>8, <1>9, <1>10

(* What a Shutdown that does not panic leaves of the handle of its entity. *)
LEMMA ShutdownHandle ==
  ASSUME ProviderTypeOK, NEW x \in Enity,
         ShutdownPolls(x) \/ ShutdownCloses(x) \/ ShutdownFails(x)
  PROVE  /\ \A e \in Enity : e # x => conn'[e] = conn[e]
         /\ conn'[x] \in {conn[x], T(x).closed}
         /\ conn[x] = "nil" => conn'[x] = "nil"
         /\ ShutdownPolls(x) \/ ShutdownCloses(x) => StartWatcher[x] \/ conn'[x] # "open"
         /\ conn' \in [Enity -> Handle]
         /\ UNCHANGED <<startPc, action, flags, goroutines, crashed>>
<1> USE HandlesOfProviders DEF ProviderTypeOK
<1>1. CASE ShutdownPolls(x)
  BY <1>1 DEF ShutdownPolls, enities
<1>2. CASE ShutdownCloses(x)
  <2>1. /\ conn'[x] = (IF conn[x] = "nil" THEN "nil" ELSE T(x).closed)
        /\ \A e \in Enity : e # x => conn'[e] = conn[e]
        /\ conn' \in [Enity -> Handle]
    BY <1>2 DEF ShutdownCloses, Handle
  <2>2. QED
    BY <1>2, <2>1 DEF ShutdownCloses
<1>3. CASE ShutdownFails(x) /\ ~ShutdownPolls(x) /\ ~ShutdownCloses(x)
  <2>1. /\ conn'[x] = T(x).unclosed /\ conn[x] = "open"
        /\ \A e \in Enity : e # x => conn'[e] = conn[e]
        /\ conn' \in [Enity -> Handle]
    BY <1>3 DEF ShutdownFails, Handle
  <2>2. QED
    BY <1>3, <2>1 DEF ShutdownFails
<1>4. QED
  BY <1>1, <1>2, <1>3

(* Shutdown visits the next entity. *)
LEMMA ShutdownKeeps ==
  ASSUME AppInv, Alive, ShutdownEnity
  PROVE  AppInv'
<1> USE DEF AppInv
<1> DEFINE x == Head(left)
<1>1. /\ waiter = "shutdown" /\ left # <<>> /\ left \in Seq(Enity)
      /\ UNCHANGED <<closeSignal, mainVars, requestVars>>
  BY DEF ShutdownEnity, TypeOK
<1>2. /\ x \in Enity /\ x = left[1]
      /\ Tail(left) \in Seq(Enity)
      /\ \A i \in 1..Len(left) - 1 : Tail(left)[i] = left[i + 1]
  BY <1>1
<1>3. /\ Len(left) \in Nat /\ Len(left) > 0 /\ Len(enitiesOrder) \in Nat
      /\ Len(Tail(left)) = Len(left) - 1
  BY <1>1 DEF TypeOK
<1>4. UNCHANGED <<addVars, waiterFirst, main, next, exit, enitiesOrder, refused, registryVars,
                  Added>>
  BY <1>1 DEF mainVars, addVars, Added
<1>5. CASE ShutdownPanics(x) /\ UNCHANGED <<group, waiter, left>>
  <2>1. UNCHANGED <<enities, conn, startPc, groupErr>> /\ crashed' = TRUE
    BY <1>5 DEF ShutdownPanics, Crash, enities, group
  <2>2. TypeOK'
    BY <1>1, <1>4, <1>5, <2>1 DEF TypeOK, ProviderTypeOK, RegistryTypeOK, enities, flags,
      goroutines, group, registryVars, requestVars
  <2>3. QED
    BY <1>1, <1>5, <2>1, <2>2, BesideMain
<1>6. CASE \/ (ShutdownPolls(x) \/ ShutdownCloses(x)) /\ left' = Tail(left)
                /\ UNCHANGED <<group, waiter>>
           \/ ShutdownFails(x) /\ waiter' = "done" /\ GroupFails("shutdown") /\ left' = left
  <2>1. /\ \A e \in Enity : e # x => conn'[e] = conn[e]
        /\ conn'[x] \in {conn[x], T(x).closed}
        /\ conn[x] = "nil" => conn'[x] = "nil"
        /\ ShutdownPolls(x) \/ ShutdownCloses(x) => StartWatcher[x] \/ conn'[x] # "open"
        /\ conn' \in [Enity -> Handle]
        /\ UNCHANGED <<startPc, action, flags, goroutines, crashed>>
    BY <1>2, <1>6, ShutdownHandle DEF TypeOK
  <2>2. /\ left' \in Seq(Enity) /\ waiter' \in {"shutdown", "done"}
        /\ groupErr' \in GroupErr /\ ctxDone' \in BOOLEAN
        /\ waiter' = "done" => groupErr' # "none"
        /\ groupErr' = "signal" => groupErr = "signal"
    BY <1>1, <1>2, <1>6 DEF GroupFails, GroupErr, group, TypeOK, ProviderTypeOK
  <2>3. TypeOK'
    <3>1. ProviderTypeOK'
      BY <2>1, <2>2 DEF TypeOK, ProviderTypeOK, flags, goroutines
    <3>2. RegistryTypeOK'
      BY <1>1, <1>4 DEF TypeOK, RegistryTypeOK, registryVars, requestVars
    <3>3. QED
      BY <1>1, <1>4, <2>2, <3>1, <3>2 DEF TypeOK
  <2>4. NoRepeats' /\ MapsOfAdded' /\ AcceptedIsComplete'
    BY <1>4, MapsStay
  <2>5. Requests' /\ ClosedIsNoticed' /\ ScrapesSurvive'
    BY <1>1, <1>4, <2>1, <2>2, RequestStays
  <2>6. Phases' /\ StartInPlace' /\ CleanExitClosesAll'
    BY <1>1, <1>4, <2>1, <2>2 DEF Phases, StartInPlace, CleanExitClosesAll, Alive
  <2>7. Handles'
    <3>1. \A e \in Enity : Underway(e)' => Underway(e)
      BY <1>4, <2>1 DEF Underway
    <3>2. \A e \in Enity : conn'[e] = "closed" => T(e).closed = "closed"
      BY <2>1 DEF Handles
    <3>3. \A e \in Enity : Underway(e)' => conn'[e] \in {"open", T(e).closed}
      BY <2>1, <3>1 DEF Handles
    <3>4. QED
      BY <2>2, <3>2, <3>3 DEF Handles
  <2>8. SignalMeansClosed'
    BY <1>1, <2>2 , <1>4 DEF SignalMeansClosed
  <2>9. ASSUME ~waiterFirst
        PROVE  /\ Len(left) \in Order /\ x = enitiesOrder[Len(left)]
               /\ \A i \in Order : i # Len(left) => conn'[enitiesOrder[i]] = conn[enitiesOrder[i]]
    <3>1. Len(left) \in Order /\ x = enitiesOrder[Len(left)]
      BY <1>1, <1>2, <1>3, <2>9, OrderFacts DEF Walk, Order, TypeOK
    <3>2. \A i \in Order : i # Len(left) => enitiesOrder[i] # x /\ enitiesOrder[i] \in Enity
      BY <3>1, OrderFacts DEF NoRepeats, TypeOK
    <3>3. QED
      BY <2>1, <3>1, <3>2
  <2>10. Walk'
    <3>1. SUFFICES ASSUME ~waiterFirst, waiter' = "shutdown" PROVE Walk'
      BY <1>4 DEF Walk
    <3>2. left' = Tail(left) /\ (StartWatcher[x] \/ conn'[x] # "open")
      BY <1>6, <2>1, <3>1
    <3>3. Len(left') <= Len(enitiesOrder)
      BY <1>1, <1>3, <3>1, <3>2 DEF Walk
    <3>4. ASSUME NEW i \in 1..Len(left')
          PROVE  /\ left'[i] = enitiesOrder[Len(left') + 1 - i]
                 /\ conn'[enitiesOrder[i]] = "open"
      <4>1. i \in 1..Len(left) - 1 /\ i + 1 \in 1..Len(left) /\ i \in 1..Len(left) /\ i \in Order
        BY <1>3, <3>1, <3>2, <2>9 DEF Order
      <4>2. left[i + 1] = enitiesOrder[Len(left) + 1 - (i + 1)] /\ conn[enitiesOrder[i]] = "open"
        BY <1>1, <3>1, <4>1 DEF Walk
      <4>3. Len(left) + 1 - (i + 1) = Len(left') + 1 - i
        BY <1>3, <3>2, <4>1
      <4>4. QED
        BY <1>2, <2>9, <3>1, <3>2, <4>1, <4>2, <4>3
    <3>5. ASSUME NEW i \in Len(left') + 1..Len(enitiesOrder)
          PROVE  StartWatcher[enitiesOrder[i]] \/ conn'[enitiesOrder[i]] # "open"
      <4>1. i \in Order /\ (i = Len(left) \/ i \in Len(left) + 1..Len(enitiesOrder))
        BY <1>2, <2>9, <3>1, <3>2, OrderFacts DEF Order, TypeOK
      <4>2. CASE i = Len(left)
        BY <2>9, <3>1, <3>2, <4>2
      <4>3. CASE i \in Len(left) + 1..Len(enitiesOrder)
        <5>1. i # Len(left)
          BY <1>3, <4>3
        <5>2. QED
          BY <1>1, <2>9, <3>1, <4>1, <4>3, <5>1 DEF Walk
      <4>4. QED
        BY <4>1, <4>2, <4>3
    <3>6. QED
      BY <1>4, <3>3, <3>4, <3>5 DEF Walk
  <2>11. DependenciesOutlive'
    <3>1. SUFFICES ASSUME ~waiterFirst, NEW i \in Order, NEW j \in Order, i < j,
                          ~StartWatcher[enitiesOrder[j]], conn'[enitiesOrder[j]] = "open"
                   PROVE  conn'[enitiesOrder[i]] = "open"
      BY <1>4 DEF DependenciesOutlive, Order
    <3>2. j <= Len(left)
      <4>1. SUFFICES ASSUME j > Len(left) PROVE FALSE
        BY <1>3, <3>1 DEF Order
      <4>2. j \in Len(left) + 1..Len(enitiesOrder) /\ j # Len(left)
        BY <1>3, <3>1, <4>1 DEF Order
      <4>3. StartWatcher[enitiesOrder[j]] \/ conn[enitiesOrder[j]] # "open"
        BY <1>1, <3>1, <4>2 DEF Walk
      <4>4. QED
        BY <2>9, <3>1, <4>2, <4>3
    <3>3. i \in 1..Len(left) /\ i # Len(left)
      BY <1>3, <3>1, <3>2 DEF Order
    <3>4. QED
      BY <1>1, <2>9, <3>1, <3>3 DEF Walk
  <2>12. QED
    BY <2>3, <2>4, <2>5, <2>6, <2>7, <2>8, <2>10, <2>11
<1>7. QED
  BY <1>5, <1>6 DEF ShutdownEnity

-----------------------------------------------------------------------------
(* The goroutines of the entities and the environment *)

LEMMA GoroutinesKeep ==
  ASSUME AppInv, Alive, NEW e \in Enity,
         Goroutine(e) \/ ServerFails(e) \/ Cancel \/ Signal,
         Signal \/ UNCHANGED <<mainVars, waiterVars, requestVars>>
  PROVE  AppInv'
<1> USE DEF AppInv, enities, flags, goroutines, group, waiterVars
<1>1. CASE Signal
  <2>1. TypeOK'
    BY <1>1 DEF Signal, TypeOK, ProviderTypeOK, RegistryTypeOK, providerVars, mainVars, addVars,
      registryVars, requestVars, Added
  <2>2. QED
    BY <1>1, <2>1, BesideMain DEF Signal, providerVars
<1>2. CASE ~Signal
  <2>1. UNCHANGED <<mainVars, waiterVars, requestVars>>
    BY <1>2
  <2>2. ProviderTypeOK' /\ UNCHANGED <<conn, startPc>>
    <3>1. CASE WatcherStops(e)
      BY <3>1 DEF WatcherStops, TypeOK, ProviderTypeOK, GroupFails, GroupErr
    <3>2. CASE WorkerPanics(e)
      BY <3>2 DEF WorkerPanics, Crash, TypeOK, ProviderTypeOK
    <3>3. CASE ServerEnds(e)
      BY <3>3 DEF ServerEnds, TypeOK, ProviderTypeOK
    <3>4. CASE ServerFails(e)
      BY <3>4 DEF ServerFails, TypeOK, ProviderTypeOK, GroupFails, GroupErr
    <3>5. CASE Cancel
      BY <3>5 DEF Cancel, TypeOK, ProviderTypeOK
    <3>6. QED
      BY <1>2, <3>1, <3>2, <3>3, <3>4, <3>5 DEF Goroutine
  <2>3. groupErr' = groupErr \/ (groupErr = "none" /\ groupErr' \notin {"none", "signal"})
    BY <1>2 DEF Goroutine, WatcherStops, WorkerPanics, ServerEnds, ServerFails, Cancel, GroupFails
  <2>4. TypeOK'
    BY <2>1, <2>2 DEF TypeOK, RegistryTypeOK, mainVars, addVars, registryVars, requestVars, Added
  <2>5. QED
    BY <2>1, <2>2, <2>3, <2>4, BesideMain
<1>3. QED
  BY <1>1, <1>2

-----------------------------------------------------------------------------
(* Requests *)

(* A step of a handler, or the arrival of a request. *)
LEMMA RequestFrame ==
  ASSUME AppInv, Alive, UNCHANGED <<providerVars, mainVars, waiterVars>>,
         RegistryTypeOK', Requests', ClosedIsNoticed', ScrapesSurvive'
  PROVE  AppInv'
<1> USE DEF AppInv, mainVars, addVars, waiterVars, providerVars, enities, group
<1>1. TypeOK'
  BY DEF TypeOK, ProviderTypeOK, flags, goroutines, Added
<1>2. NoRepeats' /\ MapsOfAdded' /\ AcceptedIsComplete'
  BY MapsStay
<1>3. Phases' /\ StartInPlace' /\ Walk' /\ DependenciesOutlive'
  BY DEF Phases, StartInPlace, Walk, DependenciesOutlive
<1>4. Handles'
  BY DEF Handles, Underway
<1>5. SignalMeansClosed' /\ CleanExitClosesAll'
  BY DEF SignalMeansClosed, CleanExitClosesAll, Added, Phases, Alive
<1>6. QED
  BY <1>1, <1>2, <1>3, <1>4, <1>5

LEMMA RequestKeeps ==
  ASSUME AppInv, Alive, Request
  PROVE  AppInv'
<1> USE DEF AppInv
<1>1. PICK names :
        /\ request' \in {"/ready", "/metrics"}
        /\ request' = "/ready" => names = DOMAIN readyChecks
        /\ request' = "/metrics" => names = Sampled
        /\ unvisited' = names /\ pinging' = {}
        /\ opened' = {e \in Enity : IsOpen(e)}
        /\ answer' = IF names = {} THEN "ok" ELSE "none"
  <2>1. CASE ReadyRequest
    BY <2>1 DEF ReadyRequest, RequestArrives
  <2>2. CASE MetricsRequest
    BY <2>2 DEF MetricsRequest, RequestArrives
  <2>3. QED
    BY <2>1, <2>2 DEF Request
<1>2. /\ UNCHANGED <<providerVars, mainVars, waiterVars>>
      /\ main \in {"started", "looping"} /\ next = Len(enitiesOrder)
  BY DEF Request, Registered, Phases
<1>3. UNCHANGED <<conn, metrics, readyChecks, enitiesOrder, refused, main, next, Added, Sampled>>
  BY <1>2 DEF providerVars, enities, mainVars, addVars, registryVars, Added, Sampled
<1>4. RegistryTypeOK'
  <2>1. unvisited' \subseteq DOMAIN metrics' \cup DOMAIN readyChecks'
    BY <1>1, <1>3 DEF Sampled
  <2>2. QED
    BY <1>1, <1>3, <2>1 DEF TypeOK, RegistryTypeOK
<1>5. Requests'
  BY <1>1, <1>2, <1>3 DEF Requests
<1>6. ClosedIsNoticed'
  <2>1. SUFFICES ASSUME request' = "/ready", NEW e \in Added \ refused,
                        KindOf[e] \notin {"echo", "dbgraph"}, e \notin opened'
                 PROVE  conn[e] = "nil" /\ answer' = "none" /\ ChecksOf[e] \subseteq unvisited'
    BY <1>1, <1>3 DEF ClosedIsNoticed
  <2>2. e \in Enity /\ Underway(e) /\ conn[e] # "open"
    BY <1>1, <1>2, <2>1, OrderFacts DEF TypeOK, Underway, Order, IsOpen
  <2>3. conn[e] = "nil"
    BY <2>1, <2>2, HandlesOfProviders DEF Handles
  <2>4. PICK n : ChecksOf[e] = {n}
    BY <2>1, <2>2, OneCheck
  <2>5. n \in DOMAIN readyChecks
    BY <2>1, <2>4 DEF AcceptedIsComplete
  <2>6. QED
    BY <1>1, <2>1, <2>3, <2>4, <2>5
<1>7. ScrapesSurvive'
  BY <1>1 DEF ScrapesSurvive
<1>8. QED
  BY <1>2, <1>4, <1>5, <1>6, <1>7, RequestFrame

(* The handler visits names, answers and ends. *)
LEMMA HandlerKeeps ==
  ASSUME AppInv, Alive, ServeRequest
  PROVE  AppInv'
<1> USE DEF AppInv
<1>1. UNCHANGED <<providerVars, mainVars, waiterVars>>
  BY DEF ServeRequest
<1>2. UNCHANGED <<conn, metrics, readyChecks, enitiesOrder, refused, main, next, waiter, Added,
                  Sampled>>
  BY <1>1 DEF providerVars, enities, mainVars, addVars, registryVars, waiterVars, Added, Sampled
<1>3. pinging \subseteq unvisited /\ (pinging # {} => request = "/ready" /\ answer = "none")
  BY DEF TypeOK, RegistryTypeOK, Requests
<1>4. CASE RequestEnds
  <2>1. unvisited = {} /\ pinging = {}
    BY <1>3, <1>4 DEF RequestEnds, Requests
  <2>2. RegistryTypeOK'
    BY <1>2, <1>4, <2>1 DEF RequestEnds, TypeOK, RegistryTypeOK
  <2>3. Requests' /\ ClosedIsNoticed' /\ ScrapesSurvive'
    BY <1>4, <2>1 DEF RequestEnds, Requests, ClosedIsNoticed, ScrapesSurvive
  <2>4. QED
    BY <1>1, <2>2, <2>3, RequestFrame
<1>5. ASSUME request \in {"/ready", "/metrics"}, answer = "none", Answers("failed") \/ Answers("panic"),
             Answers("panic") => request = "/metrics" /\ waiter \in {"shutdown", "done"}
      PROVE  AppInv'
  <2>1. /\ unvisited' = {} /\ pinging' = {} /\ request' = request /\ opened' = opened
        /\ answer' \in {"failed", "panic"} /\ (answer' = "panic" <=> Answers("panic"))
    BY <1>5 DEF Answers
  <2>2. RegistryTypeOK'
    BY <1>2, <1>5, <2>1 DEF TypeOK, RegistryTypeOK
  <2>3. Requests' /\ ScrapesSurvive'
    BY <1>2, <1>5, <2>1 DEF Requests, ScrapesSurvive
  <2>4. ClosedIsNoticed'
    BY <1>2, <1>5, <2>1 DEF ClosedIsNoticed
  <2>5. QED
    BY <1>1, <2>2, <2>3, <2>4, RequestFrame
<1>6. ASSUME NEW n \in unvisited, request \in {"/ready", "/metrics"}, answer = "none", Visited(n),
             request = "/ready" => n \in pinging
      PROVE  AppInv'
  <2>1. /\ unvisited' = unvisited \ {n} /\ pinging' = {} /\ request' = request
        /\ opened' = opened /\ answer' = IF unvisited = {n} THEN "ok" ELSE "none"
    BY <1>6 DEF Visited
  <2>2. RegistryTypeOK'
    BY <1>2, <2>1 DEF TypeOK, RegistryTypeOK
  <2>3. Requests' /\ ScrapesSurvive'
    BY <1>2, <1>6, <2>1 DEF Requests, ScrapesSurvive
  <2>4. ClosedIsNoticed'
    <3>1. SUFFICES ASSUME request = "/ready", NEW e \in Added \ refused,
                          KindOf[e] \notin {"echo", "dbgraph"}, e \notin opened
                   PROVE  conn[e] = "nil" /\ answer' = "none" /\ ChecksOf[e] \subseteq unvisited'
      BY <1>2, <2>1 DEF ClosedIsNoticed
    <3>2. conn[e] = "nil" /\ ChecksOf[e] \subseteq unvisited \ pinging
      BY <1>6, <3>1 DEF ClosedIsNoticed
    <3>3. e \in Enity
      BY <3>1, OrderFacts DEF TypeOK
    <3>4. PICK k : ChecksOf[e] = {k}
      BY <3>1, <3>3, OneCheck
    <3>5. QED
      BY <1>6, <2>1, <3>1, <3>2, <3>4
  <2>5. QED
    BY <1>1, <2>2, <2>3, <2>4, RequestFrame
<1>7. CASE CheckConn
  <2>1. PICK n \in unvisited :
          IF conn[readyChecks[n]] = "nil" THEN Answers("failed")
            ELSE pinging' = {n} /\ UNCHANGED <<request, unvisited, opened, answer>>
    BY <1>7 DEF CheckConn
  <2>2. request = "/ready" /\ answer = "none" /\ pinging = {} /\ n \in DOMAIN readyChecks
    BY <1>7 DEF CheckConn, Requests
  <2>3. CASE conn[readyChecks[n]] = "nil"
    <3>1. Answers("failed") /\ ~Answers("panic")
      BY <2>1, <2>3 DEF Answers
    <3>2. QED
      BY <1>5, <2>2, <3>1
  <2>4. CASE conn[readyChecks[n]] # "nil"
    <3>1. pinging' = {n} /\ UNCHANGED <<request, unvisited, opened, answer>>
      BY <2>1, <2>4
    <3>2. RegistryTypeOK'
      BY <1>2, <3>1 DEF TypeOK, RegistryTypeOK
    <3>3. Requests' /\ ScrapesSurvive'
      BY <1>2, <2>2, <3>1 DEF Requests, ScrapesSurvive
    <3>4. ClosedIsNoticed'
      <4>1. ASSUME NEW e \in Added \ refused, conn[e] = "nil" PROVE n \notin ChecksOf[e]
        BY <2>2, <2>4, <4>1 DEF AcceptedIsComplete
      <4>2. QED
        BY <1>2, <2>2, <3>1, <4>1 DEF ClosedIsNoticed
    <3>5. QED
      BY <1>1, <3>2, <3>3, <3>4, RequestFrame
  <2>5. QED
    BY <2>3, <2>4
<1>8. CASE CheckPing
  <2>1. PICK n \in pinging : Visited(n) \/ Answers("failed")
    BY <1>8 DEF CheckPing
  <2>2. n \in unvisited /\ request = "/ready" /\ answer = "none"
    BY <1>3, <2>1
  <2>3. CASE Visited(n)
    BY <1>6, <2>1, <2>2, <2>3
  <2>4. CASE Answers("failed")
    <3>1. ~Answers("panic")
      BY <2>4 DEF Answers
    <3>2. QED
      BY <1>5, <2>2, <2>4, <3>1
  <2>5. QED
    BY <2>1, <2>3, <2>4
<1>9. CASE Sample
  <2>1. PICK n \in unvisited : IF Panics(n) THEN Answers("panic") ELSE Visited(n)
    BY <1>9 DEF Sample
  <2>2. request = "/metrics" /\ answer = "none"
    BY <1>9 DEF Sample
  <2>3. CASE Panics(n)
    <3>1. metrics[n] \in Added
      BY <2>2 DEF Requests, Sampled, MapsOfAdded
    <3>2. PICK i \in Order : metrics[n] = enitiesOrder[i]
      BY <3>1, OrderFacts DEF TypeOK
    <3>3. waiter \notin {"none", "select"}
      BY <2>2, <2>3, <3>2, StartedAreOpen DEF Panics, Requests
    <3>4. waiter \in {"shutdown", "done"}
      BY <3>3 DEF TypeOK
    <3>5. QED
      BY <1>5, <2>1, <2>2, <2>3, <3>4
  <2>4. CASE ~Panics(n)
    BY <1>6, <2>1, <2>2, <2>4
  <2>5. QED
    BY <2>3, <2>4
<1>10. QED
  BY <1>4, <1>7, <1>8, <1>9 DEF ServeRequest, Handler

-----------------------------------------------------------------------------
LEMMA AppStep == AppInv /\ [Next]_vars => AppInv'
<1> SUFFICES ASSUME AppInv, [Next]_vars PROVE AppInv'
  OBVIOUS
<1>1. CASE UNCHANGED vars
  <2>1. UNCHANGED <<providerVars, mainVars, waiterVars, requestVars>>
    BY <1>1 DEF vars
  <2>2. QED
    BY <2>1 DEF AppInv, TypeOK, ProviderTypeOK, RegistryTypeOK, NoRepeats, Order, Phases,
      StartInPlace, Handles, Underway, Walk, SignalMeansClosed, MapsOfAdded,
      AcceptedIsComplete, Requests, ClosedIsNoticed, ScrapesSurvive, DependenciesOutlive,
      CleanExitClosesAll, GroupDone, Added, Sampled, providerVars, enities, flags, goroutines,
      group, mainVars, addVars, registryVars, waiterVars, requestVars
<1>2. ASSUME Alive, NEW e \in Enity, Add(e) \/ Enities(e) PROVE AppInv'
  BY <1>2, AddKeeps, GoroutinesKeep DEF Enities
<1>3. ASSUME Alive, NEW e \in Enity,
             ServerFails(e) /\ UNCHANGED <<mainVars, waiterVars, requestVars>>
      PROVE  AppInv'
  BY <1>3, GoroutinesKeep
<1>4. ASSUME Alive, Main \/ Waiter \/ Request \/ ServeRequest PROVE AppInv'
  BY <1>4, MainCallKeeps, StartKeeps, LoopKeeps, TakeSignalKeeps, WaiterEndsKeeps, ShutdownKeeps,
    RequestKeeps, HandlerKeeps DEF Main, Waiter
<1>5. ASSUME Alive, Signal \/ (Cancel /\ UNCHANGED <<mainVars, waiterVars, requestVars>>)
      PROVE  AppInv'
  <2>1. StatsEnity \in Enity
    BY RegistryAssumption
  <2>2. QED
    BY <1>5, <2>1, GoroutinesKeep
<1>6. QED
  BY <1>1, <1>2, <1>3, <1>4, <1>5 DEF Next

LEMMA AppInvHolds == Spec => []AppInv
  BY AppBegins, AppStep, PTL DEF Spec

(* Type correctness of the manager, its entities, maps and requests. *)
THEOREM TypeCorrect == Spec => []TypeOK
<1>1. AppInv => TypeOK
  BY DEF AppInv
<1>2. QED
  BY <1>1, AppInvHolds, PTL

(* Manager.Shutdown: no entity finds one added before it closed. *)
THEOREM DependenciesOutliveHolds == Spec => []DependenciesOutlive
<1>1. AppInv => DependenciesOutlive
  BY DEF AppInv
<1>2. QED
  BY <1>1, AppInvHolds, PTL

(* Loop: a clean exit has closed everything and left no goroutine. *)
THEOREM CleanExitClosesAllHolds == Spec => []CleanExitClosesAll
<1>1. AppInv => CleanExitClosesAll
  BY DEF AppInv
<1>2. QED
  BY <1>1, AppInvHolds, PTL

(* Manager.Add: whatever names conflict, an accepted entity is complete. *)
THEOREM AcceptedIsCompleteHolds == Spec => []AcceptedIsComplete
<1>1. AppInv => AcceptedIsComplete
  BY DEF AppInv
<1>2. QED
  BY <1>1, AppInvHolds, PTL

(* ReadyCheckHandler: an "ok" is about entities that were open when the    *)
(* request came, although they may be shut down meanwhile.                 *)
THEOREM ReadyMeansOpenHolds == Spec => []ReadyMeansOpen
<1>1. AppInv => ReadyMeansOpen
  <2>1. SUFFICES ASSUME AppInv, request = "/ready", answer = "ok", NEW e \in Added \ refused,
                        KindOf[e] \notin {"echo", "dbgraph"}, e \notin opened
                 PROVE  FALSE
    BY DEF ReadyMeansOpen
  <2>2. QED
    BY <2>1 DEF AppInv, ClosedIsNoticed
<1>2. QED
  BY <1>1, AppInvHolds, PTL

(* PrometheusMiddleware: no function of a metric dereferences a handle     *)
(* that is not open before a signal has come.                              *)
THEOREM ScrapesSurviveHolds == Spec => []ScrapesSurvive
<1>1. AppInv => ScrapesSurvive
  BY DEF AppInv
<1>2. QED
  BY <1>1, AppInvHolds, PTL

-----------------------------------------------------------------------------
(* The refinement of AbstractLifeCycle *)

(* Nothing is open before its Start. *)
NotEarly ==
  main # "exited" => \A e \in Enity : conn[e] = "open" => Underway(e)

(* What the life cycle sees of the manager. *)
Opened == {e \in Added : conn[e] = "open"}
seen == <<waiterFirst, enitiesOrder, main, exit, waiter, conn>>

LEMMA NotEarlyBegins == Init => NotEarly
  BY HandlesOfProviders DEF Init, ProviderInit, NotEarly

(* A step in which no handle is opened and no Start ends. *)
LEMMA NotEarlyStays ==
  ASSUME NotEarly, main # "exited", UNCHANGED <<startPc, enitiesOrder, next>>,
         \A e \in Enity : conn'[e] = "open" => conn[e] = "open"
  PROVE  NotEarly'
  BY DEF NotEarly, Underway

LEMMA NotEarlyStep ==
  ASSUME AppInv, NotEarly, [Next]_vars
  PROVE  NotEarly'
<1> USE DEF AppInv, providerVars, enities, mainVars, addVars
<1>1. CASE UNCHANGED vars
  BY <1>1 DEF vars, NotEarly, Underway
<1>2. ASSUME Alive, NEW e \in Enity, Add(e) PROVE NotEarly'
  <2>1. /\ UNCHANGED <<conn, startPc, next>> /\ next = 0
    BY <1>2 DEF Add, Phases
  <2>2. QED
    BY <1>2, <2>1 DEF NotEarly, Underway, Alive
<1>3. ASSUME Alive, StartEnity PROVE NotEarly'
  <2> DEFINE x == enitiesOrder[next + 1]
  <2>1. /\ next \in Nat /\ Len(enitiesOrder) \in Nat /\ next < Len(enitiesOrder)
        /\ x \in Enity /\ UNCHANGED enitiesOrder
    BY <1>3, OrderFacts DEF StartEnity, Exit, TypeOK, Order
  <2>2. CASE StartConnects(x) /\ UNCHANGED mainVars
    <3>1. /\ \A e \in Enity : e # x => conn'[e] = conn[e] /\ startPc'[e] = startPc[e]
          /\ startPc'[x] # "idle"
          /\ UNCHANGED <<next, main>>
      BY <2>1, <2>2 DEF StartConnects, TypeOK, ProviderTypeOK
    <3>2. QED
      BY <1>3, <2>1, <3>1 DEF NotEarly, Underway, Alive
  <2>3. CASE (Migrated(x) \/ MigrateExits(x)) /\ UNCHANGED mainVars
    <3>1. /\ \A e \in Enity : startPc[e] # "idle" => startPc'[e] # "idle"
          /\ UNCHANGED <<conn, next, main>>
      BY <2>1, <2>3 DEF Migrated, MigrateExits, Crash, TypeOK, ProviderTypeOK
    <3>2. QED
      BY <2>1, <3>1 DEF NotEarly, Underway
  <2>4. CASE StartLaunches(x) /\ next' = next + 1 /\ main' = main
    <3>1. /\ \A e \in Enity : e # x => startPc'[e] = startPc[e]
          /\ conn' = conn
      BY <2>1, <2>4 DEF StartLaunches, TypeOK, ProviderTypeOK
    <3>2. \A e \in Enity : Underway(e) => Underway(e)'
      BY <2>1, <2>4, <3>1 DEF Underway
    <3>3. QED
      BY <2>4, <3>1, <3>2 DEF NotEarly
  <2>5. CASE main' = "exited"
    BY <2>5 DEF NotEarly
  <2>6. QED
    BY <1>3, <2>2, <2>3, <2>4, <2>5 DEF StartEnity, Exit
<1>4. ASSUME Alive, ShutdownEnity PROVE NotEarly'
  <2>1. Head(left) \in Enity /\ UNCHANGED mainVars
    BY <1>4 DEF ShutdownEnity, TypeOK
  <2>2. /\ startPc' = startPc
        /\ \A e \in Enity : conn'[e] = "open" => conn[e] = "open"
    <3>1. CASE ShutdownPanics(Head(left))
      BY <3>1 DEF ShutdownPanics, Crash
    <3>2. CASE ShutdownPolls(Head(left)) \/ ShutdownCloses(Head(left)) \/ ShutdownFails(Head(left))
      <4>1. /\ \A e \in Enity : e # Head(left) => conn'[e] = conn[e]
            /\ conn'[Head(left)] \in {conn[Head(left)], T(Head(left)).closed}
            /\ startPc' = startPc
        BY <2>1, <3>2, ShutdownHandle DEF TypeOK
      <4>2. QED
        BY <2>1, <4>1, HandlesOfProviders
    <3>3. QED
      BY <1>4, <3>1, <3>2 DEF ShutdownEnity
  <2>3. QED
    BY <1>4, <2>1, <2>2, NotEarlyStays DEF Alive
<1>5. ASSUME Alive, CallStart \/ OSSignalWaiter \/ StartStatistic \/ Loop PROVE NotEarly'
  <2>1. UNCHANGED <<conn, startPc, enitiesOrder, next>>
    BY <1>5 DEF CallStart, OSSignalWaiter, StartStatistic, Loop, Exit
  <2>2. QED
    BY <1>5, <2>1, NotEarlyStays DEF Alive
<1>6. ASSUME Alive, TakeSignal \/ TakeCancel \/ DrainFails \/ ReturnErrSignal \/ Signal \/ Request
                    \/ ServeRequest
      PROVE  NotEarly'
  <2>1. UNCHANGED <<conn, startPc, enitiesOrder, next>>
    BY <1>6 DEF TakeSignal, TakeCancel, DrainFails, ReturnErrSignal, Signal, Request, ServeRequest
  <2>2. QED
    BY <1>6, <2>1, NotEarlyStays DEF Alive
<1>7. ASSUME Alive, NEW e \in Enity, Goroutine(e) \/ ServerFails(e) \/ Cancel, UNCHANGED mainVars
      PROVE  NotEarly'
  <2>1. UNCHANGED <<conn, startPc, enitiesOrder, next>>
    BY <1>7 DEF Goroutine, WatcherStops, WorkerPanics, ServerEnds, ServerFails, Cancel, Crash
  <2>2. QED
    BY <1>7, <2>1, NotEarlyStays DEF Alive
<1>8. StatsEnity \in Enity
  BY RegistryAssumption
<1>9. QED
  BY <1>1, <1>2, <1>3, <1>4, <1>5, <1>6, <1>7, <1>8 DEF Next, Main, Waiter, Enities

(* The life cycle of a program that waits for signals before Start is not  *)
(* looked at.                                                              *)
LEMMA UnseenLife ==
  ASSUME waiterFirst, waiterFirst'
  PROVE  UNCHANGED LifeCycle!life
  BY DEF LifeCycle!life

LEMMA SameLife ==
  ASSUME UNCHANGED seen
  PROVE  UNCHANGED LifeCycle!life
  BY DEF seen, LifeCycle!life, Phase, Added

LEMMA AddIsAdd ==
  ASSUME AppInv, NotEarly, ~waiterFirst, NEW e \in Enity, Add(e)
  PROVE  LifeCycle!Add(e)
<1> USE DEF AppInv
<1>1. /\ main = "adding" /\ next = 0
      /\ UNCHANGED <<waiterFirst, main, conn>>
      /\ enitiesOrder' = Append(enitiesOrder, e)
      /\ e \notin Added
  BY DEF Add, Phases, providerVars, enities
<1>2. \A f \in Enity : conn[f] # "open"
  BY <1>1 DEF NotEarly, Underway, StartInPlace
<1>3. /\ Added \subseteq Enity /\ Added' \subseteq Enity
      /\ \A i \in 1..Len(enitiesOrder) : enitiesOrder[i] # e
  <2>1. enitiesOrder \in Seq(Enity) /\ enitiesOrder' \in Seq(Enity)
    BY <1>1 DEF TypeOK
  <2>2. QED
    BY <1>1, <2>1, OrderFacts DEF Added, ToSet
<1>4. Phase = "starting" /\ Phase' = "starting"
  BY <1>1 DEF Phase
<1>5. Opened = {} /\ Opened' = {}
  BY <1>1, <1>2, <1>3 DEF Opened
<1>6. QED
  BY <1>1, <1>3, <1>4, <1>5 DEF LifeCycle!Add, LifeCycle!Place, Opened

(* The Start of the next entity opens it, after all before it, or ends the *)
(* program; the launch of its goroutines is not seen.                      *)
LEMMA StartIsOpen ==
  ASSUME AppInv, NotEarly, Alive, ~waiterFirst, StartEnity
  PROVE  [LifeCycle!Next]_LifeCycle!life
<1> USE DEF AppInv, TypeOK, ProviderTypeOK
<1> DEFINE x == enitiesOrder[next + 1]
<1>1. /\ main = "starting" /\ next < Len(enitiesOrder) /\ waiter = "none"
      /\ next \in Nat /\ Len(enitiesOrder) \in Nat /\ next + 1 \in Order
      /\ UNCHANGED <<waiterFirst, enitiesOrder, waiter, Added>>
      /\ x \in Enity /\ x \in Added
      /\ \A i \in 1..next : i \in Order /\ enitiesOrder[i] # x
  <2>1. /\ main = "starting" /\ next < Len(enitiesOrder) /\ waiter = "none"
        /\ next \in Nat /\ Len(enitiesOrder) \in Nat
        /\ UNCHANGED <<waiterFirst, enitiesOrder, waiter>>
    BY DEF StartEnity, Exit, Phases, mainVars, addVars, waiterVars
  <2>2. next + 1 \in Order /\ \A i \in 1..next : i \in Order /\ i # next + 1
    BY <2>1 DEF Order
  <2>3. x \in Enity /\ x \in Added /\ Added' = Added
    BY <2>1, <2>2, OrderFacts DEF Added
  <2>4. QED
    BY <2>1, <2>2, <2>3 DEF NoRepeats
<1>2. Added \subseteq Enity
  BY OrderFacts
<1>3. Phase = "starting"
  BY <1>1 DEF Phase
<1>4. \A j \in 1..next : enitiesOrder[j] \in Opened
  <2>1. \A j \in 1..next : enitiesOrder[j] \in Enity /\ Underway(enitiesOrder[j])
    BY <1>1, OrderFacts DEF Underway
  <2>2. QED
    BY <1>1, <2>1, OrderFacts DEF Handles, Opened
<1>5. /\ \A j \in 1..(next + 1) - 1 : enitiesOrder[j] \in Opened
      /\ next + 1 \in LifeCycle!Place
  BY <1>1, <1>4 DEF LifeCycle!Place, Order
<1>6. ASSUME Opened' = Opened \cup {x}, Phase' \in {Phase, "error"}
      PROVE  LifeCycle!Next
  <2>1. PICK i \in LifeCycle!Place : i = next + 1
    BY <1>5
  <2>2. LifeCycle!Open(i)
    BY <1>1, <1>3, <1>5, <1>6, <2>1 DEF LifeCycle!Open, Opened
  <2>3. QED
    BY <2>2 DEF LifeCycle!Next
<1>7. ASSUME Opened' = Opened, Phase' = "error" PROVE LifeCycle!GiveUp
  BY <1>1, <1>3, <1>7 DEF LifeCycle!GiveUp, Opened
<1>8. CASE StartConnects(x) /\ UNCHANGED mainVars
  <2>1. /\ conn[x] # "closed"
        /\ conn' = [conn EXCEPT ![x] = "open"]
    BY <1>1, <1>8 DEF StartConnects, Handles
  <2>2. Opened' = Opened \cup {x}
    BY <1>1, <1>2, <2>1 DEF Opened
  <2>3. Phase' = Phase
    BY <1>1, <1>8 DEF Phase, mainVars
  <2>4. QED
    BY <1>6, <2>2, <2>3
<1>9. CASE (Migrated(x) \/ MigrateExits(x)) /\ UNCHANGED mainVars
  <2>1. UNCHANGED seen
    BY <1>1, <1>9 DEF Migrated, MigrateExits, Crash, enities, mainVars, seen
  <2>2. QED
    BY <2>1, SameLife
<1>10. CASE StartLaunches(x) /\ UNCHANGED <<main, exit>>
  <2>1. UNCHANGED seen
    BY <1>1, <1>10 DEF StartLaunches, seen
  <2>2. QED
    BY <2>1, SameLife
<1>11. CASE (StartRefused(x) \/ MigrateFails(x)) /\ Exit("error")
  <2>1. Phase' = "error"
    BY <1>11 DEF Exit, Phase
  <2>2. CASE StartRefused(x)
    <3>1. PICK h : conn' = [conn EXCEPT ![x] = h]
      BY <2>2 DEF StartRefused
    <3>2. x \notin Opened
      <4>1. ~Underway(x)
        BY <1>1, <2>2 DEF StartRefused, Underway
      <4>2. QED
        BY <1>1, <4>1 DEF NotEarly, Opened
    <3>3. CASE h = "open"
      <4>1. Opened' = Opened \cup {x}
        BY <1>1, <1>2, <3>1, <3>3 DEF Opened
      <4>2. QED
        BY <1>6, <2>1, <4>1
    <3>4. CASE h # "open"
      <4>1. Opened' = Opened
        BY <1>1, <1>2, <3>1, <3>2, <3>4 DEF Opened
      <4>2. QED
        BY <1>7, <2>1, <4>1 DEF LifeCycle!Next
    <3>5. QED
      BY <3>3, <3>4
  <2>3. CASE MigrateFails(x)
    <3>1. Opened' = Opened
      BY <1>1, <2>3 DEF MigrateFails, Opened
    <3>2. QED
      BY <1>7, <2>1, <3>1 DEF LifeCycle!Next
  <2>4. QED
    BY <1>11, <2>2, <2>3
<1>12. QED
  BY <1>8, <1>9, <1>10, <1>11 DEF StartEnity

(* Start returns with everything open, or ends the program. *)
LEMMA StatisticIsRun ==
  ASSUME AppInv, ~waiterFirst, StartStatistic
  PROVE  LifeCycle!Run \/ LifeCycle!GiveUp
<1> USE DEF AppInv
<1>1. /\ main = "starting" /\ next = Len(enitiesOrder) /\ waiter = "none" /\ waiter' = "none"
      /\ main' = "started" \/ (main' = "exited" /\ exit' = "error")
      /\ UNCHANGED <<waiterFirst, enitiesOrder, conn, Added>>
  BY DEF StartStatistic, Exit, Phases, addVars, waiterVars, providerVars, enities, Added
<1>2. \A i \in LifeCycle!Place : enitiesOrder[i] \in Opened
  <2>1. LifeCycle!Place = Order
    BY DEF LifeCycle!Place, Order
  <2>2. QED
    BY <1>1, <2>1, StartedAreOpen, OrderFacts DEF TypeOK, Opened
<1>3. Phase = "starting" /\ Phase' \in {"running", "error"} /\ Opened' = Opened
  BY <1>1 DEF Phase, Opened
<1>4. QED
  BY <1>1, <1>2, <1>3 DEF LifeCycle!Run, LifeCycle!GiveUp, Opened

(* A clean exit leaves open what nothing closes. *)
LEMMA LoopIsExit ==
  ASSUME AppInv, AppInv', Alive, ~waiterFirst, Loop
  PROVE  \E how \in {"clean", "error"} : LifeCycle!Exit(how)
<1> USE DEF AppInv
<1>1. /\ main = "looping" /\ waiter = "done" /\ main' = "exited"
      /\ exit' \in {"clean", "error"}
      /\ UNCHANGED <<waiterFirst, enitiesOrder, conn, Added>>
  BY DEF Loop, Exit, addVars, providerVars, enities, Added
<1>2. Phase = "ending" /\ Phase' = exit'
  BY <1>1 DEF Phase
<1>3. exit' = "clean" => Opened \subseteq {e \in Enity : StartWatcher[e]}
  BY <1>1, OrderFacts DEF CleanExitClosesAll, Opened, TypeOK
<1>4. LifeCycle!Exit(exit')
  BY <1>1, <1>2, <1>3 DEF LifeCycle!Exit, Opened
<1>5. QED
  BY <1>1, <1>4

(* The waiter begins to shut down, or leaves. *)
LEMMA WaiterIsShut ==
  ASSUME AppInv, Alive, ~waiterFirst,
         TakeSignal \/ TakeCancel \/ DrainFails \/ ReturnErrSignal
  PROVE  LifeCycle!Shut \/ LifeCycle!End
<1> USE DEF AppInv
<1>1. /\ waiter \in {"select", "shutdown"} /\ waiter' \in {"shutdown", "done"}
      /\ waiter' = "shutdown" => waiter = "select"
      /\ UNCHANGED <<waiterFirst, enitiesOrder, main, conn, Added>>
  BY DEF TakeSignal, TakeCancel, DrainFails, ReturnErrSignal, mainVars, addVars, providerVars,
    enities, Added
<1>2. main = "looping"
  BY <1>1, WaiterWithLoop
<1>3. /\ Phase \in {"running", "closing"} /\ Phase' \in {"closing", "ending"}
      /\ Phase' = "closing" => Phase = "running"
      /\ Opened' = Opened
  BY <1>1, <1>2 DEF Phase, Opened
<1>4. QED
  BY <1>1, <1>3 DEF LifeCycle!Shut, LifeCycle!End, Opened

(* A Shutdown closes the last entity that is open and may be closed.       *)
LEMMA ShutdownIsClose ==
  ASSUME AppInv, Alive, ~waiterFirst, ShutdownEnity
  PROVE  [LifeCycle!Next]_LifeCycle!life
<1> USE DEF AppInv
<1> DEFINE x == Head(left)  i == Len(left)
<1>1. /\ waiter = "shutdown" /\ left # <<>> /\ left \in Seq(Enity) /\ main = "looping"
      /\ UNCHANGED <<waiterFirst, enitiesOrder, main, exit, Added>>
  BY WaiterWithLoop DEF ShutdownEnity, TypeOK, mainVars, addVars, Added
<1>2. x \in Enity /\ x = left[1] /\ i \in Nat /\ i > 0 /\ Len(enitiesOrder) \in Nat
  BY <1>1 DEF TypeOK
<1>3. /\ i \in Order /\ x = enitiesOrder[i] /\ conn[x] = "open"
      /\ \A j \in i + 1..Len(enitiesOrder) :
           StartWatcher[enitiesOrder[j]] \/ conn[enitiesOrder[j]] # "open"
  <2>1. i <= Len(enitiesOrder) /\ left[1] = enitiesOrder[i + 1 - 1] /\ conn[enitiesOrder[i]] = "open"
    BY <1>1, <1>2 DEF Walk
  <2>2. i + 1 - 1 = i
    BY <1>2
  <2>3. QED
    BY <1>1, <1>2, <2>1, <2>2 DEF Walk, Order
<1>4. x \in Added /\ x \in Opened /\ Added \subseteq Enity
  BY <1>3, OrderFacts DEF Opened, TypeOK
<1>5. Phase = "closing" /\ Phase' = IF waiter' = "done" THEN "ending" ELSE "closing"
  <2>1. waiter' \in {"shutdown", "done"}
    BY <1>1 DEF ShutdownEnity
  <2>2. QED
    BY <1>1, <2>1 DEF Phase
<1>6. i \in LifeCycle!Place
  BY <1>3 DEF LifeCycle!Place, Order
<1>7. ASSUME ~StartWatcher[x], conn' = [conn EXCEPT ![x] = conn'[x]], conn'[x] # "open"
      PROVE  LifeCycle!Next
  <2>1. Opened' = Opened \ {x}
    BY <1>1, <1>2, <1>4, <1>7 DEF Opened, TypeOK, ProviderTypeOK
  <2>2. Phase' \in {Phase, "ending"}
    BY <1>5
  <2>3. PICK k \in LifeCycle!Place : k = i
    BY <1>6
  <2>4. \A j \in k + 1..Len(enitiesOrder) :
          enitiesOrder[j] \notin Opened \ {e \in Enity : StartWatcher[e]}
    BY <1>3, <1>4, <2>3 DEF Opened
  <2>5. LifeCycle!Close(k)
    BY <1>1, <1>3, <1>4, <1>5, <1>7, <2>1, <2>2, <2>3, <2>4 DEF LifeCycle!Close, Opened
  <2>6. QED
    BY <2>5 DEF LifeCycle!Next
<1>8. CASE ShutdownPolls(x) /\ UNCHANGED waiter
  <2>1. UNCHANGED seen
    BY <1>1, <1>8 DEF ShutdownPolls, enities, seen
  <2>2. QED
    BY <2>1, SameLife
<1>9. CASE ShutdownCloses(x) /\ UNCHANGED waiter
  <2>1. conn' = [conn EXCEPT ![x] = T(x).closed] /\ T(x).closed # "open" /\ ~StartWatcher[x]
    BY <1>2, <1>3, <1>9, HandlesOfProviders DEF ShutdownCloses
  <2>2. conn' = [conn EXCEPT ![x] = conn'[x]] /\ conn'[x] # "open"
    BY <1>2, <2>1 DEF TypeOK, ProviderTypeOK
  <2>3. QED
    BY <1>7, <2>1, <2>2
<1>10. CASE ShutdownFails(x) /\ waiter' = "done"
  <2>1. conn' = [conn EXCEPT ![x] = T(x).unclosed] /\ ~StartWatcher[x]
    BY <1>10 DEF ShutdownFails
  <2>2. CASE T(x).unclosed = "open"
    <3>1. conn' = conn
      BY <1>2, <1>3, <2>1, <2>2 DEF TypeOK, ProviderTypeOK
    <3>2. LifeCycle!End
      BY <1>1, <1>5, <1>10, <3>1 DEF LifeCycle!End
    <3>3. QED
      BY <3>2 DEF LifeCycle!Next
  <2>3. CASE T(x).unclosed # "open"
    <3>1. conn' = [conn EXCEPT ![x] = conn'[x]] /\ conn'[x] # "open"
      BY <1>2, <2>1, <2>3 DEF TypeOK, ProviderTypeOK
    <3>2. QED
      BY <1>7, <2>1, <3>1
  <2>4. QED
    BY <2>2, <2>3
<1>11. CASE ShutdownPanics(x) /\ UNCHANGED waiter
  <2>1. UNCHANGED seen
    BY <1>1, <1>11 DEF ShutdownPanics, Crash, enities, seen
  <2>2. QED
    BY <2>1, SameLife
<1>12. QED
  BY <1>8, <1>9, <1>10, <1>11 DEF ShutdownEnity

LEMMA LifeBegins == Init => LifeCycle!Init
<1> SUFFICES ASSUME Init PROVE LifeCycle!Init
  OBVIOUS
<1>1. Added = {}
  BY DEF Init, Added, ToSet
<1>2. Phase = "starting"
  BY DEF Init, Phase
<1>3. QED
  BY <1>1, <1>2 DEF Init, LifeCycle!Init

LEMMA LifeStep ==
  ASSUME AppInv, NotEarly, AppInv', [Next]_vars
  PROVE  [LifeCycle!Next]_LifeCycle!life
<1> USE DEF AppInv
<1>1. CASE UNCHANGED vars
  <2>1. UNCHANGED seen
    BY <1>1 DEF vars, seen, providerVars, enities, mainVars, addVars, waiterVars
  <2>2. QED
    BY <2>1, SameLife
<1>2. CASE Next /\ waiterFirst
  <2>1. waiterFirst'
    BY <1>2 DEF Next, Add, Enities, Main, CallStart, OSSignalWaiter, StartEnity, StartStatistic,
      Loop, Exit, Waiter, TakeSignal, TakeCancel, ShutdownEnity, DrainFails, ReturnErrSignal,
      Signal, Request, ServeRequest, mainVars, addVars
  <2>2. QED
    BY <1>2, <2>1, UnseenLife
<1>3. ASSUME Alive, ~waiterFirst, NEW e \in Enity, Add(e)
      PROVE  [LifeCycle!Next]_LifeCycle!life
  <2>1. LifeCycle!Add(e)
    BY <1>3, AddIsAdd
  <2>2. QED
    BY <2>1 DEF LifeCycle!Next
<1>4. ASSUME Alive, ~waiterFirst, CallStart \/ OSSignalWaiter
      PROVE  [LifeCycle!Next]_LifeCycle!life
  <2>1. /\ UNCHANGED <<waiterFirst, enitiesOrder, conn, exit>>
        /\ \/ main = "adding" /\ main' = "starting"
           \/ main = "started" /\ main' = "looping" /\ waiter = "none" /\ waiter' = "select"
    BY <1>4 DEF CallStart, OSSignalWaiter, Phases, addVars, providerVars, enities
  <2>2. Phase' = Phase /\ Added' = Added
    BY <2>1 DEF Phase, Added
  <2>3. UNCHANGED LifeCycle!life
    BY <2>1, <2>2 DEF LifeCycle!life
  <2>4. QED
    BY <2>3
<1>5. ASSUME Alive, ~waiterFirst, StartEnity \/ StartStatistic \/ Loop
      PROVE  [LifeCycle!Next]_LifeCycle!life
  BY <1>5, StartIsOpen, StatisticIsRun, LoopIsExit DEF LifeCycle!Next
<1>6. ASSUME Alive, ~waiterFirst, Waiter
      PROVE  [LifeCycle!Next]_LifeCycle!life
  BY <1>6, WaiterIsShut, ShutdownIsClose DEF Waiter, LifeCycle!Next
<1>7. ASSUME NEW e \in Enity, Goroutine(e) \/ ServerFails(e) \/ Cancel,
             UNCHANGED <<mainVars, waiterVars>>
      PROVE  [LifeCycle!Next]_LifeCycle!life
  <2>1. UNCHANGED seen
    BY <1>7 DEF Goroutine, WatcherStops, WorkerPanics, ServerEnds, ServerFails, Cancel, Crash,
      enities, mainVars, addVars, waiterVars, seen
  <2>2. QED
    BY <2>1, SameLife
<1>8. ASSUME Signal \/ Request \/ ServeRequest
      PROVE  [LifeCycle!Next]_LifeCycle!life
  <2>1. UNCHANGED seen
    BY <1>8 DEF Signal, Request, ServeRequest, providerVars, enities, mainVars, addVars,
      waiterVars, seen
  <2>2. QED
    BY <2>1, SameLife
<1>9. StatsEnity \in Enity
  BY RegistryAssumption
<1>10. QED
  BY <1>1, <1>2, <1>3, <1>4, <1>5, <1>6, <1>7, <1>8, <1>9 DEF Next, Main, Enities

(* The manager as a whole: of an application that waits for signals after  *)
(* Start every step, the failing ones included, is one of the abstract     *)
(* life cycle, in which entities open in the order of Add and close in the *)
(* reverse order.                                                          *)
THEOREM ImplementsLifeCycleHolds == Spec => ImplementsLifeCycle
<1>1. Spec => [](AppInv /\ NotEarly)
  <2>1. AppInv /\ NotEarly /\ [Next]_vars => (AppInv /\ NotEarly)'
    BY AppStep, NotEarlyStep
  <2>2. QED
    BY AppBegins, NotEarlyBegins, <2>1, PTL DEF Spec
<1>2. AppInv /\ NotEarly /\ AppInv' /\ [Next]_vars => [LifeCycle!Next]_LifeCycle!life
  BY LifeStep
<1>3. QED
  BY <1>1, <1>2, LifeBegins, PTL DEF Spec, ImplementsLifeCycle, LifeCycle!Spec
=============================================================================
