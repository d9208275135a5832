------------------------ MODULE ProviderClientProof ------------------------
(***************************************************************************)
(* Theorems about ProviderClient: what Start and Shutdown promise to a     *)
(* program that calls them any number of times, for any set of entities of *)
(* any providers and any configuration.                                    *)
(*                                                                         *)
(* The inductive invariant ClientInv ties the flags to the goroutines they *)
(* stand for, and the handle to the place a Start has reached and to what  *)
(* the latest call returned.                                               *)
(***************************************************************************)
EXTENDS ProviderClient, TLAPS

(* The flag of the queue worker tells the truth, as that of the watcher.   *)
OneWorker ==
  \A e \in Enity : workers[e] = IF queueWorkerStopped[e] THEN 0 ELSE 1

(* A provider that clears its handle on Close never keeps a closed one,    *)
(* and a Start that has connected keeps its connection until it returns;   *)
(* a client that does not clear its handle has none before it connects.    *)
HandleIsLive ==
  \A e \in Enity :
    /\ T(e).closed = "nil" =>
         conn[e] # "closed" /\ (startPc[e] # "idle" => conn[e] = "open")
    /\ T(e).closed # "nil" /\ T(e).watches => conn[e] # "empty"

(* Only providers with migrations run them.                                *)
MigratesOnly == \A e \in Enity : startPc[e] = "migrate" => T(e).migrates

(* Start will take a handle for a running entity: then it is one.          *)
ConnectedIsWatched ==
  \A e \in Enity :
    /\ T(e).watches /\ FailsClean(e) /\ ~ctxDone
    /\ startPc[e] = "idle" /\ conn[e] \in {"open", "closed"}
    => watchers[e] = 1

ClientInv ==
  /\ TypeOK
  /\ OneWatcher
  /\ OneWorker
  /\ HandleIsLive
  /\ MigratesOnly
  /\ ConnectedIsWatched
  /\ CleanStartIsWatched
  /\ StartedIsConnected
  /\ ShutIsClosed

-----------------------------------------------------------------------------
(* What all rows of Traits have in common.                                 *)
LEMMA TraitsFacts ==
  ASSUME NEW e \in Enity
  PROVE  /\ T(e).fresh \in {"nil", "empty"}
         /\ T(e).refused \subseteq {"nil", "empty", "open"}
         /\ T(e).closed \in {"nil", "closed"}
         /\ T(e).unclosed \in {"open", "closed"}
         /\ T(e).closed = "nil" => T(e).unclosed = "open" /\ T(e).rechecks
         /\ T(e).watches => T(e).rechecks
         /\ T(e).closed # "nil" /\ T(e).watches =>
              "empty" \notin T(e).refused \cup {T(e).fresh}
         /\ T(e).watches \in BOOLEAN
         /\ T(e).rechecks \in BOOLEAN
         /\ T(e).migrates \in BOOLEAN
         /\ T(e).serves \in BOOLEAN
<1>1. KindOf[e] \in Kinds
  BY ProviderAssumption
<1>2. CASE KindOf[e] = "pq"
  BY <1>2 DEF T, Traits, Kinds, PqTraits
<1>3. CASE KindOf[e] = "clickhouse"
  BY <1>3 DEF T, Traits, Kinds, ClickhouseTraits, PqTraits
<1>4. CASE KindOf[e] = "redis"
  BY <1>4 DEF T, Traits, Kinds, RedisTraits
<1>5. CASE KindOf[e] = "rabbitmq"
  BY <1>5 DEF T, Traits, Kinds, RabbitmqTraits
<1>6. CASE KindOf[e] = "gopcua"
  BY <1>6 DEF T, Traits, Kinds, GopcuaTraits
<1>7. CASE KindOf[e] = "dbgraph"
  BY <1>7 DEF T, Traits, Kinds, DbgraphTraits
<1>8. CASE KindOf[e] = "echo"
  BY <1>8 DEF T, Traits, Kinds, EchoTraits
<1>9. QED
  BY <1>1, <1>2, <1>3, <1>4, <1>5, <1>6, <1>7, <1>8 DEF Kinds

(* NewEnity establishes the invariant. *)
LEMMA ClientInit == Init => ClientInv
<1> SUFFICES ASSUME Init PROVE ClientInv
  OBVIOUS
<1> USE TraitsFacts DEF Init, ProviderInit
<1>1. TypeOK
  BY DEF TypeOK, ProviderTypeOK, Handle, GroupErr
<1>2. OneWatcher /\ OneWorker
  BY DEF OneWatcher, OneWorker
<1>3. HandleIsLive /\ MigratesOnly /\ ConnectedIsWatched
  BY DEF HandleIsLive, MigratesOnly, ConnectedIsWatched
<1>4. CleanStartIsWatched /\ StartedIsConnected /\ ShutIsClosed
  BY DEF CleanStartIsWatched, StartedIsConnected, ShutIsClosed
<1>5. QED
  BY <1>1, <1>2, <1>3, <1>4 DEF ClientInv

-----------------------------------------------------------------------------
(* Every step of a Start keeps the invariant. *)
LEMMA StartStepKeeps ==
  ASSUME ClientInv, NEW x \in Enity, StartStep(x)
  PROVE  ClientInv'
<1> USE TraitsFacts DEF ClientInv, TypeOK, ProviderTypeOK, OneWatcher, OneWorker,
      HandleIsLive, MigratesOnly, ConnectedIsWatched, CleanStartIsWatched, StartedIsConnected,
      ShutIsClosed, enities, flags, goroutines, group, Returns, Connected, FailsClean
<1>1. CASE StartConnects(x) /\ UNCHANGED <<group, last>>
  BY <1>1 DEF StartConnects, Handle
<1>2. CASE Migrated(x) /\ UNCHANGED <<group, last>>
  BY <1>2 DEF Migrated
<1>3. CASE StartReturnsEarly(x) /\ Returns(x, "started")
  BY <1>3 DEF StartReturnsEarly
<1>4. CASE StartLaunches(x) /\ Returns(x, "started")
  <2>1. TypeOK'
    BY <1>4 DEF StartLaunches
  <2>2. OneWatcher' /\ OneWorker'
    <3>1. ASSUME NEW e \in Enity, e # x
          PROVE  /\ watchers'[e] = watchers[e] /\ watcherStopped'[e] = watcherStopped[e]
                 /\ workers'[e] = workers[e]
                 /\ queueWorkerStopped'[e] = queueWorkerStopped[e]
      BY <1>4, <3>1 DEF StartLaunches
    <3>2. watchers'[x] = IF watcherStopped'[x] THEN 0 ELSE 1
      <4>1. CASE T(x).watches /\ watcherStopped[x]
        <5>1. ~watcherStopped'[x]
          <6>1. watcherStopped'[x] = (watcherStopped[x] /\ ~(T(x).watches /\ watcherStopped[x]))
            BY <1>4 DEF StartLaunches
          <6>2. QED
            BY <4>1, <6>1
        <5>2. watchers'[x] = 1
          BY <1>4, <4>1 DEF StartLaunches
        <5>3. QED
          BY <5>1, <5>2
      <4>2. CASE ~(T(x).watches /\ watcherStopped[x])
        BY <1>4, <4>2 DEF StartLaunches
      <4>3. QED
        BY <4>1, <4>2
    <3>3. workers'[x] = IF queueWorkerStopped'[x] THEN 0 ELSE 1
      <4>1. CASE StartQueueWorker[x] /\ queueWorkerStopped[x]
        <5>1. ~queueWorkerStopped'[x]
          <6>1. queueWorkerStopped'[x] = (queueWorkerStopped[x] /\ ~(StartQueueWorker[x] /\ queueWorkerStopped[x]))
            BY <1>4 DEF StartLaunches
          <6>2. QED
            BY <4>1, <6>1
        <5>2. workers'[x] = 1
          BY <1>4, <4>1 DEF StartLaunches
        <5>3. QED
          BY <5>1, <5>2
      <4>2. CASE ~(StartQueueWorker[x] /\ queueWorkerStopped[x])
        BY <1>4, <4>2 DEF StartLaunches
      <4>3. QED
        BY <4>1, <4>2
    <3>4. QED
      BY <3>1, <3>2, <3>3
  <2>3. HandleIsLive' /\ MigratesOnly' /\ StartedIsConnected' /\ ShutIsClosed'
    BY <1>4 DEF StartLaunches
  <2>4. ConnectedIsWatched' /\ CleanStartIsWatched'
    BY <1>4 DEF StartLaunches
  <2>5. QED
    BY <2>1, <2>2, <2>3, <2>4
<1>5. CASE StartRefused(x) /\ Returns(x, "startFailed")
  BY <1>5 DEF StartRefused, Handle
<1>6. CASE MigrateFails(x) /\ Returns(x, "startFailed")
  BY <1>6 DEF MigrateFails
<1>7. CASE (StartPanics(x) \/ MigrateExits(x)) /\ UNCHANGED <<group, last>>
  <2>1. Crash /\ UNCHANGED <<group, last>>
    BY <1>7 DEF StartPanics, MigrateExits
  <2>2. QED
    BY <2>1 DEF Crash
<1>8. QED
  BY <1>1, <1>2, <1>3, <1>4, <1>5, <1>6, <1>7 DEF StartStep

(* Every step of a Shutdown keeps the invariant. *)
LEMMA ShutdownStepKeeps ==
  ASSUME ClientInv, NEW x \in Enity, ShutdownStep(x)
  PROVE  ClientInv'
<1> USE TraitsFacts DEF ClientInv, TypeOK, ProviderTypeOK, OneWatcher, OneWorker,
      HandleIsLive, MigratesOnly, ConnectedIsWatched, CleanStartIsWatched,
      StartedIsConnected, ShutIsClosed, enities, flags, goroutines, group, Returns,
      FailsClean
<1>1. startPc[x] = "idle"
  BY DEF ShutdownStep
<1>2. CASE ShutdownPolls(x) /\ Returns(x, "shut")
  BY <1>1, <1>2 DEF ShutdownPolls
<1>3. CASE ShutdownCloses(x) /\ Returns(x, "shut")
  <2>1. /\ \A e \in Enity \ {x} : conn'[e] = conn[e] /\ last'[e] = last[e]
        /\ conn'[x] = (IF conn[x] = "nil" THEN "nil" ELSE T(x).closed) /\ last'[x] = "shut"
        /\ conn' \in [Enity -> Handle] /\ last' \in [Enity -> {"new", "started",
             "startFailed", "shut", "shutFailed"}]
    BY <1>3 DEF ShutdownCloses, Handle
  <2>2. UNCHANGED <<startPc, action, flags, goroutines, crashed, group>>
    BY <1>3 DEF ShutdownCloses
  <2>3. TypeOK' /\ OneWatcher' /\ OneWorker' /\ MigratesOnly'
    BY <2>1, <2>2
  <2>4. HandleIsLive'
    BY <1>1, <2>1, <2>2
  <2>5. StartedIsConnected' /\ ShutIsClosed' /\ CleanStartIsWatched'
    BY <1>1, <2>1, <2>2
  <2>6. ConnectedIsWatched'
    <3>1. ASSUME T(x).watches, conn'[x] \in {"open", "closed"}
          PROVE  conn[x] \in {"open", "closed"}
      <4>1. T(x).closed = "closed" /\ conn[x] # "nil"
        BY <2>1, <3>1
      <4>2. conn[x] # "empty"
        BY <3>1, <4>1
      <4>3. QED
        BY <4>1, <4>2 DEF Handle
    <3>2. \A e \in Enity : conn'[e] \in {"open", "closed"} /\ T(e).watches =>
            conn[e] \in {"open", "closed"}
      BY <2>1, <3>1
    <3>3. QED
      BY <2>2, <3>2
  <2>7. QED
    BY <2>3, <2>4, <2>5, <2>6
<1>4. CASE ShutdownFails(x) /\ Returns(x, "shutFailed")
  BY <1>1, <1>4 DEF ShutdownFails, Handle
<1>5. CASE ShutdownPanics(x) /\ UNCHANGED <<group, last>>
  BY <1>1, <1>5 DEF ShutdownPanics, Crash
<1>6. QED
  BY <1>2, <1>3, <1>4, <1>5 DEF ShutdownStep

(* Every step of a goroutine keeps the invariant, and so does a context    *)
(* that is cancelled.                                                      *)
LEMMA GoroutineKeeps ==
  ASSUME ClientInv, NEW x \in Enity, UNCHANGED last,
         Goroutine(x) \/ ServerFails(x) \/ Cancel
  PROVE  ClientInv'
<1> USE TraitsFacts DEF ClientInv, TypeOK, ProviderTypeOK, OneWatcher, OneWorker,
      HandleIsLive, MigratesOnly, ConnectedIsWatched, CleanStartIsWatched,
      StartedIsConnected, ShutIsClosed, enities, flags, goroutines, group, FailsClean
<1>1. CASE WatcherStops(x)
  BY <1>1 DEF WatcherStops, GroupFails, GroupErr
<1>2. CASE WorkerPanics(x)
  BY <1>2 DEF WorkerPanics, Crash
<1>3. CASE ServerEnds(x)
  BY <1>3 DEF ServerEnds
<1>4. CASE ServerFails(x)
  BY <1>4 DEF ServerFails, GroupFails, GroupErr
<1>5. CASE Cancel
  BY <1>5 DEF Cancel
<1>6. QED
  BY <1>1, <1>2, <1>3, <1>4, <1>5 DEF Goroutine

LEMMA ClientStep == ClientInv /\ [Next]_clientVars => ClientInv'
<1> SUFFICES ASSUME ClientInv, [Next]_clientVars PROVE ClientInv'
  OBVIOUS
<1>1. ASSUME NEW x \in Enity, StartStep(x) PROVE ClientInv'
  BY <1>1, StartStepKeeps
<1>2. ASSUME NEW x \in Enity, ShutdownStep(x) PROVE ClientInv'
  BY <1>2, ShutdownStepKeeps
<1>3. ASSUME NEW x \in Enity, Goroutine(x) \/ ServerFails(x), UNCHANGED last
      PROVE  ClientInv'
  BY <1>3, GoroutineKeeps
<1>4. ASSUME Cancel, UNCHANGED last PROVE ClientInv'
  <2>1. CASE \E x \in Enity : TRUE
    BY <1>4, <2>1, GoroutineKeeps
  <2>2. CASE ~\E x \in Enity : TRUE
    BY <1>4, <2>2 DEF Cancel, ClientInv, TypeOK, ProviderTypeOK, OneWatcher, OneWorker,
      HandleIsLive, MigratesOnly, ConnectedIsWatched, CleanStartIsWatched,
      StartedIsConnected, ShutIsClosed, enities, flags, goroutines
  <2>3. QED
    BY <2>1, <2>2
<1>5. ASSUME UNCHANGED clientVars PROVE ClientInv'
  BY <1>5 DEF clientVars, providerVars, ClientInv, TypeOK, ProviderTypeOK, OneWatcher,
      OneWorker, HandleIsLive, MigratesOnly, ConnectedIsWatched, CleanStartIsWatched,
      StartedIsConnected, ShutIsClosed, enities, flags, goroutines, group
<1>6. QED
  BY <1>1, <1>2, <1>3, <1>4, <1>5 DEF Next

LEMMA ClientInvariant == Spec => []ClientInv
BY ClientInit, ClientStep, PTL DEF Spec

-----------------------------------------------------------------------------
(* The fields of the entities always have their types. *)
THEOREM TypeCorrect == Spec => []TypeOK
<1>1. ClientInv => TypeOK
  BY DEF ClientInv
<1>2. QED
  BY <1>1, ClientInvariant, PTL

(* No entity ever has two watchers, and watcherStopped is the truth about  *)
(* the one it has, in whatever order Start and Shutdown are called.        *)
THEOREM OneWatcherHolds == Spec => []OneWatcher
<1>1. ClientInv => OneWatcher
  BY DEF ClientInv
<1>2. QED
  BY <1>1, ClientInvariant, PTL

(* A provider without migrations, whose failed Start leaves no handle, has *)
(* its watcher after every Start that returned nil.                        *)
THEOREM CleanStartIsWatchedHolds == Spec => []CleanStartIsWatched
<1>1. ClientInv => CleanStartIsWatched
  BY DEF ClientInv
<1>2. QED
  BY <1>1, ClientInvariant, PTL

(* A Start that returned nil leaves an open handle, also after a Shutdown. *)
THEOREM StartedIsConnectedHolds == Spec => []StartedIsConnected
<1>1. ClientInv => StartedIsConnected
  BY DEF ClientInv
<1>2. QED
  BY <1>1, ClientInvariant, PTL

(* A Shutdown that returned nil leaves no open handle.                     *)
THEOREM ShutIsClosedHolds == Spec => []ShutIsClosed
<1>1. ClientInv => ShutIsClosed
  BY DEF ClientInv
<1>2. QED
  BY <1>1, ClientInvariant, PTL

(* A polling Shutdown returns nil only when both goroutines are gone.      *)
THEOREM ShutIsQuietHolds == Spec => ShutIsQuiet
<1> DEFINE Quiet ==
      \A e \in Enity : StartWatcher[e] /\ last[e] # "shut" /\ last'[e] = "shut"
         => watchers[e] = 0 /\ workers[e] = 0
<1>1. ClientInv /\ [Next]_clientVars => [Quiet]_clientVars
  <2> SUFFICES ASSUME ClientInv, Next, NEW e \in Enity, StartWatcher[e],
                      last[e] # "shut", last'[e] = "shut"
               PROVE  watchers[e] = 0 /\ workers[e] = 0
    BY DEF Next
  <2>1. last \in [Enity -> {"new", "started", "startFailed", "shut", "shutFailed"}]
    BY DEF ClientInv, TypeOK
  <2>2. PICK x \in Enity : StartStep(x) \/ ShutdownStep(x)
    BY DEF Next
  <2>3. ~StartStep(x)
    BY <2>1 DEF StartStep, Returns
  <2>4. ShutdownPolls(x) \/ ShutdownCloses(x)
    BY <2>1, <2>2, <2>3 DEF ShutdownStep, Returns
  <2>5. x = e
    BY <2>1, <2>2, <2>3 DEF ShutdownStep, Returns
  <2>6. watcherStopped[e] /\ queueWorkerStopped[e]
    BY <2>4, <2>5 DEF ShutdownPolls, ShutdownCloses
  <2>7. QED
    BY <2>6 DEF ClientInv, OneWatcher, OneWorker
<1>2. QED
  BY <1>1, ClientInvariant, PTL DEF Spec, ShutIsQuiet
=============================================================================
