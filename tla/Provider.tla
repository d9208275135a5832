------------------------------ MODULE Provider ------------------------------
(***************************************************************************)
(* The entities of go-garage (enity.go of every provider): what Start and  *)
(* Shutdown of each provider do to its connection handle, its flags and    *)
(* the goroutines it leaves in the errgroup of the application.  The       *)
(* providers share one shape and differ in a few points; a row of Traits   *)
(* states these points.  The module has no behaviour of its own:           *)
(* ProviderClient calls entities directly, App through the manager.        *)
(***************************************************************************)
EXTENDS Naturals, FiniteSets

CONSTANTS
  Enity,            \* the entities of the application
  KindOf,           \* the provider of an entity
  StartWatcher,     \* Config.StartWatcher of an entity
  StartQueueWorker, \* Config.StartQueueWorker of an entity
  CloseFails,       \* entities whose Close may return an error
  ServeFails,       \* HTTP servers that may fail to serve
  Logged            \* the context carries a logger: its Fatal ends the process

(***************************************************************************)
(* A row of Traits:                                                        *)
(*   fresh     the handle after NewEnity: "nil", or "empty" when the       *)
(*             constructor allocates an object without a connection        *)
(*   watches   Start launches a connection watcher                         *)
(*   rechecks  Start returns at once when it finds a handle                *)
(*   migrates  Start runs the migrations between connecting and launching  *)
(*   cancel    connecting fails once the context is done                   *)
(*   refused   the handles a failed connection attempt may leave           *)
(*   badStart  handles on which Start dereferences nil                     *)
(*   closed    the handle after a successful Close                         *)
(*   badClose  handles on which shutdown dereferences nil                  *)
(*   unclosed  the handle after a failed Close                             *)
(*   serves    Start leaves a goroutine that only a Close ends             *)
(***************************************************************************)

(* sqlx.ConnectContext may hand out a pool together with its error. *)
PqTraits ==
  [fresh |-> "nil", watches |-> TRUE, rechecks |-> TRUE, migrates |-> TRUE,
   cancel |-> TRUE, refused |-> {"nil", "open"}, badStart |-> {},
   closed |-> "nil", badClose |-> {}, unclosed |-> "open", serves |-> FALSE]

ClickhouseTraits == PqTraits

(* redis.NewClient is stored only after a successful ping. *)
RedisTraits ==
  [fresh |-> "empty", watches |-> TRUE, rechecks |-> TRUE, migrates |-> FALSE,
   cancel |-> TRUE, refused |-> {"empty"}, badStart |-> {"nil"},
   closed |-> "nil", badClose |-> {"empty"}, unclosed |-> "open", serves |-> FALSE]

(* The reconnecting goroutine of Connection.Connect blocks on NotifyClose; *)
(* a connection without service channel counts as connected.               *)
RabbitmqTraits ==
  [fresh |-> "empty", watches |-> TRUE, rechecks |-> TRUE, migrates |-> FALSE,
   cancel |-> FALSE, refused |-> {"empty", "open"}, badStart |-> {"nil"},
   closed |-> "nil", badClose |-> {"empty"}, unclosed |-> "open", serves |-> TRUE]

GopcuaTraits ==
  [fresh |-> "nil", watches |-> TRUE, rechecks |-> TRUE, migrates |-> FALSE,
   cancel |-> TRUE, refused |-> {"nil"}, badStart |-> {},
   closed |-> "nil", badClose |-> {}, unclosed |-> "open", serves |-> FALSE]

(* shutdown closes and clears grpcConn, while Start looks at conn. *)
DbgraphTraits ==
  [fresh |-> "nil", watches |-> TRUE, rechecks |-> TRUE, migrates |-> FALSE,
   cancel |-> FALSE, refused |-> {"nil"}, badStart |-> {},
   closed |-> "closed", badClose |-> {"closed"}, unclosed |-> "open", serves |-> FALSE]

(* The server exists from NewEnity on and cannot serve again once shut;    *)
(* a Shutdown that fails (its context is done) still stops the listener.   *)
EchoTraits ==
  [fresh |-> "empty", watches |-> FALSE, rechecks |-> FALSE, migrates |-> FALSE,
   cancel |-> FALSE, refused |-> {}, badStart |-> {},
   closed |-> "closed", badClose |-> {}, unclosed |-> "closed", serves |-> TRUE]

Kinds == {"pq", "clickhouse", "redis", "rabbitmq", "gopcua", "dbgraph", "echo"}

Traits ==
  [k \in Kinds |->
     CASE k = "pq" -> PqTraits
       [] k = "clickhouse" -> ClickhouseTraits
       [] k = "redis" -> RedisTraits
       [] k = "rabbitmq" -> RabbitmqTraits
       [] k = "gopcua" -> GopcuaTraits
       [] k = "dbgraph" -> DbgraphTraits
       [] k = "echo" -> EchoTraits]

T(e) == Traits[KindOf[e]]

(* Only pq and clickhouse have a queue worker, only watched providers the  *)
(* StartWatcher option.                                                    *)
ASSUME ProviderAssumption ==
  /\ KindOf \in [Enity -> Kinds]
  /\ StartWatcher \in [Enity -> BOOLEAN]
  /\ StartQueueWorker \in [Enity -> BOOLEAN]
  /\ \A e \in Enity :
       /\ StartWatcher[e] => T(e).watches
       /\ StartQueueWorker[e] => T(e).migrates
  /\ CloseFails \subseteq Enity
  /\ ServeFails \subseteq {e \in Enity : KindOf[e] = "echo"}
  /\ Logged \in BOOLEAN

VARIABLES
  conn,               \* the handle of an entity
  startPc,            \* where a Start in progress is
  action,             \* Config.Migrate.Action of an entity
  watcherStopped,     \* base.Enity.watcherStopped
  queueWorkerStopped, \* Enity.queueWorkerStopped
  watchers,           \* live watcher goroutines of an entity
  workers,            \* live queue worker goroutines
  servers,            \* live goroutines that wait for the handle to be closed
  groupErr,           \* first error a goroutine of the errgroup returned
  ctxDone,            \* the context of the errgroup is done
  crashed             \* a goroutine panicked or called os.Exit

flags == <<watcherStopped, queueWorkerStopped>>
goroutines == <<watchers, workers, servers>>
enities == <<conn, startPc, action, flags, goroutines>>
group == <<groupErr, ctxDone>>
providerVars == <<enities, group, crashed>>

Handle == {"nil", "empty", "open", "closed"}
GroupErr == {"none", "ctx", "serve", "shutdown", "signal"}

(* Mutant: NewEnity leaves watcherStopped at its zero value. *)
ProviderInitZero ==
  /\ conn = [e \in Enity |-> T(e).fresh]
  /\ startPc = [e \in Enity |-> "idle"]
  /\ action = [e \in Enity |-> "up"]
  /\ watcherStopped = [e \in Enity |-> FALSE]
  /\ queueWorkerStopped = [e \in Enity |-> TRUE]
  /\ watchers = [e \in Enity |-> 0]
  /\ workers = [e \in Enity |-> 0]
  /\ servers = [e \in Enity |-> 0]
  /\ groupErr = "none"
  /\ ctxDone = FALSE
  /\ crashed = FALSE

ProviderInit ==
  /\ conn = [e \in Enity |-> T(e).fresh]
  /\ startPc = [e \in Enity |-> "idle"]
  /\ action = [e \in Enity |-> "up"]
  /\ watcherStopped = [e \in Enity |-> TRUE]
  /\ queueWorkerStopped = [e \in Enity |-> TRUE]
  /\ watchers = [e \in Enity |-> 0]
  /\ workers = [e \in Enity |-> 0]
  /\ servers = [e \in Enity |-> 0]
  /\ groupErr = "none"
  /\ ctxDone = FALSE
  /\ crashed = FALSE

(* errgroup: the first error is kept and cancels the context. *)
GroupFails(err) ==
  /\ groupErr' = IF groupErr = "none" THEN err ELSE groupErr
  /\ ctxDone' = TRUE

Crash == crashed' = TRUE /\ UNCHANGED enities

-----------------------------------------------------------------------------
(* Start(ctx, errorGroup).  Its steps constrain enities and crashed; the   *)
(* caller adds the rest.                                                   *)

Connected(e) == T(e).rechecks /\ conn[e] \in {"open", "closed"}

(* A handle was found: Start returns nil. *)
StartReturnsEarly(e) ==
  /\ startPc[e] = "idle"
  /\ Connected(e)
  /\ UNCHANGED <<enities, crashed>>

StartPanics(e) ==
  /\ startPc[e] = "idle"
  /\ conn[e] \in T(e).badStart
  /\ Crash

(* The connection is made and its handle stored.  An echo entity stores    *)
(* nothing, and a server that was shut down stays so.                      *)
StartConnects(e) ==
  /\ startPc[e] = "idle"
  /\ ~Connected(e)
  /\ conn[e] \notin T(e).badStart
  /\ ~(T(e).cancel /\ ctxDone)
  /\ conn' = [conn EXCEPT ![e] = IF @ = "closed" THEN @ ELSE "open"]
  /\ startPc' = [startPc EXCEPT ![e] = IF T(e).migrates THEN "migrate" ELSE "launch"]
  /\ UNCHANGED <<action, flags, goroutines, crashed>>

(* No connection: Start returns an error. *)
StartRefused(e) ==
  /\ startPc[e] = "idle"
  /\ ~Connected(e)
  /\ conn[e] \notin T(e).badStart
  /\ \E h \in T(e).refused : conn' = [conn EXCEPT ![e] = h]
  /\ UNCHANGED <<startPc, action, flags, goroutines, crashed>>

(* Migrate worked on the pool of the handle, so that one was not closed,   *)
(* and sets the action of the configuration to "nothing".                  *)
Migrated(e) ==
  /\ startPc[e] = "migrate"
  /\ conn[e] = "open"
  /\ action[e] = "up" \/ ~Logged
  /\ action' = [action EXCEPT ![e] = "nothing"]
  /\ startPc' = [startPc EXCEPT ![e] = "launch"]
  /\ UNCHANGED <<conn, flags, goroutines, crashed>>

(* logger.Fatal: the version of the database cannot be read, or the action *)
(* is "nothing", which migrate does not know; or a concurrent Shutdown has *)
(* cleared the handle, which panics.                                       *)
MigrateExits(e) ==
  /\ startPc[e] = "migrate"
  /\ Logged \/ conn[e] = "nil"
  /\ Crash

(* Migrate failed: Start returns the error and keeps the handle. *)
MigrateFails(e) ==
  /\ startPc[e] = "migrate"
  /\ startPc' = [startPc EXCEPT ![e] = "idle"]
  /\ UNCHANGED <<conn, action, flags, goroutines, crashed>>

(* Mutant: the watcher is launched without looking at watcherStopped. *)
StartLaunchesAlways(e) ==
  /\ startPc[e] = "launch"
  /\ startPc' = [startPc EXCEPT ![e] = "idle"]
  /\ IF T(e).watches
       THEN /\ watcherStopped' = [watcherStopped EXCEPT ![e] = FALSE]
            /\ watchers' = [watchers EXCEPT ![e] = @ + 1]
       ELSE UNCHANGED <<watcherStopped, watchers>>
  /\ servers' = [servers EXCEPT ![e] = @ + (IF T(e).serves THEN 1 ELSE 0)]
  /\ UNCHANGED <<conn, action, workers, queueWorkerStopped, crashed>>

(* The goroutines: a watcher unless one runs, a queue worker if configured *)
(* and none runs, and the goroutine that serves.  Start returns nil.       *)
StartLaunches(e) ==
  LET watch == T(e).watches /\ watcherStopped[e]
      work == StartQueueWorker[e] /\ queueWorkerStopped[e]
      One(b) == IF b THEN 1 ELSE 0
  IN
  /\ startPc[e] = "launch"
  /\ startPc' = [startPc EXCEPT ![e] = "idle"]
  /\ watcherStopped' = [watcherStopped EXCEPT ![e] = @ /\ ~watch]
  /\ watchers' = [watchers EXCEPT ![e] = @ + One(watch)]
  /\ queueWorkerStopped' = [queueWorkerStopped EXCEPT ![e] = @ /\ ~work]
  /\ workers' = [workers EXCEPT ![e] = @ + One(work)]
  /\ servers' = [servers EXCEPT ![e] = @ + One(T(e).serves)]
  /\ UNCHANGED <<conn, action, crashed>>

-----------------------------------------------------------------------------
(* Shutdown(ctx).  With StartWatcher it only polls the two flags, without  *)
(* it closes the handle.                                                   *)

(* Mutant: Shutdown looks at the watcher only. *)
ShutdownIgnoresWorker(e) ==
  /\ StartWatcher[e]
  /\ watcherStopped[e]
  /\ UNCHANGED <<enities, crashed>>

ShutdownPolls(e) ==
  /\ StartWatcher[e]
  /\ watcherStopped[e] /\ queueWorkerStopped[e]
  /\ UNCHANGED <<enities, crashed>>

(* Mutant: shutdown does not close the connection. *)
ShutdownForgets(e) ==
  /\ ~StartWatcher[e]
  /\ conn[e] \notin T(e).badClose
  /\ UNCHANGED <<enities, crashed>>

(* Mutant: shutdown closes the connection and keeps the handle. *)
ShutdownKeepsHandle(e) ==
  /\ ~StartWatcher[e]
  /\ conn' = [conn EXCEPT ![e] = IF @ = "nil" THEN @ ELSE "closed"]
  /\ UNCHANGED <<startPc, action, flags, goroutines, crashed>>

ShutdownCloses(e) ==
  /\ ~StartWatcher[e]
  /\ conn[e] \notin T(e).badClose
  /\ conn' = [conn EXCEPT ![e] = IF @ = "nil" THEN @ ELSE T(e).closed]
  /\ UNCHANGED <<startPc, action, flags, goroutines, crashed>>

(* Close returned an error, and so does Shutdown. *)
ShutdownFails(e) ==
  /\ ~StartWatcher[e]
  /\ e \in CloseFails
  /\ conn[e] = "open"
  /\ conn' = [conn EXCEPT ![e] = T(e).unclosed]
  /\ UNCHANGED <<startPc, action, flags, goroutines, crashed>>

ShutdownPanics(e) ==
  /\ ~StartWatcher[e]
  /\ conn[e] \in T(e).badClose
  /\ Crash

-----------------------------------------------------------------------------
(* The goroutines of the errgroup.  A watcher that pings only logs what it *)
(* finds, so its rounds change nothing.                                    *)

(* case <-ctx.Done() *)
WatcherStops(e) ==
  /\ watchers[e] > 0
  /\ ctxDone
  /\ watchers' = [watchers EXCEPT ![e] = @ - 1]
  /\ watcherStopped' = [watcherStopped EXCEPT ![e] = TRUE]
  /\ GroupFails("ctx")
  /\ UNCHANGED <<conn, startPc, action, queueWorkerStopped, workers, servers, crashed>>

(* The worker begins with RecreateQueue, which locks the mutex of a Queue  *)
(* that NewQueue left nil (pq) or of a nil Queue (clickhouse).             *)
WorkerPanics(e) ==
  /\ workers[e] > 0
  /\ Crash
  /\ UNCHANGED group

(* The server was shut down, or the RabbitMQ connection closed. *)
ServerEnds(e) ==
  /\ servers[e] > 0
  /\ conn[e] \in {"nil", "closed"}
  /\ servers' = [servers EXCEPT ![e] = @ - 1]
  /\ UNCHANGED <<conn, startPc, action, flags, watchers, workers, group, crashed>>

(* The listener fails, for instance because its address is in use. *)
ServerFails(e) ==
  /\ e \in ServeFails
  /\ servers[e] > 0
  /\ conn[e] = "open"
  /\ servers' = [servers EXCEPT ![e] = @ - 1]
  /\ GroupFails("serve")
  /\ UNCHANGED <<conn, startPc, action, flags, watchers, workers, crashed>>

(* The context the application was given is cancelled. *)
Cancel ==
  /\ ~ctxDone
  /\ ctxDone' = TRUE
  /\ UNCHANGED <<enities, groupErr, crashed>>

Goroutine(e) == WatcherStops(e) \/ WorkerPanics(e) \/ ServerEnds(e)

GroupDone == \A e \in Enity : watchers[e] = 0 /\ workers[e] = 0 /\ servers[e] = 0

ProviderTypeOK ==
  /\ conn \in [Enity -> Handle]
  /\ startPc \in [Enity -> {"idle", "migrate", "launch"}]
  /\ action \in [Enity -> {"up", "nothing"}]
  /\ watcherStopped \in [Enity -> BOOLEAN]
  /\ queueWorkerStopped \in [Enity -> BOOLEAN]
  /\ watchers \in [Enity -> Nat]
  /\ workers \in [Enity -> Nat]
  /\ servers \in [Enity -> Nat]
  /\ groupErr \in GroupErr
  /\ ctxDone \in BOOLEAN
  /\ crashed \in BOOLEAN

(* The flag a polling Shutdown reads tells the truth about the goroutine,  *)
(* and no entity ever has two watchers, however often Start is called on a *)
(* reconnected entity while the old watcher still runs.                    *)
OneWatcher ==
  \A e \in Enity : watchers[e] = IF watcherStopped[e] THEN 0 ELSE 1

=============================================================================
