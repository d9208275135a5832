# go-garage: formal models

TLA+ models of the parts of go-garage whose correctness depends on the order
of events: the application manager with its metrics and health checks, the life
cycle of its providers, the RabbitMQ client, the OPC UA subscriptions, the
distributed mutexes and the Redis cache. The models are checked with TLC on
small instances, and the safety properties are proved with TLAPS for every
instance. `PROJECT.json` lists components, runs, the source lines behind every
definition, the hazards of the code and the theorems.

## 1. Inventory

### The system

A service built with go-garage creates an `app.Manager`, adds *entities* (the
providers: databases, caches, brokers, an HTTP server), starts them, waits for
an OS signal and shuts them down. All goroutines live in one `errgroup.Group`;
its context `ctx` is cancelled by the first goroutine that returns an error.

| component | source | state it keeps | operations |
|---|---|---|---|
| application manager | `app/app.go` | `enities`, `enitiesOrder`, three storages of metrics and checks, the errgroup | Add, Start, OSSignalWaiter, Shutdown, Loop |
| provider entities | `providers/*/enity.go`, `base/enity.go` | connection handle, `watcherStopped`, `queueWorkerStopped`, `shuttingDown` (written, never read) | NewEnity, Start, Shutdown, Ping, watcher, worker, server goroutines |
| base storages | `base/*.go` | maps of metrics, alive and ready checks, each with a mutex | Append, Add, Registrate, the HTTP handlers that iterate over them |
| redis mutex | `providers/redis/mutex.go` | `mu`, `locked`, `lockValue`; the key in Redis | Lock, Unlock, Extend |
| postgres mutex | `providers/pq/mutex.go` | `mu`, `locked`, the pooled connection that holds the advisory lock | Lock, Unlock, RWLock, RWUnlock, IsLocked |
| rabbitmq connection | `providers/rabbitmq/connection` | `conn`, `serviceChannel`, `channelPool`, `isClosed` | Connect, reconnect, GetChannelFromPool, Close |
| rabbitmq publisher, consumer | `providers/rabbitmq/publisher`, `consumer` | `isConnected`; the deliveries in the library, the message at hand | SendMessage; subscribe, Consume, Ack |
| redis cache, rejson client | `providers/redis/cache`, `rejson` | keys under a prefix; the client the caches share | Get, Set, SetNX, Delete, Clear, Size, the JSON calls |
| gopcua subscriptions | `providers/gopcua/enity.go` | `subscription`, `ch` | Subscribe, SubscribeNodeID, the receiving goroutines |
| migrations | `x/sqlx/migrations` | `Config.Action` (shared with the provider) | Migrate |
| bulk queue | `x/sqlx/bulk.go` | queue under a mutex that is never set | AppendToQueue, ProcessQueue, WaitForFlush |
| miniorm, stats | `x/sqlx/miniorm`, `x/sqlx/stats.go` | statement cache; gauges | CRUD, scrape |
| the rest | rejson, mongo, echo middlewares, swagger, restclient, log, types, crypto, x | none that matters to control | conversions, wrappers |

### How the components interact

* The manager calls `Start(ctx, errorGroup)` of each entity in the order of
  `Add`, and `Shutdown(ctx)` in the reverse order, from a goroutine of the same
  errgroup. `Loop` waits for all goroutines of the group.
* `Start` of a database entity calls `migrations.Migrate`, and launches a
  connection watcher and perhaps a queue worker in the group. The watcher only
  pings and logs: its rounds change no state; it ends when `ctx` is done and
  then sets `watcherStopped`.
* `Shutdown` without `StartWatcher` closes the handle; with `StartWatcher` it
  polls the flags the goroutines set.
* The RabbitMQ watcher blocks on `NotifyClose`, the HTTP server goroutine in
  `ListenAndServe`: both end when their handle is closed, not with `ctx`.
* `NewEnity` fills maps of metrics and checks, which `Add` appends to those of
  the manager. Requests for `/ready` and `/metrics` walk through these, in
  goroutines of the HTTP server, and read the handles that Start and Shutdown
  set and clear.
* Instances of the service exclude each other through a Redis key or an
  advisory lock; inside an instance goroutines share one `Mutex` value.

### What is hard, and what must hold

* **Manager**: Shutdown runs in a goroutine while main may still be starting
  entities; the first failing Shutdown ends the walk; the group ends only when
  every goroutine does. Must hold: an entity is never closed before one that
  may use it; a clean exit leaves nothing open; a signal or a cancelled context
  ends the application (with the exceptions of section 6).
* **Entities**: Start and Shutdown repeated in any order, after refused
  connections, failed migrations and failed closes, while an old watcher may
  still run. Must hold: at most one watcher, with a truthful flag; a Start that
  returned nil has connected and has a watcher; a Shutdown that returned nil
  has closed the connection.
* **Mutexes**: several commands per operation, expiry, broken sessions and
  crashes between them, fields shared by goroutines after `mu` was given back.
  Must hold: mutual exclusion over all instances; Unlock deletes only its own
  key, and gives back the session that holds the lock; waiters are served.
* **Cache**: Clear and Size walk through the key space page by page while others
  write and keys expire. Must hold: what a Clear promises to remove is gone;
  Size counts what stayed; both come to an end.
* **RabbitMQ**: reconnecting concurrently with Close, Publish and Consume; stale
  channels in the pool; retries; deliveries that come again. Must hold: after
  Close nothing is open; a lost connection is replaced; an error of SendMessage
  means that nothing was published; a message is deleted only after it was
  handled, and in the end it is.
* **Subscriptions**: one subscription and one channel for all subscribers, calls
  that fail half-way, a Shutdown meanwhile. Must hold: the server notifies of
  nothing that nobody reads.
* **Storages**: partial Append after a name conflict; checks and scrapes while
  entities shut down. Must hold: what Add accepted is complete; `/ready` tells
  the truth; a scrape does not panic.

## 2. Plan

| order | module | models | state |
|---|---|---|---|
| 1 | `AbstractLock`, `RedisMutex`, `MCRedisMutex`, `RedisMutexProof` | redis mutex, refinement of an abstract lock | done |
| 2 | `Provider`, `ProviderClient`, `MCProviderClient`, `ProviderClientProof` | seven providers, called directly | done |
| 3 | `AbstractLifeCycle`, `App`, `MCApp` | the manager over `Provider`, refinement of an abstract life cycle | done |
| 4 | `RabbitConnection`, `RabbitClient`, `MCRabbit`, `RabbitClientProof` | reconnect, pool, Close; SendMessage and subscribe over them | done |
| 5 | `AbstractRWLock`, `PgMutex`, `MCPgMutex`, `PgMutexProof` | the advisory lock over a pool of sessions, refinement of an abstract reader-writer lock | done |
| 6 | `Registry` under `App`, `AppProof` | Append of the storages within `Manager.Add`, the handlers; the invariants of the manager | done |
| 7 | `RedisCache`, `MCRedisCache`, `RedisCacheProof` | Clear and Size over SCAN with concurrent writers | done |
| 8 | `AbstractQueue`, `RabbitDelivery`, `MCRabbitDelivery`, `RabbitDeliveryProof` | deliveries and acknowledgements over `RabbitClient`, refinement of an at-least-once queue | done |
| 9 | `GopcuaSubscription`, `MCGopcua`, `GopcuaSubscriptionProof` | Subscribe and the receiving goroutines | done |
| 10 | a module for the statement cache of `miniorm` | concurrent InsertInto over a pool that is restarted | open |

The bulk queue, mongo and the wrappers stay out: `NewQueue` returns a queue
whose mutex is nil, so its first operation panics (this panic *is* modelled, as
`WorkerPanics`); mongo's `NewEnity` dereferences its nil `MetricsStorage` at
once; the others keep no state that matters to control (section 7).

## 3. Modules

### RedisMutex

`key` is the value of the Redis key (`NoInstance`: absent); `mu` and `locked`
are the fields of the `Mutex` of each instance; `pc` is where a goroutine is. An
instance stands for its `lockValue`, a uuid drawn in `NewMutex`. One action is
one Redis command or one access to a field that another goroutine may change:

| actions | code |
|---|---|
| `Lock`, `FirstSetNX`, `RetrySetNX`, `CheckLocked`, `LockFails` | `Lock`, `commonLock` |
| `Extend`, `ExtendGet`, `ExtendExpire`, `ExtendFails` | `Extend`, `commonExtend` |
| `Unlock`, `UnlockCheck`, `UnlockGet`, `UnlockDel`, `UnlockClear`, `UnlockFails` | `Unlock`, `commonUnlock` |
| `Expire`, `Crash` | expiry in Redis; the death of a process |

`CheckLocked` reads `locked` after the SETNX of the loop, as the code does
(`if result || !m.locked`). `Unlock` gives `mu` back *before* `commonUnlock`
starts: the other actions of Unlock run concurrently with the next `Lock` of
the same instance. `AbstractLock` is what the package promises: one holder.

Not modelled: the interval of the retries, the context-taking variants, and a
`Del` that reached Redis although its reply was lost.

### PgMutex

The advisory lock belongs to a database *session*: `grants[s][mode]` says how
often session `s` holds it, `pool[s]` whether the pool has handed `s` out, and
`conn[m]` is the field `Mutex.conn`, which every Lock overwrites. `writer` and
`readers` are the Go mutex `mu`.

| actions | code |
|---|---|
| `Call`, `MuLock`, `MuRLock` | Lock and RWLock lock `mu`, and then call the Context variant, which locks it again (`MuOps`); a pending writer shuts out new readers, as in Go |
| `Connx`, `ConnxFails`, `TryLock`, `Raise`, `Retry`, `Check`, `LockFails` | `commonLock` |
| `CallUnlock`, `MuUnlock`, `UnlockCheck`, `UnlockExec`, `UnlockClose`, `UnlockClear`, `UnlockFails` | the unlocks; `mu` is given back first |
| `SessionEnds`, `Crash` | the server, the link, the process |

`AbstractRWLock` is what the package promises: one writer or any number of
readers. An RWLock takes `mu` for reading twice, and RWUnlock gives both back; what
failed calls leave behind is bounded by `MaxRLocks`. `Lock` never comes back,
which the refinement allows.

### RedisCache

`store` is the set of keys in Redis; a cache has the keys `KeysOf` its prefix
and walks over those that `Matches` its pattern, which may include keys of
another cache whose prefix is longer. SCAN visits hash buckets in order,
`ScanSize` at a time, and may return keys of visited buckets again (`Repeats`).
`stayed` and `seen` are histories: the keys present all the time, or at some
time, since the call began. The actions are `Set`, `Delete`, `Clear` with
`ClearScan` and `ClearExec`, `Size` with `SizeScan`, `WalkFails`, `Expire`, and
`Start` and `Shutdown` of the entity, whose client the caches keep. The JSON
calls panic while they build their arguments (`ExecuteJSON`). Values and times
to live are left out; Get only reads.

### Provider

All `enity.go` files share one shape. A row of `Traits` states where a provider
differs: its handle after `NewEnity`, whether Start tests the handle, migrates
and watches, what a refused connection and a failed or successful Close leave in
the handle, and on which handles the methods dereference nil. The handle is
`"nil"`, `"empty"` (an object without a connection), `"open"` or `"closed"`.

| actions | code |
|---|---|
| `StartReturnsEarly` | the handle test at the top of Start |
| `StartConnects`, `StartRefused` | connecting; `sqlx.ConnectContext` may leave a pool behind with its error, an AMQP connection without service channel counts as connected |
| `Migrated`, `MigrateFails`, `MigrateExits` | `Migrator.Migrate`; it sets the action of the configuration it shares with the entity to "nothing", which the next Migrate answers with `logger.Fatal` |
| `StartLaunches` | the goroutines Start leaves in the group |
| `ShutdownPolls`, `ShutdownCloses`, `ShutdownFails`, `ShutdownPanics` | Shutdown and shutdown |
| `WatcherStops`, `WorkerPanics`, `ServerEnds`, `ServerFails` | the goroutines |
| `Cancel`, `GroupFails` | the context given to the program; the errgroup |

`crashed` is set when a goroutine panics or calls `os.Exit`; nothing happens
afterwards. `Logged` says whether the context carries a logger: zerolog's
`Fatal` does nothing on a disabled one.

`ProviderClient` calls Start and Shutdown directly, in any order and any number
of times, one call at a time for each entity. `last` is what the latest call
returned.

### App

`main` is the main goroutine, `waiter` the goroutine of `OSSignalWaiter`, `left`
the entities its Shutdown has still to visit, `closeSignal` the channel of
capacity one. `waiterFirst` is chosen once: programs may call `OSSignalWaiter`
before or after `Start`. main returns, ending the process, when Start fails.
Each entity is started once, with the handle of `NewEnity`, so the early return
of Start does not occur. Shutdown of the HTTP server waits for the request in
progress (`Draining`), as `http.Server` does.

`Registry`, which `App` extends, holds the maps of the manager: functions from a
name to the entity whose metric or check it is. `Builds` says what each
provider puts into its own maps; `Append` copies in the random order of a Go map
up to the first conflict (`AppendConflicts`: any part may have been copied).
Names are abstracted to what `BuildName` and `ToUpper` tell apart. One request
runs at a time: `CheckConn` and `CheckPing` are the two reads of the handle in a
ready check, `Sample` is the function of a metric. main may ignore the error of
an Add (`refused`).

`AbstractLifeCycle` is what the manager promises: entities open in the order of
Add, each after all before it; the application runs only with all of them; they
close in the reverse order, each after all behind it, apart from those that
nothing closes; none opens again; a clean end leaves none open. `App` implements
it by what is open (`conn`) and a phase computed from `main` and `waiter`
(`Phase`). The mapping hides programs that wait for signals before Start
(section 6).

### RabbitConnection and RabbitClient

`RabbitConnection` is the shared connection: `conn` and `service` are the AMQP
connection and the service channel (`"nil"`, `"up"`, `"lost"`), `alive` the open
channels, `pool` the map `channelPool`, `mu` and `readers` the holders of the
`RWMutex`. A channel is a pair of its pool key and a number; the number of a
channel nothing refers to is used again (`Unused`).

| actions | code |
|---|---|
| `Connect`; `WatcherLoops`, `WatcherSeesLoss`, `WatcherLocks`, `DialFails`, `DialLoses`, `DialSucceeds`, `DialGivesUp` | `Connect`, its goroutine, `connect` |
| `ChanLoops`, `ChanDeletes`, `ChanDeleteRaces` | `chanWatcher` |
| `CloseLocks`, `CloseChannel`, `CloseFails`, `ClosePanics`, `CloseConn` | `Close`; a failed one may be repeated |
| `PooledChannel`, `NewChannel`, `NoNewChannel`, `UseChannel`, `Declared`, ... | the calls of users, put together in `RabbitClient` |
| `LoseConnection`, `LoseChannel`, `LoseService`, `Cancel` | the broker, the network, the context (external) |

The dial loop assigns the nil result of a failed `amqp.Dial` to `c.conn`, under
`mu`; `isClosed` is read *before* `mu` is taken; `chanWatcher` deletes whatever
its key maps to by then. What the library does on a loss (`LinksEnd`, `Woken`)
is taken from how the code uses `NotifyClose`: a registered receiver first gets
the error (`ok` is true and the watcher goes round its loop), a receiver
registered later is closed at once. A channel of a connection that was lost
fails with an error, a nil connection panics.

`RabbitClient` adds the users. `pc`, `try` and `result` follow a goroutine in
`SendMessage` (`try` 0 is the attempt to connect before `sendMessage`, 1 and 2
are its calls), `subscribed` a consumer. The senders share one `Publisher`. There
may be several consumers; `ConKey` gives the pool key of each, which stands for
its queue and its name, so that two of them may have one channel. The content of
messages is left out, and `Subscribe` is called at most once per `Consumer`.

`RabbitDelivery` adds the deliveries. The broker has `ready` messages and, for
each channel, those delivered without ack (`unacked`); `buffer` is what the
library keeps for the consumer, `current` and `stage` are where the loop of
`subscribe` is. `Ack(true)` covers all earlier deliveries of the channel,
whoever received them, and changes nothing when another Ack has covered its own;
when a channel ends, its messages are ready again. Every step of `RabbitClient` happens
`Beside` the deliveries; `ConsumerGoesOn` lets the consumer leave its loop only
from the select. `AbstractQueue` is the at-least-once queue a consumer relies on:
a step takes a message, gives back those of links that ended, handles a message,
or deletes one that was handled and is still on its way.

### GopcuaSubscription

`subscription` and `ch` are the fields of the entity, `live` the subscriptions
the server keeps (each names its client and the channel it writes to), `noded`
those with nodes. `InitSubscription` makes the monitor and replaces the channel,
`Subscribed` and `SubscribeFails` are the two ends of `ChanSubscribe`, between
which a `Shutdown` may come; `SubscribeAgain` is the early return. `Notify` is the
library: a full channel drops the notification. `Stop`, `Receive`, `Consumed` are
the goroutine of a subscriber. The program calls Start and Subscribe from one
goroutine.

## 4. Runs

| run | instance | what it shows |
|---|---|---|
| `redis_mutex_separate` | 3 instances, 1 goroutine each; errors, crashes; TTL covers the use | `MutualExclusion`, `UserOwnsKey`, `DeletesOnlyOwnKey`; `LockIsServed` under fairness; refinement of `AbstractLock` |
| `redis_mutex_shared_exclusion` | 2 goroutines share a Mutex, a third has its own | violated: the late `locked = false` of an Unlock ends the next goroutine's wait without the key |
| `redis_mutex_unlock` | 3 instances, 1 goroutine each | violated: an uncontended Lock never raises `locked`, so Unlock does not delete the key |
| `pg_mutex` | 3 processes (writer and reader, writer, reader), 4 sessions, one faulty process | `Exclusion`, `UnlockGivesBack`, `IdleSessionsAreFree`; `LockIsServed` under fairness; refinement of `AbstractRWLock` |
| `redis_cache` | 2 processes, 2 caches with nested prefixes, 3 keys in 2 buckets, 2 writes | `ClearRemovesAll`, `SizeCounts`; `ClearGetsDone` under fairness |
| `client` | pq with queue worker and StartWatcher, gopcua, redis, echo; at most 2 server goroutines each | `OneWatcher`, `CleanStartIsWatched`, `StartedIsConnected`, `ShutIsClosed`, `ShutIsQuiet` |
| `client_pq_retry` | one pq entity | violated: after a failed Start the next one returns nil without watcher |
| `app` | up to 3 of echo, two pq whose names differ in case, two rabbitmq that share the name of a publisher, one with StartWatcher; health requests | `DependenciesOutlive`, `CleanExitClosesAll`, `AcceptedIsComplete`, `ReadyMeansOpen`, `ScrapesSurvive`; `SignalEndsLoop` and `FailureEndsLoop` under fairness; refinement of `AbstractLifeCycle` |
| `app_start_watcher` | one gopcua entity with StartWatcher | violated: the Shutdown of the manager waits for a watcher that waits for the end of this Shutdown |
| `rabbit_consumer` | one consumer of 2 messages, 2 losses, 2 attempts per reconnect, Close and Cancel at any moment | `AckedWasHandled`, `ClosedStaysClosed`; `LostConnectionIsReplaced`, `CloseEndsWatchers`, `MessagesGetDone` under fairness; refinement of `AbstractQueue` |
| `rabbit_publisher` | 2 senders share a Publisher, 1 loss, 1 attempt per reconnect, Close | `NoPanicDuringReconnect`, `ErrorMeansUnsent`, `NobodyIsStuck`; `SendEnds` under fairness |
| `gopcua` | 2 subscribers, 2 clients, 3 channels of size 2, 3 notifications | `NothingUnheard`; `NotifiedIsHandled` under fairness |

The violated runs state what a comment of the code says; `PROJECT.json`
"findings" quotes it. `CHECK_DEADLOCK FALSE` is set where the system may stop:
after an exit, a panic or the death of all processes.

**Bounds.** Three instances let one goroutine delete the key while a second
holds it and a third waits; the code treats all instances alike. The client run
takes one entity of each way to fail, since entities meet only through the
context of the group; `MaxServers = 2` lets a server be started again while its
goroutine runs. In the app run `MaxEnities = 3` leaves room for an entity before
and after the one whose Close fails, and for both kinds of name conflict next to
the HTTP server that startStatistic asks for. In the consumer run `MaxLosses =
2` lets the watcher of a lost channel delete its successor, which is lost in
turn; `MaxChannels` leaves a number free in every reachable state (3 and 2 were
checked to suffice); with two messages one is in the buffer while the other is
handled. Publisher and consumer use different pool keys and meet only in the
connection, so that they run apart; cancelling is left to the consumer run
(`MayCancel`). In the pg_mutex run the first process has a session to spare, so
that a lock may stay with a session that is no longer in `conn`; `MaxRLocks = 2`
lets a failed RWLock be followed by another call. In the cache run the two
buckets make walks of two pages, of which either may be empty, and `MaxWrites =
2` lets a key be deleted and written again between them. In the gopcua run the
third channel allows two failed calls of Subscribe before a successful one. The
other variables are finite by themselves.

**Fairness.** `RedisMutex`: each goroutine inside the package takes its next
step, uses of the lock are finite (a goroutine that holds the lock has Unlock
among its steps), and Redis drops expired keys (`WF` of `Expire`). `PgMutex`:
each goroutine takes its next step. `RedisCache`: a call of Clear or Size takes
its next step; writers, expiry and failures are never forced. `App`: weak
fairness of main, of the waiter, of the request in progress and of each entity's
goroutines, which the Go scheduler provides; signals, cancellations, failures,
crashes and Add are never forced. `RabbitClient`: every goroutine takes its next
step, and nobody starves at `mu` or `muConn` (strong fairness for those who wait
for a lock, as Go's mutexes promise); losses, Cancel, Close and new messages are
never forced. `RabbitDelivery` adds that the broker delivers what is ready to a
consumer that receives, and that Consume returns. `GopcuaSubscription`: the
goroutines of the subscribers run, and Consume returns; calls, notifications,
Shutdown and the end of the context are never forced. `ProviderClient` needs
none.

## 5. Proofs

Eight modules hold the proofs. Each follows the same line: an inductive
invariant, the conjunction of named parts, is shown to hold initially and to be
kept by every action, and implies the properties.

`RedisMutexProof`, for any sets of instances and goroutines:

* `TypeCorrect` and `LocalExclusionHolds` need no hypothesis: `Mutex.mu`
  excludes the goroutines of an instance.
* `MutualExclusionHolds`, `UserOwnsKeyHolds`, `DeletesOnlyOwnKeyHolds` and
  `ImplementsLockHolds` are proved under two hypotheses the code does not
  establish by itself: one goroutine per Mutex value, and a TTL that covers the
  use of the lock. The first is needed (`redis_mutex_shared_exclusion`), the
  second is the usual one of a lock with expiry. The invariant `SeparateInv`
  says that a goroutine owns the key from its successful SETNX to its DEL, and
  that a retrying goroutine finds `locked` raised: exclusion alone is not
  inductive, because it says nothing of the key. The lemma `KeyIsNotTakenOver`
  carries the DEL; the refinement follows step by step.

`ProviderClientProof`, for any set of entities, kinds and configurations: all
invariants of the client run and `ShutIsQuiet`. The inductive invariant
`ClientInv` adds: the worker's flag is truthful (`OneWorker`); the handle of a
provider that clears it is never closed, and open while Start is under way
(`HandleIsLive`); an entity whose handle Start would accept has a watcher
(`ConnectedIsWatched`), without which a Start that returns early could not be
known to leave one. The proofs use only `ProviderAssumption` and facts that
hold of every row of `Traits` (`TraitsFacts`).

`RabbitClientProof`, for any number of senders, consumers, attempts and losses:
type correctness, `ClosedStaysClosed`, `NoPanicDuringReconnect`,
`ErrorMeansUnsent` and `NobodyIsStuck`. The invariant `RabbitInv` adds that the
holder of `mu` is where the code locks it (`LocksAgree`), that a connection which
is up has a watcher that is not about to replace it (`UpIsWatched`), and that
after Close the watcher has only `isClosed` to find (`ClosedIsFinal`).
`UpIsWatched` carries the argument: Close can only succeed on a connection that
is up, hence never between the watcher's look at `isClosed` and its reconnect.
`HoldInv` goes on to the locks and the pool: the sender that holds `muConn` is at
its declaration, a writer of `mu` excludes readers, and a channel in the pool or
in use belongs to the key of its user. From it follows `NobodyIsStuck`: somebody
who waits for `muConn` waits for a sender that waits at most for `mu`, whose
holder takes no other lock.

`RabbitDeliveryProof`, for any number of messages, losses, channels and
consumers. `DeliveryInv` needs no hypothesis: types; `NothingIsLost`, which says
that every message is ready, on its way on one channel, once, or deleted;
`EndedIsEmpty`, that a channel which has ended has none; `AtWork`, that a delivery
at hand keeps its consumer in the loop and is handled before its Ack. `LoopInv`
needs the hypothesis that the consumers have pool keys of their own
(`OwnChannels`): what is on its way on a consumer's channel is the delivery at
hand and then its buffer (`InOrder`), and only channels of consumers have any
(`OthersAreEmpty`). Hence an Ack covers one message: `AckedWasHandled`, and every
step is one of `AbstractQueue` or a stutter (`ImplementsQueueHolds`). The code does
not establish the hypothesis, and it is needed: in an instance with two consumers
to which `ConKey` gives one key TLC finds an Ack that deletes what the other has
not handled, while `NothingIsLost` still holds. Every step of the deliveries is a step of
`RabbitClient` or a stutter (`DeliveriesRefine`), so that `ClosedStaysClosed` holds
beside them.

`PgMutexProof`, for any sets of processes, goroutines and sessions: without
hypothesis the types, `LocalExclusion` (the goroutines of one Mutex value exclude
each other, also after failed calls) and `LockHangs` (`Lock` locks `mu` twice and
never gets to the database). `MuInv` is what they need: a writer has `mu` from
the end of `mu.Lock` to `mu.Unlock`, nobody reads meanwhile, not even in the name
of a call that failed and left `mu` held, and a `Lock` waits for itself. No run
lists these two; they were model-checked with three goroutines on one Mutex value
before the proof. `Exclusion`, `UnlockGivesBack`, `IdleSessionsAreFree` and the
refinement of `AbstractRWLock` with one goroutine per Mutex value
(`OneGoroutineEach`) and sessions that outlast the use of the lock
(`SessionsLast`). The invariant says where a goroutine's session is
(`HasSession`), how often it holds the lock at each point (`WithoutHoldsNothing`,
`HoldingHoldsOne`), that `locked` is up while it does (`FlagIsUp`), that a grant
leads back to a goroutine or to an error (`Traced`), that idle sessions hold
nothing, and that grants are `Compatible`.

`RedisCacheProof`, for any processes, caches, keys, buckets and `ScanSize`:
types, `ClearRemovesAll`, `SizeCounts`. `WalkInv` says of a walk at some cursor
that every key that stayed and whose bucket was visited is gone or in the page
(`ClearInv`), or is counted (`SizeInv`: with cardinalities on both sides);
`HistoryInv` relates the histories to the store.

`AppProof`, for any entities, providers, names and order of Add: all five
invariants of the app run, types, and the refinement of `AbstractLifeCycle`. `DependenciesOutlive` follows from `Walk` (the
entities not yet visited are a beginning of `enitiesOrder` and open, those
behind it are closed or have StartWatcher) and `NoRepeats`; `CleanExitClosesAll`
from `SignalMeansClosed`; `AcceptedIsComplete` from `MapsOfAdded`;
`ReadyMeansOpen` and `ScrapesSurvive` from `Requests` (requests come after
Start, and visit names of their map), `ClosedIsNoticed` (an entity that was
closed when a request came stays closed, and its check is still ahead unless the
request has failed) and `Handles` (until Shutdown runs, what was started is
open). `Phases` and `StartInPlace` say where main is. The refinement
(`ImplementsLifeCycleHolds`) needs besides that nothing is open before its Start
(`NotEarly`); `Walk` names the entity a Shutdown closes, and that those behind it
are closed. Nothing is assumed but the named assumptions on the constants.

`GopcuaSubscriptionProof`, for any number of subscribers, clients, channels and
messages: `NothingUnheard`. `Calling` says that a call is in `ChanSubscribe` only
while the entity has no subscription, `Kept` that a subscription stays with its
channel and its readers, `Numbers` bounds the counters.

Each module proves its type invariant. The runs of `RedisMutex` and `RedisCache`
check it as well; in the others TLC is left with the properties that say more.

**Only model-checked.** Everything about liveness, which is out of the prover's
reach: `LockIsServed` of both mutexes, `ClearGetsDone`,
`SignalEndsLoop`, `FailureEndsLoop`, `LostConnectionIsReplaced`,
`CloseEndsWatchers`, `MessagesGetDone`, `SendEnds`, `NotifiedIsHandled`.

## 6. What the properties leave out

* `CleanStartIsWatched` is about providers without migrations whose failed Start
  leaves no handle; for pq and clickhouse see `client_pq_retry`.
* `StartedIsConnected` is about providers that clear their handle: a dbgraph
  entity clears `grpcConn` and tests `conn`, so it cannot be started again; an
  echo server cannot serve again.
* `ShutIsClosed` and `CleanExitClosesAll` exempt entities with `StartWatcher`:
  no path of their Shutdown closes the connection.
* `SignalEndsLoop` exempts applications with `StartWatcher` (see
  `app_start_watcher`) and those in which a failing Close strands a server
  goroutine. `FailureEndsLoop` exempts applications with an HTTP server or a
  broker: their goroutines do not look at the context, and a cancelled context
  ends the waiter without a Shutdown.
* `DependenciesOutlive` and `CleanExitClosesAll` are about programs that wait for
  signals after Start; with the opposite order an entity may be started after
  its turn in Shutdown has passed.
* `ClosedStaysClosed` and `CloseEndsWatchers` are about a Close that returned
  nil. One that fails (a lost channel in the pool) leaves the connection open,
  and a watcher that waits for `mu` at that moment reconnects afterwards.
* `LostConnectionIsReplaced` allows for the panic that follows a reconnect whose
  attempts are used up.
* `MessagesGetDone` exempts a service channel that a channel exception ended,
  which nothing reopens, and a program that is stopping: the connect loop of
  `subscribe` looks neither at the context nor at `IsClosed`, so that a consumer
  caught in it never ends. No property states the end of the consumer for this
  reason.
* `ReadyMeansOpen` exempts echo entities, which have no check, and dbgraph, whose
  check tests a handle that Shutdown leaves. `ScrapesSurvive` is about the time
  before a signal: afterwards a scrape may dereference a cleared handle, which
  `net/http` recovers.
* `UnlockGivesBack` exempts a process one of whose calls returned an error, and
  `LockIsServed` of `PgMutex` a lock that a failed unlock has left in a session.
* `ClearGetsDone` is satisfied by a Clear that goes on scanning when nothing is
  left: an empty last page does not end its loop.
* No run is about three steps of the code that the models contain: a redis or pq
  Lock that fails keeps `mu`, so that the process cannot lock again
  (`LockFails`); a message whose second try succeeds raises the counter of bad
  messages instead of that of sent ones (`SendReturns`, the field `counted`);
  after Shutdown and Start of a gopcua entity, Subscribe finds the subscription
  of the closed client and returns nil (`SubscribeAgain`).
* `AckedWasHandled` and `ImplementsQueue` are about consumers with pool keys of
  their own: consumers of one queue without a name share a channel, and the
  Ack(true) of one covers what another has not consumed yet.
* `ImplementsLifeCycle`, like `DependenciesOutlive`, is about programs that wait
  for signals after Start.
* `SizeCounts` has an upper bound only when SCAN repeated no key.
* `NothingUnheard` is about programs that subscribe from one goroutine: the
  entity has no lock, and of two concurrent calls it may keep the subscription
  of one and the channel of the other.

## 7. Not modelled

* **mongo**: `NewEnity` dereferences its nil `MetricsStorage`; no method can run.
* **bulk queue**: `NewQueue` leaves the mutex nil; the panic of its first
  operation is `WorkerPanics` of `Provider`.
* **miniorm**: SQL text, and a statement cache that concurrent calls may spoil; no
  other part of the system uses it. It is what a next module would be about.
* **migrations** beyond what Start sees: the versions and files of goose.
* **storages**: no provider has an alive check, so that `/health` always answers
  ok. A program that calls Add while requests run would race on the maps; `App`
  adds before it starts.
* **replies of the JSON commands**, which are never sent.
* **middlewares, swagger, rest client, logging, value types, crypto, small
  helpers**: decoration of requests, single calls and conversions of values,
  without state that other components depend on.
