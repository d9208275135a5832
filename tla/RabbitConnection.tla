-------------------------- MODULE RabbitConnection --------------------------
(***************************************************************************)
(* providers/rabbitmq/connection: one AMQP connection that reconnects, a   *)
(* service channel for declarations and a pool of channels for publishing  *)
(* and consuming.  Goroutines: the connection watcher, a watcher for each  *)
(* pooled channel, the caller of Close, and the users of the connection,   *)
(* whose calls RabbitClient puts together.                                 *)
(*                                                                         *)
(* The broker and the library streadway/amqp are outside of the code: a    *)
(* connection or a channel may be lost at any moment; a method of a lost   *)
(* one returns an error, a method of a nil one panics; losing a connection *)
(* loses its channels.  A receiver registered with NotifyClose gets the    *)
(* error of a loss first, which the watchers skip; registering on a lost   *)
(* object returns a closed receiver, which is what they react to.          *)
(***************************************************************************)
EXTENDS Naturals, FiniteSets

CONSTANTS
  User,        \* goroutines that call Publish, Consume and the declarations
  Key,         \* keys of the pool (ChannelPoolItemKey)
  NoChan,      \* no channel
  MaxChannels, \* bound: channels of one key that exist at a time
  MaxAttempts, \* len(backoffPolicy)
  MaxLosses,   \* bound: losses of a connection or a channel
  MayCancel    \* the context given to Connect may be cancelled

(* A channel carries the key it was opened for. *)
Chan == Key \X (1..MaxChannels)
KeyOf(ch) == ch[1]

ASSUME RabbitAssumption ==
  /\ NoChan \notin Chan
  /\ MaxChannels \in Nat
  /\ MaxAttempts \in Nat \ {0}
  /\ MaxLosses \in Nat
  /\ MayCancel \in BOOLEAN

VARIABLES
  conn,     \* Connection.conn: "nil", "up" or "lost"
  service,  \* Connection.serviceChannel: "nil", "up" or "lost"
  alive,    \* the open channels
  pool,     \* Connection.channelPool
  mu,       \* the writer that holds Connection.mu
  readers,  \* the users that hold Connection.mu for reading
  held,     \* the channel a user works with
  isClosed, \* Connection.isClosed
  watcher,  \* where the connection watcher is
  attempts, \* attempts left in its reconnect loop
  watch,    \* where the watcher of a channel is
  closing,  \* where Close is
  toClose,  \* the entries of the pool Close has still to visit
  ctxDone,  \* the context given to Connect is done
  losses,   \* losses so far
  crashed   \* a goroutine panicked

links == <<conn, service, alive, losses>>
locks == <<mu, readers>>
watchers == <<watcher, attempts, watch>>
closer == <<isClosed, closing, toClose>>
connVars == <<links, pool, locks, held, watchers, closer, ctxDone, crashed>>

ConnTypeOK ==
  /\ conn \in {"nil", "up", "lost"}
  /\ service \in {"nil", "up", "lost"}
  /\ alive \subseteq Chan
  /\ pool \in [Key -> Chan \cup {NoChan}]
  /\ mu \in {"free", "watcher", "closer"}
  /\ readers \subseteq User
  /\ held \in [User -> Chan \cup {NoChan}]
  /\ isClosed \in BOOLEAN
  /\ watcher \in {"none", "top", "wait", "lock", "dial", "ended"}
  /\ attempts \in 0..MaxAttempts
  /\ watch \in [Chan -> {"none", "top", "wait", "delete"}]
  /\ closing \in {"idle", "pool", "failed", "closed"}
  /\ toClose \subseteq Key
  /\ ctxDone \in BOOLEAN
  /\ losses \in 0..MaxLosses
  /\ crashed \in BOOLEAN

EmptyPool == [k \in Key |-> NoChan]

ConnInit ==
  /\ conn = "nil"
  /\ service = "nil"
  /\ alive = {}
  /\ pool = EmptyPool
  /\ mu = "free"
  /\ readers = {}
  /\ held = [u \in User |-> NoChan]
  /\ isClosed = FALSE
  /\ watcher = "none"
  /\ attempts = 0
  /\ watch = [ch \in Chan |-> "none"]
  /\ closing = "idle"
  /\ toClose = {}
  /\ ctxDone = FALSE
  /\ losses = 0
  /\ crashed = FALSE

(* The library wakes a watcher that waits for the end of its object. *)
Woken(w) == IF w = "wait" THEN "top" ELSE w
WakeChannels(chs) ==
  watch' = [ch \in Chan |-> IF ch \in chs THEN Woken(watch[ch]) ELSE watch[ch]]

(* All that ends with the connection. *)
LinksEnd ==
  /\ conn' = "lost"
  /\ service' = IF service = "up" THEN "lost" ELSE service
  /\ alive' = {}
  /\ watcher' = Woken(watcher)
  /\ WakeChannels(alive)

WriterMayLock == mu = "free" /\ readers = {}
ReaderMayLock == mu = "free" /\ watcher # "none"

-----------------------------------------------------------------------------
(* Connect and the environment *)

(* Connect, called by the Start of the entity; one that fails leaves the   *)
(* program without connection (see Provider).  c.connect replaces the      *)
(* connection, the service channel and the pool.                           *)
Connected ==
  /\ conn' = "up"
  /\ service' = "up"
  /\ pool' = EmptyPool

Connect ==
  /\ watcher = "none"
  /\ Connected
  /\ watcher' = "top"
  /\ UNCHANGED <<alive, losses, locks, held, attempts, watch, closer, ctxDone, crashed>>

Cancel ==
  /\ MayCancel
  /\ ~ctxDone
  /\ ctxDone' = TRUE
  /\ UNCHANGED <<links, pool, locks, held, watchers, closer, crashed>>

Lost ==
  /\ losses < MaxLosses
  /\ losses' = losses + 1

LoseConnection ==
  /\ conn = "up"
  /\ Lost
  /\ LinksEnd
  /\ UNCHANGED <<pool, locks, held, attempts, closer, ctxDone, crashed>>

(* A channel exception ends one channel. *)
LoseChannel(ch) ==
  /\ ch \in alive
  /\ Lost
  /\ alive' = alive \ {ch}
  /\ WakeChannels({ch})
  /\ UNCHANGED <<conn, service, pool, locks, held, watcher, attempts, closer, ctxDone, crashed>>

LoseService ==
  /\ service = "up"
  /\ Lost
  /\ service' = "lost"
  /\ UNCHANGED <<conn, alive, pool, locks, held, watchers, closer, ctxDone, crashed>>

Panic ==
  /\ crashed' = TRUE
  /\ UNCHANGED <<links, pool, locks, held, watchers, closer, ctxDone>>

-----------------------------------------------------------------------------
(* The connection watcher *)

WatcherGoes(l) ==
  /\ watcher' = l
  /\ UNCHANGED <<links, pool, locks, held, attempts, watch, closer, ctxDone, crashed>>

(* The top of the loop; NotifyClose panics on a nil connection. *)
WatcherLoops ==
  /\ watcher = "top"
  /\ \/ ctxDone /\ WatcherGoes("ended")
     \/ ~ctxDone /\ conn = "nil" /\ Panic
     \/ ~ctxDone /\ conn = "up" /\ WatcherGoes("wait")

SeesLoss == watcher = "top" /\ ~ctxDone /\ conn = "lost"

(* Mutant: the watcher reconnects without asking isClosed. *)
WatcherSeesLossAnyway == SeesLoss /\ WatcherGoes("lock")

(* isClosed is read here, mu is taken later. *)
WatcherSeesLoss == SeesLoss /\ WatcherGoes(IF isClosed THEN "ended" ELSE "lock")

StartsDialing ==
  /\ watcher = "lock"
  /\ watcher' = "dial"
  /\ attempts' = MaxAttempts
  /\ UNCHANGED <<links, pool, readers, held, watch, closer, ctxDone, crashed>>

(* Mutant: the reconnect loop does not take mu. *)
WatcherSkipsLock == StartsDialing /\ mu' = mu

WatcherLocks == StartsDialing /\ WriterMayLock /\ mu' = "watcher"

(* amqp.Dial fails and its nil result is assigned to c.conn. *)
DialFails ==
  /\ watcher = "dial"
  /\ attempts > 0
  /\ conn' = "nil"
  /\ attempts' = attempts - 1
  /\ UNCHANGED <<service, alive, losses, pool, locks, held, watcher, watch, closer, ctxDone, crashed>>

(* The new connection ends before its service channel is open. *)
DialLoses ==
  /\ watcher = "dial"
  /\ attempts > 0
  /\ Lost
  /\ conn' = "lost"
  /\ service' = "nil"
  /\ attempts' = attempts - 1
  /\ UNCHANGED <<alive, pool, locks, held, watcher, watch, closer, ctxDone, crashed>>

DialingEnds(m, l) == mu' = m /\ watcher' = l /\ attempts' = 0

(* Mutant: the loop leaves mu locked. *)
WatcherKeepsLock == DialingEnds(mu, "top")

WatcherUnlocks == DialingEnds("free", "top")

DialSucceeds ==
  /\ watcher = "dial"
  /\ attempts > 0
  /\ Connected
  /\ WatcherUnlocks
  /\ UNCHANGED <<alive, losses, readers, held, watch, closer, ctxDone, crashed>>

NoAttemptsLeft ==
  /\ watcher = "dial"
  /\ attempts = 0
  /\ UNCHANGED <<links, pool, readers, held, watch, closer, ctxDone, crashed>>

(* Mutant: the watcher returns when the attempts are used up. *)
DialEnds == NoAttemptsLeft /\ DialingEnds("free", "ended")

(* The attempts are used up; the watcher goes on all the same. *)
DialGivesUp == NoAttemptsLeft /\ WatcherUnlocks

WatcherStep ==
  \/ WatcherLoops \/ WatcherSeesLoss
  \/ DialFails \/ DialLoses \/ DialSucceeds \/ DialGivesUp

-----------------------------------------------------------------------------
(* The watcher of a channel *)

ChanGoes(ch, l) ==
  /\ watch' = [watch EXCEPT ![ch] = l]
  /\ UNCHANGED <<links, locks, held, watcher, attempts, closer, ctxDone, crashed>>

ChanLoops(ch) ==
  /\ watch[ch] = "top"
  /\ \/ ctxDone /\ ChanGoes(ch, "none")
     \/ ~ctxDone /\ ch \in alive /\ ChanGoes(ch, "wait")
     \/ ~ctxDone /\ ch \notin alive /\ ChanGoes(ch, IF isClosed THEN "none" ELSE "delete")
  /\ UNCHANGED pool

(* Mutant: the lost channel stays in the pool. *)
ChanDeletesNothing(ch) == watch[ch] = "delete" /\ ChanGoes(ch, "none") /\ UNCHANGED pool

(* delete(c.channelPool, poolKey): whatever the key maps to by now. *)
ChanDeletes(ch) ==
  /\ watch[ch] = "delete"
  /\ ChanGoes(ch, "none")
  /\ pool' = [pool EXCEPT ![KeyOf(ch)] = NoChan]

(* Close iterates over the pool without channelPoolMu: the runtime may     *)
(* notice and end the process.                                             *)
ChanDeleteRaces(ch) == watch[ch] = "delete" /\ closing = "pool" /\ Panic

ChanStep(ch) == ChanLoops(ch) \/ ChanDeletes(ch) \/ ChanDeleteRaces(ch)

-----------------------------------------------------------------------------
(* Close *)

CloseBegins ==
  /\ closing \in {"idle", "failed"}
  /\ watcher # "none"
  /\ WriterMayLock
  /\ mu' = "closer"
  /\ closing' = "pool"
  /\ toClose' = {k \in Key : pool[k] # NoChan}
  /\ UNCHANGED <<links, pool, readers, held, watchers, ctxDone, crashed>>

(* Mutant: Close does not set isClosed. *)
CloseLocksOnly == CloseBegins /\ UNCHANGED isClosed

CloseLocks == CloseBegins /\ isClosed' = TRUE

CloseChannel(k) ==
  /\ closing = "pool"
  /\ k \in toClose
  /\ pool[k] \in alive \cup {NoChan}
  /\ alive' = alive \ {pool[k]}
  /\ WakeChannels({pool[k]})
  /\ toClose' = toClose \ {k}
  /\ UNCHANGED <<conn, service, losses, pool, locks, held, watcher, attempts, isClosed, closing, ctxDone, crashed>>

(* The first channel that is already lost ends Close. *)
CloseFails ==
  /\ closing = "pool"
  /\ \/ \E k \in toClose : pool[k] \notin alive \cup {NoChan}
     \/ toClose = {} /\ conn = "lost"
  /\ closing' = "failed"
  /\ toClose' = {}
  /\ mu' = "free"
  /\ UNCHANGED <<links, pool, readers, held, watchers, isClosed, ctxDone, crashed>>

ClosePanics ==
  /\ closing = "pool"
  /\ toClose = {}
  /\ conn = "nil"
  /\ Panic

CloseConn ==
  /\ closing = "pool"
  /\ toClose = {}
  /\ conn = "up"
  /\ LinksEnd
  /\ closing' = "closed"
  /\ mu' = "free"
  /\ UNCHANGED <<losses, pool, readers, held, attempts, isClosed, toClose, ctxDone, crashed>>

CloseStep == (\E k \in Key : CloseChannel(k)) \/ CloseFails \/ ClosePanics \/ CloseConn

-----------------------------------------------------------------------------
(* What a user's call does to the connection *)

(* GetChannelFromPool under mu.RLock; the lock is held until UseChannel. *)
PooledChannel(u, k) ==
  /\ ReaderMayLock
  /\ pool[k] # NoChan
  /\ readers' = readers \cup {u}
  /\ held' = [held EXCEPT ![u] = pool[k]]
  /\ UNCHANGED <<links, pool, mu, watchers, closer, ctxDone, crashed>>

(* The identity of a channel nothing refers to any more is used again. *)
Unused(ch) ==
  /\ ch \notin alive
  /\ watch[ch] = "none"
  /\ pool[KeyOf(ch)] # ch
  /\ \A u \in User : held[u] # ch

NewChannel(u, k) ==
  /\ ReaderMayLock
  /\ pool[k] = NoChan
  /\ conn = "up"
  /\ \E i \in 1..MaxChannels :
       LET ch == <<k, i>> IN
       /\ Unused(ch)
       /\ \A j \in 1..(i - 1) : ~Unused(<<k, j>>)
       /\ alive' = alive \cup {ch}
       /\ pool' = [pool EXCEPT ![k] = ch]
       /\ watch' = [watch EXCEPT ![ch] = "top"]
       /\ held' = [held EXCEPT ![u] = ch]
  /\ readers' = readers \cup {u}
  /\ UNCHANGED <<conn, service, losses, mu, watcher, attempts, closer, ctxDone, crashed>>

(* c.conn.Channel() returns an error or panics. *)
NoNewChannel(k) == ReaderMayLock /\ pool[k] = NoChan /\ conn = "lost" /\ UNCHANGED connVars
ChannelPanics(k) == ReaderMayLock /\ pool[k] = NoChan /\ conn = "nil" /\ Panic

(* The AMQP call returns and mu.RUnlock follows; keep: the user goes on    *)
(* working with the channel.                                               *)
UseChannel(u, keep) ==
  /\ u \in readers
  /\ readers' = readers \ {u}
  /\ held' = IF keep THEN held ELSE [held EXCEPT ![u] = NoChan]
  /\ UNCHANGED <<links, pool, mu, watchers, closer, ctxDone, crashed>>

DropChannel(u) ==
  /\ held' = [held EXCEPT ![u] = NoChan]
  /\ UNCHANGED <<links, pool, locks, watchers, closer, ctxDone, crashed>>

(* ExchangeDeclare, QueueDeclare and QueueBind on the service channel *)
Declared == ReaderMayLock /\ service = "up" /\ UNCHANGED connVars
NotDeclared == ReaderMayLock /\ service = "lost" /\ UNCHANGED connVars
DeclarePanics == ReaderMayLock /\ service = "nil" /\ Panic

-----------------------------------------------------------------------------
(* Properties *)

(* The connection stays closed after a Close that returned nil: neither    *)
(* the watcher nor a late user brings back a connection or a channel.      *)
ClosedStaysClosed == closing = "closed" => conn # "up" /\ alive = {}

(* A panic never comes from the nil connection that a reconnect leaves in  *)
(* c.conn between two attempts: mu keeps users and Close away from it.     *)
NoPanicDuringReconnect == crashed => watcher # "dial"

(* A lost connection is replaced unless the program is stopping; it        *)
(* panics when the attempts are used up.                                   *)
LostConnectionIsReplaced ==
  conn = "lost" ~> (conn = "up" \/ isClosed \/ ctxDone \/ crashed)

(* After a Close that returned nil the watchers of the connection and of   *)
(* every channel, pooled or not, end.                                      *)
CloseEndsWatchers ==
  closing = "closed" ~> (crashed \/ (watcher = "ended" /\ \A ch \in Chan : watch[ch] = "none"))

=============================================================================
