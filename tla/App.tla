-------------------------------- MODULE App --------------------------------
(***************************************************************************)
(* app/app.go: the manager that starts the entities of an application in   *)
(* the order they were added, waits for an OS signal in a goroutine of the *)
(* errgroup, shuts the entities down in the reverse order when it comes,   *)
(* and lets the main goroutine wait in Loop for all goroutines.            *)
(*                                                                         *)
(* main is the goroutine that calls Add, Start, OSSignalWaiter and Loop;   *)
(* it returns as soon as Start fails, which ends the process, and may      *)
(* ignore the error of an Add.                                             *)
(***************************************************************************)
EXTENDS Registry, Sequences, SequencesExt

CONSTANT MaxEnities \* bound: entities the program adds

ASSUME MaxEnitiesAssumption == MaxEnities \in Nat \ {0}

VARIABLES
  waiterFirst,  \* the program calls OSSignalWaiter before Start
  enitiesOrder, \* Manager.enitiesOrder, of the entities in Manager.enities
  refused,      \* the entities in it whose Add returned an error
  main,         \* what the main goroutine does
  next,         \* how many entities Start has started
  exit,         \* how the program ended
  waiter,       \* the goroutine of OSSignalWaiter
  left,         \* the entities its Shutdown has still to visit, in order
  closeSignal   \* a signal waits in the channel closeSignal

addVars == <<waiterFirst, enitiesOrder, refused, registryVars>>
mainVars == <<addVars, main, next, exit>>
waiterVars == <<waiter, left, closeSignal>>
vars == <<providerVars, mainVars, waiterVars, requestVars>>

Init ==
  /\ ProviderInit
  /\ RegistryInit
  /\ waiterFirst \in BOOLEAN
  /\ enitiesOrder = <<>>
  /\ refused = {}
  /\ main = "adding"
  /\ next = 0
  /\ exit = "none"
  /\ waiter = "none"
  /\ left = <<>>
  /\ closeSignal = FALSE

-----------------------------------------------------------------------------
(* The main goroutine *)

Added == ToSet(enitiesOrder)

(* Manager.Add: a full name that is already there is refused before        *)
(* anything is done; otherwise the entity is registered, and then its maps *)
(* are appended, where an error leaves it registered.                      *)
Add(e) ==
  /\ main = "adding"
  /\ \A f \in Added : FullName(f) # FullName(e)
  /\ Len(enitiesOrder) < MaxEnities
  /\ enitiesOrder' = Append(enitiesOrder, e)
  /\ \/ AddAppends(e) /\ refused' = refused
     \/ AddConflicts(e) /\ refused' = refused \cup {e}
  /\ UNCHANGED <<providerVars, waiterFirst, main, next, exit, waiterVars, requestVars>>

CallStart ==
  /\ main = (IF waiterFirst THEN "waiting" ELSE "adding")
  /\ enitiesOrder # <<>>
  /\ main' = "starting"
  /\ UNCHANGED <<providerVars, addVars, next, exit, waiterVars, requestVars>>

OSSignalWaiter ==
  /\ main = (IF waiterFirst THEN "adding" ELSE "started")
  /\ enitiesOrder # <<>>
  /\ main' = (IF waiterFirst THEN "waiting" ELSE "looping")
  /\ waiter' = "select"
  /\ UNCHANGED <<providerVars, addVars, next, exit, left, closeSignal, requestVars>>

Exit(how) == main' = "exited" /\ exit' = how /\ UNCHANGED <<addVars, next>>

(* One step of the Start of the next entity.  Each entity is started once, *)
(* so Start never finds a handle of an earlier Start.                      *)
StartEnity ==
  LET e == enitiesOrder[next + 1] IN
  /\ main = "starting"
  /\ next < Len(enitiesOrder)
  /\ \/ /\ StartConnects(e) \/ Migrated(e)
        /\ UNCHANGED mainVars
     \/ /\ StartLaunches(e)
        /\ next' = next + 1
        /\ UNCHANGED <<addVars, main, exit>>
     \/ /\ StartRefused(e) \/ MigrateFails(e)
        /\ Exit("error")
     \/ /\ MigrateExits(e)
        /\ UNCHANGED mainVars
  /\ UNCHANGED <<group, waiterVars, requestVars>>

(* Mutant: the endpoints are registered before the last entity starts. *)
StartStatisticEarly ==
  /\ main = "starting"
  /\ next + 1 = Len(enitiesOrder)
  /\ main' = (IF waiterFirst THEN "looping" ELSE "started")
  /\ UNCHANGED <<providerVars, addVars, next, exit, waiterVars, requestVars>>

(* startStatistic succeeds if there is an HTTP server with the name that   *)
(* was set, and the Prometheus registry takes the build information and    *)
(* every metric; it ends by registering the endpoints.                     *)
StartStatistic ==
  /\ main = "starting"
  /\ next = Len(enitiesOrder)
  /\ \/ /\ StatsEnity \in Added /\ KindOf[StatsEnity] = "echo"
        /\ \A n \in DOMAIN metrics : Registrable(metrics[n])
        /\ main' = (IF waiterFirst THEN "looping" ELSE "started")
        /\ UNCHANGED <<addVars, next, exit>>
     \/ Exit("error")
  /\ UNCHANGED <<providerVars, waiterVars, requestVars>>

(* Mutant: every error of the group counts as an exit signal. *)
LoopAlwaysClean ==
  /\ main = "looping"
  /\ GroupDone
  /\ waiter = "done"
  /\ Exit("clean")
  /\ UNCHANGED <<providerVars, waiterVars, requestVars>>

(* Loop: errgroup.Wait returns when every goroutine has; an ErrSignal as   *)
(* the first error is a clean exit.                                        *)
Loop ==
  /\ main = "looping"
  /\ GroupDone
  /\ waiter = "done"
  /\ Exit(IF groupErr \in {"none", "signal"} THEN "clean" ELSE "error")
  /\ UNCHANGED <<providerVars, waiterVars, requestVars>>

-----------------------------------------------------------------------------
(* The goroutine of OSSignalWaiter *)

(* The operating system delivers a signal; the channel holds one, further  *)
(* ones are dropped.                                                       *)
Signal ==
  /\ waiter # "none"
  /\ ~closeSignal
  /\ closeSignal' = TRUE
  /\ UNCHANGED <<providerVars, mainVars, waiter, left, requestVars>>

(* Mutant: Shutdown walks the entities in the order they were started. *)
TakeSignalInOrder ==
  /\ waiter = "select"
  /\ closeSignal
  /\ waiter' = "shutdown"
  /\ closeSignal' = FALSE
  /\ left' = enitiesOrder
  /\ UNCHANGED <<providerVars, mainVars, requestVars>>

(* case s := <-closeSignal: Shutdown reverses a copy of the order. *)
TakeSignal ==
  /\ waiter = "select"
  /\ closeSignal
  /\ waiter' = "shutdown"
  /\ closeSignal' = FALSE
  /\ left' = Reverse(enitiesOrder)
  /\ UNCHANGED <<providerVars, mainVars, requestVars>>

(* Mutant: the select has no case for the context. *)
TakeCancelMissing == FALSE

(* case <-ctx.Done(): nothing is shut down. *)
TakeCancel ==
  /\ waiter = "select"
  /\ ctxDone
  /\ waiter' = "done"
  /\ GroupFails("ctx")
  /\ UNCHANGED <<enities, crashed, mainVars, left, closeSignal, requestVars>>

(* The Shutdown of the HTTP server stopped its listener and now waits for  *)
(* the request in progress.                                                *)
Draining == request # "none" /\ ~IsOpen(StatsEnity)

(* Mutant: the walk goes on after an error. *)
ShutdownEnityGoesOn ==
  LET e == Head(left) IN
  /\ waiter = "shutdown"
  /\ left # <<>>
  /\ ~Draining
  /\ \/ /\ ShutdownPolls(e) \/ ShutdownCloses(e) \/ ShutdownFails(e)
        /\ left' = Tail(left)
        /\ UNCHANGED <<group, waiter>>
     \/ /\ ShutdownPanics(e)
        /\ UNCHANGED <<group, waiter, left>>
  /\ UNCHANGED <<closeSignal, mainVars, requestVars>>

(* Shutdown of the next entity; the first error ends the walk. *)
ShutdownEnity ==
  LET e == Head(left) IN
  /\ waiter = "shutdown"
  /\ left # <<>>
  /\ ~Draining
  /\ \/ /\ ShutdownPolls(e) \/ ShutdownCloses(e)
        /\ left' = Tail(left)
        /\ UNCHANGED <<group, waiter>>
     \/ /\ ShutdownFails(e)
        /\ waiter' = "done"
        /\ GroupFails("shutdown")
        /\ UNCHANGED left
     \/ /\ ShutdownPanics(e)
        /\ UNCHANGED <<group, waiter, left>>
  /\ UNCHANGED <<closeSignal, mainVars, requestVars>>

(* http.Server.Shutdown gives up waiting when the context is done. *)
DrainFails ==
  /\ waiter = "shutdown"
  /\ Draining
  /\ ctxDone
  /\ waiter' = "done"
  /\ GroupFails("shutdown")
  /\ UNCHANGED <<enities, crashed, left, closeSignal, mainVars, requestVars>>

(* return &ErrSignal{} *)
ReturnErrSignal ==
  /\ waiter = "shutdown"
  /\ left = <<>>
  /\ ~Draining
  /\ waiter' = "done"
  /\ GroupFails("signal")
  /\ UNCHANGED <<enities, crashed, left, closeSignal, mainVars, requestVars>>

-----------------------------------------------------------------------------
(* Requests of the endpoints that startStatistic registers *)

Registered == main \in {"started", "looping"}

Request ==
  /\ Registered
  /\ ReadyRequest \/ MetricsRequest
  /\ UNCHANGED <<providerVars, mainVars, waiterVars>>

ServeRequest == Handler /\ UNCHANGED <<providerVars, mainVars, waiterVars>>

-----------------------------------------------------------------------------
Alive == ~crashed /\ main # "exited"

Main == CallStart \/ OSSignalWaiter \/ StartEnity \/ StartStatistic \/ Loop
Waiter == TakeSignal \/ TakeCancel \/ ShutdownEnity \/ DrainFails \/ ReturnErrSignal
Enities(e) == Goroutine(e) /\ UNCHANGED <<mainVars, waiterVars, requestVars>>

Next ==
  /\ Alive
  /\ \/ \E e \in Enity : Add(e) \/ Enities(e)
     \/ \E e \in Enity : ServerFails(e) /\ UNCHANGED <<mainVars, waiterVars, requestVars>>
     \/ Main \/ Waiter \/ Signal \/ Request \/ ServeRequest
     \/ Cancel /\ UNCHANGED <<mainVars, waiterVars, requestVars>>

Spec == Init /\ [][Next]_vars

(* Every goroutine that can run does; signals, cancellations and failures  *)
(* need not come.                                                          *)
Fairness ==
  /\ WF_vars(Alive /\ Main)
  /\ WF_vars(Alive /\ Waiter)
  /\ WF_vars(Alive /\ ServeRequest)
  /\ \A e \in Enity : WF_vars(Alive /\ Enities(e))

FairSpec == Spec /\ Fairness

-----------------------------------------------------------------------------
(* Properties *)

TypeOK ==
  /\ ProviderTypeOK
  /\ RegistryTypeOK
  /\ waiterFirst \in BOOLEAN
  /\ enitiesOrder \in Seq(Enity)
  /\ refused \subseteq Added
  /\ main \in {"adding", "waiting", "starting", "started", "looping", "exited"}
  /\ next \in 0..Len(enitiesOrder)
  /\ exit \in {"none", "clean", "error"}
  /\ waiter \in {"none", "select", "shutdown", "done"}
  /\ left \in Seq(Enity)
  /\ closeSignal \in BOOLEAN

(* Entities may use those added before them.  While an application that    *)
(* started before it waits for signals runs or shuts down, an entity that  *)
(* is still open never finds one added before it closed, even when a       *)
(* Shutdown on the way fails.  Entities with StartWatcher are never closed.*)
DependenciesOutlive ==
  main = "looping" /\ ~waiterFirst =>
    \A i, j \in 1..Len(enitiesOrder) :
      /\ i < j
      /\ ~StartWatcher[enitiesOrder[j]]
      /\ conn[enitiesOrder[j]] = "open"
      => conn[enitiesOrder[i]] = "open"

(* "exited by exit signal": when Loop of such an application returns nil,  *)
(* every entity (without StartWatcher) has been closed and no goroutine of *)
(* the group is left.                                                      *)
CleanExitClosesAll ==
  exit = "clean" /\ ~waiterFirst =>
    /\ GroupDone
    /\ \A e \in Added : ~StartWatcher[e] => conn[e] # "open"

(* The life of an application that waits for signals after Start; of one   *)
(* that does so before, whose entities may be started during Shutdown,     *)
(* nothing is said.  In all steps, also those that fail, entities open in  *)
(* the order of Add and close in the reverse order, and a nil from Loop    *)
(* means that none is left open.                                           *)
Phase ==
  IF main = "exited" THEN exit
  ELSE IF main \in {"adding", "waiting", "starting"} THEN "starting"
  ELSE CASE waiter \in {"none", "select"} -> "running"
         [] waiter = "shutdown" -> "closing"
         [] waiter = "done" -> "ending"

LifeCycle == INSTANCE AbstractLifeCycle WITH
  Lasting <- {e \in Enity : StartWatcher[e]},
  order <- IF waiterFirst THEN <<>> ELSE enitiesOrder,
  open <- IF waiterFirst THEN {} ELSE {e \in Added : conn[e] = "open"},
  phase <- IF waiterFirst THEN "starting" ELSE Phase
ImplementsLifeCycle == LifeCycle!Spec

Gone == main = "exited" \/ crashed

(* An entity whose Shutdown may fail leaves a server goroutine running:    *)
(* its own, or that of an entity which Shutdown would have visited later.  *)
(* That of the HTTP server may fail for a request in progress.             *)
MayStrand ==
  \E i, j \in 1..Len(enitiesOrder) :
    /\ i <= j
    /\ T(enitiesOrder[i]).serves
    /\ enitiesOrder[j] \in CloseFails \cup {StatsEnity}
    /\ i = j => T(enitiesOrder[i]).unclosed = "open"

(* A signal that was taken stops the application, even when it came while  *)
(* Start was still at work: no entity of it has StartWatcher (see          *)
(* ShutdownEnds), and none of its servers is stranded.                     *)
SignalEndsLoop ==
  waiter = "shutdown" /\ ~MayStrand /\ (\A e \in Added : ~StartWatcher[e]) ~> Gone

(* A context that is done, for instance because the HTTP server failed,    *)
(* ends the application once no server goroutine is left; those do not     *)
(* look at the context.                                                    *)
FailureEndsLoop ==
  ctxDone /\ main = "looping" /\ (\A e \in Enity : servers[e] = 0) ~> Gone

(* Whatever conflicts of names there are, what Add accepted is complete:   *)
(* every metric and check of an entity whose Add returned nil is in the    *)
(* maps of the manager, and is that of this entity and no other.           *)
AcceptedIsComplete ==
  \A e \in Added \ refused :
    /\ \A n \in MetricsOf[e] : n \in DOMAIN metrics /\ metrics[n] = e
    /\ \A n \in ChecksOf[e] : n \in DOMAIN readyChecks /\ readyChecks[n] = e

(* If /ready answers "ok", every entity that Add accepted was open when    *)
(* the request came, although the checks read handles that Shutdown clears *)
(* at the same time.  dbgraph is out: its check tests a handle that        *)
(* Shutdown leaves.                                                        *)
ReadyMeansOpen ==
  request = "/ready" /\ answer = "ok" =>
    \A e \in Added \ refused :
      KindOf[e] \notin {"echo", "dbgraph"} => e \in opened

(* The functions of the metrics dereference the handles of databases: no   *)
(* scrape panics between the end of Start and the first signal.            *)
ScrapesSurvive == answer = "panic" => waiter \in {"shutdown", "done"}

(* "Shutdown shutdowns queue worker and connection watcher ... This is a   *)
(* blocking call" (enity.go of the providers): the Shutdown of the manager *)
(* comes to an end.                                                        *)
ShutdownEnds == waiter = "shutdown" ~> waiter = "done" \/ Gone
=============================================================================
