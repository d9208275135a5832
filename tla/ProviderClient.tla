--------------------------- MODULE ProviderClient ---------------------------
(***************************************************************************)
(* A program that owns its entities and calls Start and Shutdown on them   *)
(* itself, as the README does (pqEnity.Start(ctx, errGroup)): any number   *)
(* of times, in any order, retrying after errors, one call at a time for   *)
(* each entity, while the goroutines of the errgroup run and the context   *)
(* may be cancelled at any moment.                                         *)
(***************************************************************************)
EXTENDS Provider

CONSTANT MaxServers \* bound: server goroutines of an entity at any time

ASSUME MaxServersAssumption == MaxServers \in Nat \ {0}

VARIABLE last \* what the latest call on an entity was and returned

clientVars == <<providerVars, last>>

Init == ProviderInit /\ last = [e \in Enity |-> "new"]

Returns(e, r) == last' = [last EXCEPT ![e] = r] /\ UNCHANGED group

StartStep(e) ==
  \/ StartConnects(e) /\ servers[e] < MaxServers /\ UNCHANGED <<group, last>>
  \/ Migrated(e) /\ UNCHANGED <<group, last>>
  \/ (StartReturnsEarly(e) \/ StartLaunches(e)) /\ Returns(e, "started")
  \/ (StartRefused(e) \/ MigrateFails(e)) /\ Returns(e, "startFailed")
  \/ (StartPanics(e) \/ MigrateExits(e)) /\ UNCHANGED <<group, last>>

ShutdownStep(e) ==
  /\ startPc[e] = "idle"
  /\ \/ (ShutdownPolls(e) \/ ShutdownCloses(e)) /\ Returns(e, "shut")
     \/ ShutdownFails(e) /\ Returns(e, "shutFailed")
     \/ ShutdownPanics(e) /\ UNCHANGED <<group, last>>

Next ==
  /\ ~crashed
  /\ \/ \E e \in Enity : StartStep(e) \/ ShutdownStep(e)
     \/ /\ (\E e \in Enity : Goroutine(e) \/ ServerFails(e)) \/ Cancel
        /\ UNCHANGED last

Spec == Init /\ [][Next]_clientVars

TypeOK ==
  /\ ProviderTypeOK
  /\ last \in [Enity -> {"new", "started", "startFailed", "shut", "shutFailed"}]

(* Providers whose failed Start leaves no handle behind, and no half-done  *)
(* work that the next Start would skip.                                    *)
FailsClean(e) == ~T(e).migrates /\ "open" \notin T(e).refused

(* "Connection watcher will be started in any case, but only if it wasn't  *)
(* launched before" (enity.go:153 of pq): after a Start that returned nil  *)
(* the watcher of the entity runs, unless the context has ended it.        *)
StartedIsWatched ==
  \A e \in Enity : last[e] = "started" /\ T(e).watches /\ ~ctxDone => watchers[e] = 1

(* The same, for the providers that can keep it whatever failed before.    *)
CleanStartIsWatched ==
  \A e \in Enity :
    last[e] = "started" /\ T(e).watches /\ FailsClean(e) /\ ~ctxDone => watchers[e] = 1

(* "Start starts connection workers and connection procedure itself":      *)
(* after a Start that returned nil the entity has an open handle, also     *)
(* when it had been shut down before.  A dbgraph or echo entity, whose     *)
(* shutdown keeps the dead handle, cannot be started again.                *)
StartedIsConnected ==
  \A e \in Enity : last[e] = "started" /\ T(e).closed = "nil" => conn[e] = "open"

(* "Later will also close connection to database.  This is a blocking      *)
(* call": when Shutdown has returned nil the handle is closed, and stays   *)
(* so until the next Start - for entities without StartWatcher, whose      *)
(* Shutdown does not get that far.                                         *)
ShutIsClosed ==
  \A e \in Enity :
    last[e] = "shut" /\ startPc[e] = "idle" /\ ~StartWatcher[e] => conn[e] # "open"

(* A polling Shutdown returns nil only when the goroutines it waits for    *)
(* are gone.                                                               *)
ShutIsQuiet ==
  [][\A e \in Enity : StartWatcher[e] /\ last[e] # "shut" /\ last'[e] = "shut"
        => watchers[e] = 0 /\ workers[e] = 0]_clientVars
=============================================================================
