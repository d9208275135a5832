------------------------------ MODULE Registry ------------------------------
(***************************************************************************)
(* base/: the maps of metrics and checks.  Every entity brings a map of    *)
(* its own, filled by NewEnity; Manager.Add appends it to the maps of the  *)
(* manager, and the handlers of /ready and /metrics walk through these     *)
(* while the entities start and shut down.                                 *)
(*                                                                         *)
(* A map is a function from names to the entities whose check or metric it *)
(* holds.  No provider has an alive check, so that map stays empty.  The   *)
(* module has no behaviour of its own: App composes it with the manager.   *)
(***************************************************************************)
EXTENDS Provider

CONSTANTS
  NameOf,       \* the name an entity was given
  PublishersOf, \* the publishers and consumers added to a RabbitMQ entity
  StatsEnity    \* Manager.statsHTTPEnityName

(* What the conversions of names tell apart: the letters, whether there is *)
(* a "-" or "." among them, and whether they are in upper case.            *)
Name == [letters : STRING, dash : BOOLEAN, upper : BOOLEAN]

ASSUME RegistryAssumption ==
  /\ \A e \in Enity : NameOf[e] \in Name /\ PublishersOf[e] \subseteq Name
  /\ \A e \in Enity : PublishersOf[e] # {} => KindOf[e] = "rabbitmq"
  /\ StatsEnity \in Enity

VARIABLES
  metrics,     \* Manager.MetricsStorage
  readyChecks, \* Manager.ReadyCheckStorage
  request,     \* the handler that runs: of "/ready", "/metrics" or "none"
  unvisited,   \* the names its loop over the map has still to visit
  pinging,     \* the names whose check has found a handle and pings it
  opened,      \* the entities that were open when the request began
  answer       \* what the handler answers

registryVars == <<metrics, readyChecks>>
requestVars == <<request, unvisited, pinging, opened, answer>>

RegistryInit ==
  /\ metrics = <<>>
  /\ readyChecks = <<>>
  /\ request = "none"
  /\ unvisited = {}
  /\ pinging = {}
  /\ opened = {}
  /\ answer = "none"

-----------------------------------------------------------------------------
(* What NewEnity puts into the maps of an entity *)

FullName(e) == [provider |-> KindOf[e], name |-> NameOf[e]]

(* "-" and "." become "_". *)
BuildName(fullName, postfix) ==
  [of |-> [fullName EXCEPT !.name.dash = FALSE], what |-> postfix]

(***************************************************************************)
(* What buildMetrics and buildReadyHandlers of a provider build:           *)
(*   metrics  the metrics of the entity, next to those of its publishers   *)
(*   checked  it has a ready check                                         *)
(*   skips    the handles for which its Ping returns nil without a ping    *)
(* "stats" stands for the seven gauges of StatsAsMetrics, which differ in  *)
(* the counter they read, "requests" for a counter and three histograms.   *)
(***************************************************************************)

PqBuilds == [metrics |-> {"status", "stats"}, checked |-> TRUE, skips |-> {"nil"}]

ClickhouseBuilds == PqBuilds

RedisBuilds == [metrics |-> {"status"}, checked |-> TRUE, skips |-> {"nil"}]

(* Ping dials the broker anew, whatever the handle is. *)
RabbitmqBuilds == [metrics |-> {"status"}, checked |-> TRUE, skips |-> {}]

GopcuaBuilds == RedisBuilds

(* The check tests conn, Ping the grpcConn that shutdown sets to nil. *)
DbgraphBuilds == [metrics |-> {"status"}, checked |-> TRUE, skips |-> {"nil", "closed"}]

EchoBuilds == [metrics |-> {"requests"}, checked |-> FALSE, skips |-> {}]

Builds ==
  [k \in Kinds |->
     CASE k = "pq" -> PqBuilds
       [] k = "clickhouse" -> ClickhouseBuilds
       [] k = "redis" -> RedisBuilds
       [] k = "rabbitmq" -> RabbitmqBuilds
       [] k = "gopcua" -> GopcuaBuilds
       [] k = "dbgraph" -> DbgraphBuilds
       [] k = "echo" -> EchoBuilds]

B(e) == Builds[KindOf[e]]

(* The publishers of different entities may have the same name: it does    *)
(* not contain that of the entity.                                         *)
PublisherCounters(e) ==
  {BuildName([provider |-> "exchange", name |-> n], what) :
     n \in PublishersOf[e], what \in {"ok send messages", "bad send messages"}}

MetricsOf ==
  [e \in Enity |->
     {BuildName(FullName(e), what) : what \in B(e).metrics} \cup PublisherCounters(e)]

(* ToUpper of the full name. *)
ChecksOf ==
  [e \in Enity |->
     IF B(e).checked THEN {[FullName(e) EXCEPT !.name.upper = TRUE]} ELSE {}]

(* The vectors carry the full name as it is in their Subsystem, where      *)
(* Prometheus does not accept a "-".                                       *)
Registrable(e) == ~(KindOf[e] = "echo" /\ NameOf[e].dash)

-----------------------------------------------------------------------------
(* Append(src): the names are copied in the random order of a Go map, up   *)
(* to the first that is already there.                                     *)

With(map, names, e) ==
  [n \in DOMAIN map \cup names |-> IF n \in DOMAIN map THEN map[n] ELSE e]

AppendsAll(map, names, e, map1) ==
  /\ names \cap DOMAIN map = {}
  /\ map1 = With(map, names, e)

AppendConflicts(map, names, e, map1) ==
  /\ names \cap DOMAIN map # {}
  /\ \E copied \in SUBSET (names \ DOMAIN map) : map1 = With(map, copied, e)

(* Mutant: Append takes a conflict for an update. *)
AddAppendsOver(e) ==
  LET Over(map, names) ==
        [n \in DOMAIN map \cup names |-> IF n \in names THEN e ELSE map[n]]
  IN  /\ metrics' = Over(metrics, MetricsOf[e])
      /\ readyChecks' = Over(readyChecks, ChecksOf[e])

(* Both maps of the entity fit. *)
AddAppends(e) ==
  /\ AppendsAll(metrics, MetricsOf[e], e, metrics')
  /\ AppendsAll(readyChecks, ChecksOf[e], e, readyChecks')

(* Add returns at the first map that does not, with a part of it copied. *)
AddConflicts(e) ==
  \/ /\ AppendConflicts(metrics, MetricsOf[e], e, metrics')
     /\ UNCHANGED readyChecks
  \/ /\ AppendsAll(metrics, MetricsOf[e], e, metrics')
     /\ AppendConflicts(readyChecks, ChecksOf[e], e, readyChecks')

-----------------------------------------------------------------------------
(* The handlers, in a goroutine of the HTTP server *)

IsOpen(e) == conn[e] = "open"

(* A request for an endpoint of the statistics; names are those the loop   *)
(* of its handler visits.                                                  *)
RequestArrives(path, names) ==
  /\ servers[StatsEnity] > 0 /\ IsOpen(StatsEnity)
  /\ request = "none"
  /\ request' = path
  /\ unvisited' = names
  /\ pinging' = {}
  /\ opened' = {e \in Enity : IsOpen(e)}
  /\ answer' = IF names = {} THEN "ok" ELSE "none"

ReadyRequest == RequestArrives("/ready", DOMAIN readyChecks)

(* A counter or a vector has no function that the scrape calls, and that   *)
(* of a status gauge sets it to 0 or 1 whatever it finds.                  *)
Sampled == {n \in DOMAIN metrics : n.what = "stats"}

MetricsRequest == RequestArrives("/metrics", Sampled)

Answers(a) ==
  /\ answer' = a
  /\ unvisited' = {}
  /\ pinging' = {}
  /\ UNCHANGED <<request, opened>>

(* The loop is done with a name; after the last one it answers "ok". *)
Visited(n) ==
  /\ unvisited' = unvisited \ {n}
  /\ pinging' = {}
  /\ answer' = IF unvisited = {n} THEN "ok" ELSE "none"
  /\ UNCHANGED <<request, opened>>

(* Mutant: the check leaves the test for nil to Ping. *)
CheckWithoutTest ==
  /\ request = "/ready" /\ answer = "none" /\ pinging = {}
  /\ \E n \in unvisited :
       /\ pinging' = {n}
       /\ UNCHANGED <<request, unvisited, opened, answer>>

(* The next check: if e.conn == nil it fails, and so does the request. *)
CheckConn ==
  /\ request = "/ready" /\ answer = "none" /\ pinging = {}
  /\ \E n \in unvisited :
       IF conn[readyChecks[n]] = "nil"
         THEN Answers("failed")
         ELSE /\ pinging' = {n}
              /\ UNCHANGED <<request, unvisited, opened, answer>>

(* Ping(ctx) takes a handle that has become nil for success; otherwise it  *)
(* may fail, and the request does.                                         *)
CheckPing ==
  \E n \in pinging :
    \/ Visited(n)
    \/ /\ conn[readyChecks[n]] \notin B(readyChecks[n]).skips
       /\ Answers("failed")

(* GetConn().Stats() on a handle that Shutdown has cleared. *)
Panics(n) == conn[metrics[n]] = "nil"

(* PrometheusMiddleware: the function of the next metric.  A panic ends    *)
(* the request only, net/http recovers it; errors are logged.              *)
Sample ==
  /\ request = "/metrics" /\ answer = "none"
  /\ \E n \in unvisited : IF Panics(n) THEN Answers("panic") ELSE Visited(n)

(* The answer is written. *)
RequestEnds ==
  /\ answer # "none"
  /\ request' = "none"
  /\ answer' = "none"
  /\ opened' = {}
  /\ UNCHANGED <<unvisited, pinging>>

Handler == CheckConn \/ CheckPing \/ Sample \/ RequestEnds

RegistryTypeOK ==
  /\ \A n \in DOMAIN metrics : metrics[n] \in Enity /\ n \in MetricsOf[metrics[n]]
  /\ \A n \in DOMAIN readyChecks :
       readyChecks[n] \in Enity /\ n \in ChecksOf[readyChecks[n]]
  /\ request \in {"none", "/ready", "/metrics"}
  /\ unvisited \subseteq DOMAIN metrics \cup DOMAIN readyChecks
  /\ pinging \subseteq unvisited
  /\ opened \subseteq Enity
  /\ answer \in {"none", "ok", "failed", "panic"}
=============================================================================
