----------------------------- MODULE RedisCache -----------------------------
(***************************************************************************)
(* providers/redis/cache/cache.go and providers/redis/rejson: caches that  *)
(* several processes keep in one Redis.  A cache is a key prefix.  The     *)
(* writing calls are one Redis command each; Clear and Size walk through   *)
(* the whole key space with SCAN, page by page, while the others write and *)
(* keys expire.  One action is one Redis command with the code around it.  *)
(***************************************************************************)
EXTENDS Naturals, FiniteSets

CONSTANTS
  Process,   \* the processes, each with a client of the Redis server
  Cache,     \* the caches
  CachesOf,  \* the caches a process has made (Enity.AddCache)
  NoCache,   \* no Clear or Size runs
  Key,       \* keys of the server
  KeysOf,    \* the keys BuildKey makes for a cache
  Matches,   \* the keys that KeyPrefix()+"*" matches; more than its own when
             \* the prefix of another cache begins with that of this one
  Buckets,   \* hash buckets of the server, in the order SCAN visits them
  BucketOf,  \* the bucket of a key
  ScanSize,  \* Config.ScanSize: the buckets one SCAN visits
  Repeats,   \* TRUE: SCAN may return a key again (the server rehashes)
  Faulty,    \* processes whose commands may fail
  MaxWrites  \* bound: writing calls of all processes

ASSUME RedisCacheAssumption ==
  /\ NoCache \notin Cache
  /\ CachesOf \in [Process -> SUBSET Cache]
  /\ KeysOf \in [Cache -> SUBSET Key]
  /\ Matches \in [Cache -> SUBSET Key]
  /\ \A c \in Cache : KeysOf[c] \subseteq Matches[c]
  /\ IsFiniteSet(Key)
  /\ Buckets \in Nat \ {0} /\ ScanSize \in Nat \ {0}
  /\ BucketOf \in [Key -> 1..Buckets]
  /\ Repeats \in BOOLEAN
  /\ Faulty \subseteq Process
  /\ MaxWrites \in Nat

VARIABLES
  store,    \* the keys present in the server
  client,   \* client[p]: the redis client inside the rejson.Client of p
  pc,       \* pc[p]: where the call of p is
  cache,    \* cache[p]: the cache it works on
  cursor,   \* cursor[p]: the local cursor
  page,     \* page[p]: the keys of the last SCAN
  length,   \* length[p]: the sum Size makes
  writes,   \* number of writing calls so far
  stayed,   \* history: keys present ever since the call of p began
  seen,     \* history: keys present at some time since then
  repeated  \* history: a page of this call repeated a key

local == <<pc, cache, cursor, page, length>>
history == <<stayed, seen, repeated>>
vars == <<store, client, local, writes, history>>

Goto(p, l) == pc' = [pc EXCEPT ![p] = l]

Walking(p) == pc[p] \in {"clearScan", "clearExec", "sizeScan"}

Init ==
  /\ store \in SUBSET Key
  /\ client = [p \in Process |-> "empty"]
  /\ pc = [p \in Process |-> "idle"]
  /\ cache = [p \in Process |-> NoCache]
  /\ cursor = [p \in Process |-> 0]
  /\ page = [p \in Process |-> {}]
  /\ length = [p \in Process |-> 0]
  /\ writes = 0
  /\ stayed = [p \in Process |-> {}]
  /\ seen = [p \in Process |-> {}]
  /\ repeated = [p \in Process |-> FALSE]

(* What the histories become when the server's keys become s. *)
StayedIn(s) == [p \in Process |-> stayed[p] \cap s]
SeenIn(s) == [p \in Process |->
                IF pc[p] = "sizeScan" THEN seen[p] \cup (s \cap Matches[cache[p]]) ELSE seen[p]]

SetStore(s) == store' = s /\ stayed' = StayedIn(s) /\ seen' = SeenIn(s)

Write(p) ==
  /\ pc[p] = "idle" /\ client[p] = "open"
  /\ writes < MaxWrites
  /\ writes' = writes + 1

(* Set and SetNX: one command with the expiry in it. *)
Set(p, k) ==
  /\ Write(p)
  /\ \E c \in CachesOf[p] : k \in KeysOf[c]
  /\ SetStore(store \cup {k})
  /\ UNCHANGED <<client, local, repeated>>

Delete(p, k) ==
  /\ Write(p)
  /\ \E c \in CachesOf[p] : k \in KeysOf[c]
  /\ SetStore(store \ {k})
  /\ UNCHANGED <<client, local, repeated>>

(* Every JSON command builds its arguments with concatWithCmd, which       *)
(* writes to the first element of an empty slice: the goroutine panics     *)
(* before the server sees the command.                                     *)
ExecuteJSON(p) ==
  /\ pc[p] = "idle"
  /\ Goto(p, "dead")
  /\ UNCHANGED <<store, client, cache, cursor, page, length, writes, history>>

(* JSONGet, JSONSet, JSONSetNX of a cache; the Expire that follows a       *)
(* JSONSet is never reached.                                               *)
JSONCall(p) == CachesOf[p] # {} /\ ExecuteJSON(p)

(* The JSON methods of the client of an entity. *)
JSONMethod(p) == ExecuteJSON(p)

(* A command through the empty client of an entity that is not started.    *)
CommandPanics(p) ==
  /\ pc[p] = "idle" /\ client[p] = "empty"
  /\ Goto(p, "dead")
  /\ UNCHANGED <<store, client, cache, cursor, page, length, writes, history>>

-----------------------------------------------------------------------------
(* Clear and Size *)

Begin(p, c, l) ==
  /\ pc[p] = "idle" /\ client[p] # "empty"
  /\ c \in CachesOf[p]
  /\ Goto(p, l)
  /\ cache' = [cache EXCEPT ![p] = c]
  /\ stayed' = [stayed EXCEPT ![p] = store \cap Matches[c]]
  /\ seen' = [seen EXCEPT ![p] = IF l = "sizeScan" THEN store \cap Matches[c] ELSE {}]
  /\ UNCHANGED <<store, client, cursor, page, length, writes, repeated>>

Clear(p, c) == Begin(p, c, "clearScan")

(* Also the gauge "cache size" calls Size. *)
Size(p, c) == Begin(p, c, "sizeScan")

(* The cursor of the next SCAN; 0 says that the walk is over.              *)
NextCursor(p) == IF cursor[p] + ScanSize >= Buckets THEN 0 ELSE cursor[p] + ScanSize

(* The keys of the cache that are in some of the buckets. *)
Present(p, B) == {k \in store \cap Matches[cache[p]] : BucketOf[k] \in B}

Fresh(p) == Present(p, cursor[p] + 1 .. cursor[p] + ScanSize)

(* SCAN visits the next buckets and returns their matching keys; when the  *)
(* table was resized it may return keys of buckets it visited before.      *)
Pages(p) ==
  {Fresh(p) \cup again : again \in IF Repeats THEN SUBSET Present(p, 1..cursor[p]) ELSE {{}}}

Scan(p) ==
  /\ client[p] = "open"
  /\ cursor' = [cursor EXCEPT ![p] = NextCursor(p)]

(* Mutant: an empty page is sent to the pipeline like any other. *)
ClearScanUnchecked(p) ==
  /\ pc[p] = "clearScan"
  /\ \E keys \in Pages(p) : Scan(p) /\ page' = [page EXCEPT ![p] = keys]
  /\ Goto(p, "clearExec")
  /\ UNCHANGED <<store, client, cache, length, writes, history>>

(* Mutant: an empty page ends the loop. *)
ClearScanStops(p) ==
  /\ pc[p] = "clearScan"
  /\ \E keys \in Pages(p) :
       /\ Scan(p)
       /\ page' = [page EXCEPT ![p] = keys]
       /\ \/ keys = {} /\ Goto(p, "cleared")
          \/ keys # {} /\ Goto(p, "clearExec")
  /\ UNCHANGED <<store, client, cache, length, writes, history>>

(* Mutant: the cursor is advanced after the test for an empty page. *)
ClearScanKeepsCursor(p) ==
  /\ pc[p] = "clearScan"
  /\ \E keys \in Pages(p) :
       /\ page' = [page EXCEPT ![p] = keys]
       /\ \/ keys = {} /\ client[p] = "open" /\ UNCHANGED <<pc, cursor>>
          \/ keys # {} /\ Scan(p) /\ Goto(p, "clearExec")
  /\ UNCHANGED <<store, client, cache, length, writes, history>>

(* An empty page goes back to SCAN whatever the cursor is, so that a walk  *)
(* whose last page is empty begins again.                                  *)
ClearScan(p) ==
  /\ pc[p] = "clearScan"
  /\ \E keys \in Pages(p) :
       /\ Scan(p)
       /\ page' = [page EXCEPT ![p] = keys]
       /\ Goto(p, IF keys = {} THEN "clearScan" ELSE "clearExec")
  /\ UNCHANGED <<store, client, cache, length, writes, history>>

(* pipe.Del and pipe.Exec delete the keys of the page. *)
ClearExec(p) ==
  /\ pc[p] = "clearExec" /\ client[p] = "open"
  /\ SetStore(store \ page[p])
  /\ page' = [page EXCEPT ![p] = {}]
  /\ \/ cursor[p] = 0 /\ Goto(p, "cleared")
     \/ cursor[p] # 0 /\ Goto(p, "clearScan")
  /\ UNCHANGED <<client, cache, cursor, length, writes, repeated>>

(* Mutant: an empty page ends the loop. *)
SizeScanStops(p) ==
  /\ pc[p] = "sizeScan"
  /\ \E keys \in Pages(p) :
       /\ Scan(p)
       /\ length' = [length EXCEPT ![p] = @ + Cardinality(keys)]
       /\ repeated' = [repeated EXCEPT ![p] = @ \/ keys # Fresh(p)]
       /\ \/ (NextCursor(p) = 0 \/ keys = {}) /\ Goto(p, "sized")
          \/ NextCursor(p) # 0 /\ keys # {} /\ UNCHANGED pc
  /\ UNCHANGED <<store, client, cache, page, writes, stayed, seen>>

(* length += len(keys), until the cursor is 0. *)
SizeScan(p) ==
  /\ pc[p] = "sizeScan"
  /\ \E keys \in Pages(p) :
       /\ Scan(p)
       /\ length' = [length EXCEPT ![p] = @ + Cardinality(keys)]
       /\ repeated' = [repeated EXCEPT ![p] = @ \/ keys # Fresh(p)]
       /\ \/ NextCursor(p) = 0 /\ Goto(p, "sized")
          \/ NextCursor(p) # 0 /\ UNCHANGED pc
  /\ UNCHANGED <<store, client, cache, page, writes, stayed, seen>>

(* The call is over: its locals are gone. *)
Over(p, s) ==
  /\ store' = s
  /\ stayed' = [StayedIn(s) EXCEPT ![p] = {}]
  /\ seen' = [SeenIn(s) EXCEPT ![p] = {}]
  /\ repeated' = [repeated EXCEPT ![p] = FALSE]
  /\ Goto(p, "idle")
  /\ cache' = [cache EXCEPT ![p] = NoCache]
  /\ cursor' = [cursor EXCEPT ![p] = 0]
  /\ page' = [page EXCEPT ![p] = {}]
  /\ length' = [length EXCEPT ![p] = 0]
  /\ UNCHANGED <<client, writes>>

Return(p) == pc[p] \in {"cleared", "sized"} /\ Over(p, store)

(* A command fails and the call returns the error: the client is closed,   *)
(* or the answer is lost, when the server may have executed the pipeline.  *)
WalkFails(p) ==
  /\ Walking(p)
  /\ \/ client[p] = "closed" /\ Over(p, store)
     \/ p \in Faulty /\ Over(p, store)
     \/ p \in Faulty /\ client[p] = "open" /\ pc[p] = "clearExec" /\ Over(p, store \ page[p])

-----------------------------------------------------------------------------
(* The redis entity, the server *)

(* Enity.Start puts the client into the rejson.Client the caches hold.     *)
Start(p) ==
  /\ pc[p] # "dead" /\ client[p] = "empty"
  /\ client' = [client EXCEPT ![p] = "open"]
  /\ UNCHANGED <<store, local, writes, history>>

(* Enity.shutdown closes it; the caches keep the closed one.               *)
Shutdown(p) ==
  /\ pc[p] # "dead" /\ client[p] = "open"
  /\ client' = [client EXCEPT ![p] = "closed"]
  /\ UNCHANGED <<store, local, writes, history>>

Expire(k) ==
  /\ k \in store
  /\ SetStore(store \ {k})
  /\ UNCHANGED <<client, local, writes, repeated>>

Walk(p) == ClearScan(p) \/ ClearExec(p) \/ SizeScan(p) \/ Return(p) \/ WalkFails(p)

Next ==
  \/ \E p \in Process :
       \/ Walk(p) \/ JSONCall(p) \/ JSONMethod(p) \/ CommandPanics(p) \/ Start(p) \/ Shutdown(p)
       \/ \E k \in Key : Set(p, k) \/ Delete(p, k)
       \/ \E c \in Cache : Clear(p, c) \/ Size(p, c)
  \/ \E k \in Key : Expire(k)

Spec == Init /\ [][Next]_vars

(* A goroutine inside Clear or Size runs on.                               *)
FairSpec == Spec /\ \A p \in Process : WF_vars(Walk(p))

-----------------------------------------------------------------------------
(* Properties *)

(* The types; a pipeline is never executed without a key to delete, which  *)
(* the server would refuse.                                                *)
TypeOK ==
  /\ store \subseteq Key
  /\ client \in [Process -> {"empty", "open", "closed"}]
  /\ pc \in [Process -> {"idle", "clearScan", "clearExec", "sizeScan", "cleared", "sized", "dead"}]
  /\ cache \in [Process -> Cache \cup {NoCache}]
  /\ cursor \in [Process -> 0..Buckets - 1]
  /\ page \in [Process -> SUBSET Key]
  /\ length \in [Process -> Nat]
  /\ writes \in 0..MaxWrites
  /\ stayed \in [Process -> SUBSET Key]
  /\ seen \in [Process -> SUBSET Key]
  /\ repeated \in [Process -> BOOLEAN]
  /\ \A p \in Process : pc[p] = "clearExec" => page[p] # {}

(* "Clear clear all items": no key of the cache outlives a Clear that      *)
(* returns nil; what is there afterwards was written while it ran.         *)
ClearRemovesAll == \A p \in Process : pc[p] = "cleared" => stayed[p] = {}

(* "Size return count of item in cache": at least the keys that were there *)
(* all the time and, unless the server repeated a key, at most those that  *)
(* were there at some time.                                                *)
SizeCounts ==
  \A p \in Process : pc[p] = "sized" =>
    /\ Cardinality(stayed[p]) <= length[p]
    /\ ~repeated[p] => length[p] <= Cardinality(seen[p])

(* A Clear gets done: it returns, or at least all keys it looks for are    *)
(* gone.  (When the last page of its walk is empty it goes on scanning.)   *)
ClearGetsDone ==
  \A p \in Process :
    pc[p] \in {"clearScan", "clearExec"} ~>
      \/ pc[p] \notin {"clearScan", "clearExec"}
      \/ store \cap Matches[cache[p]] = {}
=============================================================================
