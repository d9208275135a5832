--------------------------- MODULE RedisCacheProof ---------------------------
(***************************************************************************)
(* Theorems about RedisCache, for any number of processes, caches, keys    *)
(* and buckets and any page size.  The argument follows the walk: a key    *)
(* that stays in the server lies ahead of the cursor, or in the page that  *)
(* is about to be deleted, or has been counted.                            *)
(***************************************************************************)
EXTENDS RedisCache, FiniteSetTheorems, TLAPS

(* TypeOK, and the locals of a call that has not begun. *)
Types ==
  /\ TypeOK
  /\ \A p \in Process : pc[p] = "idle" => cursor[p] = 0 /\ length[p] = 0

(* The keys of a set in the buckets a walk has visited. *)
Upto(keys, c) == {k \in keys : BucketOf[k] <= c}

ClearInv(p) ==
  /\ pc[p] = "clearScan" => \A k \in stayed[p] : BucketOf[k] > cursor[p]
  /\ pc[p] = "clearExec" => \A k \in stayed[p] \ page[p] : cursor[p] # 0 /\ BucketOf[k] > cursor[p]
  /\ pc[p] = "cleared" => stayed[p] = {}

SizeInv(p) ==
  /\ pc[p] = "sizeScan" =>
       /\ Cardinality(Upto(stayed[p], cursor[p])) <= length[p]
       /\ ~repeated[p] => length[p] <= Cardinality(Upto(seen[p], cursor[p]))
  /\ pc[p] = "sized" =>
       /\ Cardinality(stayed[p]) <= length[p]
       /\ ~repeated[p] => length[p] <= Cardinality(seen[p])

HistoryInv(p) ==
  /\ Walking(p) => stayed[p] \subseteq store \cap Matches[cache[p]]
  /\ pc[p] = "sizeScan" => store \cap Matches[cache[p]] \subseteq seen[p]

WalkInv(p) == ClearInv(p) /\ SizeInv(p) /\ HistoryInv(p)

Inv == Types /\ \A p \in Process : WalkInv(p)

USE DEF Goto

-----------------------------------------------------------------------------
LEMMA Sizes ==
  ASSUME NEW A \in SUBSET Key, NEW B \in SUBSET A
  PROVE  Cardinality(A) \in Nat /\ Cardinality(B) \in Nat /\ Cardinality(B) <= Cardinality(A)
<1>1. IsFiniteSet(A) /\ IsFiniteSet(B)
  BY FS_Subset, RedisCacheAssumption
<1>2. QED
  BY <1>1, FS_Subset, FS_CardinalityType

LEMMA Sums ==
  ASSUME NEW A \in SUBSET Key, NEW B \in SUBSET Key
  PROVE  /\ Cardinality(A) \in Nat /\ Cardinality(B) \in Nat /\ Cardinality(A \cup B) \in Nat
         /\ Cardinality(A \cup B) <= Cardinality(A) + Cardinality(B)
         /\ A \cap B = {} => Cardinality(A \cup B) = Cardinality(A) + Cardinality(B)
<1>1. IsFiniteSet(A) /\ IsFiniteSet(B) /\ IsFiniteSet(A \cup B) /\ IsFiniteSet(A \cap B)
  BY FS_Subset, RedisCacheAssumption
<1>2. /\ Cardinality(A) \in Nat /\ Cardinality(B) \in Nat
      /\ Cardinality(A \cup B) \in Nat /\ Cardinality(A \cap B) \in Nat
  BY <1>1, FS_CardinalityType
<1>3. Cardinality(A \cup B) = Cardinality(A) + Cardinality(B) - Cardinality(A \cap B)
  BY <1>1, FS_Union
<1>4. A \cap B = {} => Cardinality(A \cap B) = 0
  BY FS_EmptySet
<1>5. QED
  BY <1>2, <1>3, <1>4

LEMMA Cursors ==
  ASSUME Types, NEW p \in Process
  PROVE  /\ NextCursor(p) \in 0..Buckets - 1
         /\ cursor[p] \in Nat /\ ScanSize \in Nat \ {0} /\ Buckets \in Nat
         /\ NextCursor(p) = 0 => cursor[p] + ScanSize >= Buckets
         /\ NextCursor(p) # 0 => NextCursor(p) = cursor[p] + ScanSize
  BY RedisCacheAssumption DEF Types, TypeOK, NextCursor

(* A process that does not move, while keys come and go.                   *)
Bystander(q) ==
  /\ pc'[q] = pc[q] /\ cache'[q] = cache[q] /\ cursor'[q] = cursor[q]
  /\ page'[q] = page[q] /\ length'[q] = length[q] /\ repeated'[q] = repeated[q]
  /\ stayed'[q] \subseteq stayed[q] /\ seen[q] \subseteq seen'[q] /\ seen'[q] \subseteq Key
  /\ Walking(q) => stayed'[q] \subseteq store'
  /\ pc[q] = "sizeScan" => store' \cap Matches[cache[q]] \subseteq seen'[q]

LEMMA BystanderInv ==
  ASSUME Inv, NEW q \in Process, Bystander(q)
  PROVE  WalkInv(q)'
<1>1. ClearInv(q)'
  BY DEF Inv, WalkInv, ClearInv, Bystander
<1>2. SizeInv(q)'
  <2>1. stayed[q] \subseteq Key /\ seen'[q] \subseteq Key /\ length[q] \in Nat
    BY DEF Inv, Types, TypeOK, Bystander
  <2>2. Upto(stayed'[q], cursor[q]) \subseteq Upto(stayed[q], cursor[q])
        /\ Upto(seen[q], cursor[q]) \subseteq Upto(seen'[q], cursor[q])
    BY DEF Bystander, Upto
  <2>3. Upto(stayed[q], cursor[q]) \subseteq Key /\ Upto(seen'[q], cursor[q]) \subseteq Key
    BY <2>1 DEF Upto
  <2>4. /\ Cardinality(Upto(stayed'[q], cursor[q])) <= Cardinality(Upto(stayed[q], cursor[q]))
        /\ Cardinality(Upto(seen[q], cursor[q])) <= Cardinality(Upto(seen'[q], cursor[q]))
        /\ Cardinality(stayed'[q]) <= Cardinality(stayed[q])
        /\ Cardinality(seen[q]) <= Cardinality(seen'[q])
        /\ Cardinality(Upto(stayed[q], cursor[q])) \in Nat /\ Cardinality(Upto(stayed'[q], cursor[q])) \in Nat
        /\ Cardinality(Upto(seen[q], cursor[q])) \in Nat /\ Cardinality(Upto(seen'[q], cursor[q])) \in Nat
        /\ Cardinality(stayed[q]) \in Nat /\ Cardinality(stayed'[q]) \in Nat
        /\ Cardinality(seen[q]) \in Nat /\ Cardinality(seen'[q]) \in Nat
    BY <2>1, <2>2, <2>3, Sizes DEF Bystander
  <2>5. /\ pc'[q] = pc[q] /\ cursor'[q] = cursor[q] /\ length'[q] = length[q] /\ repeated'[q] = repeated[q]
    BY DEF Bystander
  <2>6. SizeInv(q)
    BY DEF Inv, WalkInv
  <2>7. QED
    BY <2>1, <2>4, <2>5, <2>6 DEF SizeInv
<1>3. HistoryInv(q)'
  BY DEF Inv, WalkInv, HistoryInv, Bystander, Walking
<1>4. QED
  BY <1>1, <1>2, <1>3 DEF WalkInv

(* The server's keys become s; whoever keeps his locals is a bystander.    *)
LEMMA SetStoreFrame ==
  ASSUME Inv, NEW s \in SUBSET Key, NEW q \in Process, store' = s,
         stayed'[q] = StayedIn(s)[q], seen'[q] = SeenIn(s)[q],
         pc'[q] = pc[q], cache'[q] = cache[q], cursor'[q] = cursor[q],
         page'[q] = page[q], length'[q] = length[q], repeated'[q] = repeated[q]
  PROVE  Bystander(q)
  BY DEF Inv, Types, TypeOK, Bystander, StayedIn, SeenIn, Walking

LEMMA SameStoreFrame ==
  ASSUME Inv, NEW q \in Process, store' = store, stayed'[q] = stayed[q], seen'[q] = seen[q],
         pc'[q] = pc[q], cache'[q] = cache[q], cursor'[q] = cursor[q],
         page'[q] = page[q], length'[q] = length[q], repeated'[q] = repeated[q]
  PROVE  Bystander(q)
  BY DEF Inv, Types, TypeOK, WalkInv, HistoryInv, Bystander

-----------------------------------------------------------------------------
(* The calls that are one command, and what happens around the calls.      *)
LEMMA CommandSteps ==
  ASSUME Inv,
         \/ \E p \in Process : \E k \in Key : Set(p, k) \/ Delete(p, k)
         \/ \E k \in Key : Expire(k)
  PROVE  Inv'
<1>1. PICK s \in SUBSET Key : SetStore(s)
  BY DEF Set, Delete, Expire, Inv, Types, TypeOK
<1>2. UNCHANGED <<client, local, repeated>> /\ writes' \in 0..MaxWrites
  <2>1. UNCHANGED <<client, local, repeated>>
    BY DEF Set, Delete, Expire
  <2>2. \/ writes < MaxWrites /\ writes' = writes + 1
        \/ writes' = writes
    BY DEF Set, Delete, Expire, Write
  <2>3. writes \in 0..MaxWrites /\ MaxWrites \in Nat
    BY RedisCacheAssumption DEF Inv, Types, TypeOK
  <2>4. QED
    BY <2>1, <2>2, <2>3
<1>3. ASSUME NEW q \in Process PROVE Bystander(q)
  BY <1>1, <1>2, SetStoreFrame DEF SetStore, local
<1>4. stayed' \in [Process -> SUBSET Key] /\ seen' \in [Process -> SUBSET Key]
  BY <1>1 DEF SetStore, StayedIn, SeenIn, Inv, Types, TypeOK
<1>5. Types'
  BY <1>1, <1>2, <1>4 DEF SetStore, local, Inv, Types, TypeOK
<1>6. QED
  BY <1>3, <1>5, BystanderInv DEF Inv

LEMMA OtherSteps ==
  ASSUME Inv, NEW p \in Process,
         JSONCall(p) \/ JSONMethod(p) \/ CommandPanics(p) \/ Start(p) \/ Shutdown(p)
  PROVE  Inv'
<1>1. /\ UNCHANGED <<store, cache, cursor, page, length, writes, stayed, seen, repeated>>
      /\ \A q \in Process \ {p} : pc'[q] = pc[q]
      /\ pc'[p] = "dead" \/ pc'[p] = pc[p]
  BY DEF JSONCall, JSONMethod, ExecuteJSON, CommandPanics, Start, Shutdown, local, history, Inv, Types, TypeOK
<1>2. Types'
  <2>1. client' \in [Process -> {"empty", "open", "closed"}]
    BY DEF JSONCall, JSONMethod, ExecuteJSON, CommandPanics, Start, Shutdown, Inv, Types, TypeOK
  <2>2. pc' = pc \/ pc' = [pc EXCEPT ![p] = "dead"]
    BY DEF JSONCall, JSONMethod, ExecuteJSON, CommandPanics, Start, Shutdown, local
  <2>3. QED
    BY <1>1, <2>1, <2>2 DEF Inv, Types, TypeOK
<1>3. ASSUME NEW q \in Process, pc'[q] = pc[q] PROVE WalkInv(q)'
  BY <1>1, <1>3, SameStoreFrame, BystanderInv
<1>4. CASE pc'[p] = "dead"
  <2>1. WalkInv(p)'
    BY <1>4 DEF WalkInv, ClearInv, SizeInv, HistoryInv, Walking
  <2>2. QED
    BY <1>1, <1>2, <1>3, <2>1 DEF Inv
<1>5. QED
  BY <1>1, <1>2, <1>3, <1>4 DEF Inv

(* The beginning and the end of a Clear or a Size. *)
LEMMA BeginStep ==
  ASSUME Inv, NEW p \in Process, NEW c \in Cache, Clear(p, c) \/ Size(p, c)
  PROVE  Inv'
<1>1. PICK l \in {"clearScan", "sizeScan"} : Begin(p, c, l)
  BY DEF Clear, Size
<1>2. /\ pc'[p] = l /\ cache'[p] = c /\ cursor'[p] = 0 /\ length'[p] = 0 /\ store' = store
      /\ stayed'[p] = store \cap Matches[c]
      /\ l = "sizeScan" => seen'[p] = store \cap Matches[c]
  BY <1>1 DEF Begin, Inv, Types, TypeOK
<1>3. ASSUME NEW q \in Process \ {p} PROVE WalkInv(q)'
  <2>1. Bystander(q)
    BY <1>1, SameStoreFrame DEF Begin, Inv, Types, TypeOK
  <2>2. QED
    BY <2>1, BystanderInv
<1>4. Types'
  BY <1>1 DEF Begin, Inv, Types, TypeOK
<1>6. stayed'[p] \subseteq Key /\ (l = "sizeScan" => seen'[p] \subseteq Key)
  BY <1>2 DEF Inv, Types, TypeOK
<1>7. ClearInv(p)'
  BY <1>2, <1>6, RedisCacheAssumption DEF ClearInv
<1>8. SizeInv(p)'
  <2>1. \A keys \in SUBSET Key : Upto(keys, 0) = {}
    BY RedisCacheAssumption DEF Upto
  <2>2. /\ Cardinality(Upto(stayed'[p], cursor'[p])) = 0
        /\ l = "sizeScan" => Cardinality(Upto(seen'[p], cursor'[p])) = 0
    BY <1>2, <1>6, <2>1, FS_EmptySet
  <2>3. QED
    BY <1>2, <2>2 DEF SizeInv
<1>9. HistoryInv(p)'
  BY <1>2 DEF HistoryInv, Walking
<1>10. QED
  BY <1>3, <1>4, <1>7, <1>8, <1>9 DEF Inv, WalkInv

LEMMA EndStep ==
  ASSUME Inv, NEW p \in Process, Return(p) \/ WalkFails(p)
  PROVE  Inv'
<1>1. PICK s \in SUBSET Key : Over(p, s)
  BY DEF Return, WalkFails, Inv, Types, TypeOK
<1>2. pc'[p] = "idle" /\ cursor'[p] = 0 /\ length'[p] = 0
  BY <1>1 DEF Over, Inv, Types, TypeOK
<1>3. ASSUME NEW q \in Process \ {p} PROVE WalkInv(q)'
  <2>1. stayed'[q] = StayedIn(s)[q] /\ seen'[q] = SeenIn(s)[q]
    BY <1>1 DEF Over, StayedIn, SeenIn
  <2>2. Bystander(q)
    BY <1>1, <2>1, SetStoreFrame DEF Over, Inv, Types, TypeOK
  <2>3. QED
    BY <2>2, BystanderInv
<1>4. stayed' \in [Process -> SUBSET Key] /\ seen' \in [Process -> SUBSET Key]
  BY <1>1 DEF Over, StayedIn, SeenIn, Inv, Types, TypeOK
<1>5. Types'
  BY <1>1, <1>4, RedisCacheAssumption DEF Over, Inv, Types, TypeOK
<1>6. WalkInv(p)'
  BY <1>2 DEF WalkInv, ClearInv, SizeInv, HistoryInv, Walking
<1>7. QED
  BY <1>3, <1>5, <1>6 DEF Inv

-----------------------------------------------------------------------------
(* A SCAN returns every key of the next buckets that is there.             *)
LEMMA PageHas ==
  ASSUME Inv, NEW p \in Process, NEW keys \in Pages(p)
  PROVE  /\ Fresh(p) \subseteq keys /\ keys \subseteq Key /\ Fresh(p) \subseteq Key
         /\ keys \subseteq store \cap Matches[cache[p]]
  BY DEF Pages, Fresh, Present, Inv, Types, TypeOK

LEMMA ClearScanStep ==
  ASSUME Inv, NEW p \in Process, ClearScan(p)
  PROVE  Inv'
<1>1. PICK keys \in Pages(p) :
        /\ page' = [page EXCEPT ![p] = keys]
        /\ pc' = [pc EXCEPT ![p] = IF keys = {} THEN "clearScan" ELSE "clearExec"]
  BY DEF ClearScan
<1>2. /\ pc[p] = "clearScan" /\ cursor' = [cursor EXCEPT ![p] = NextCursor(p)]
      /\ UNCHANGED <<store, client, cache, length, writes, stayed, seen, repeated>>
  BY DEF ClearScan, Scan, history
<1>3. ASSUME NEW q \in Process \ {p} PROVE WalkInv(q)'
  <2>1. Bystander(q)
    BY <1>1, <1>2, SameStoreFrame DEF Inv, Types, TypeOK
  <2>2. QED
    BY <2>1, BystanderInv
<1>4. Types'
  BY <1>1, <1>2, PageHas, Cursors DEF Inv, Types, TypeOK
<1>5. /\ pc'[p] = IF keys = {} THEN "clearScan" ELSE "clearExec"
      /\ page'[p] = keys /\ cursor'[p] = NextCursor(p)
  BY <1>1, <1>2 DEF Inv, Types, TypeOK
<1>6. stayed[p] \subseteq store \cap Matches[cache[p]] /\ stayed[p] \subseteq Key
  BY <1>2 DEF Inv, WalkInv, HistoryInv, Walking, Types, TypeOK
<1>7. \A k \in stayed[p] \ keys : BucketOf[k] > cursor[p] + ScanSize
  <2> SUFFICES ASSUME NEW k \in stayed[p] \ keys PROVE BucketOf[k] > cursor[p] + ScanSize
    OBVIOUS
  <2>1. BucketOf[k] \in Nat /\ BucketOf[k] > cursor[p] /\ cursor[p] \in Nat /\ ScanSize \in Nat
    BY <1>2, <1>6, Cursors, RedisCacheAssumption DEF Inv, WalkInv, ClearInv
  <2>2. k \notin Fresh(p)
    BY PageHas
  <2>3. BucketOf[k] \notin cursor[p] + 1 .. cursor[p] + ScanSize
    BY <1>6, <2>2 DEF Fresh, Present
  <2>4. QED
    BY <2>1, <2>3
<1>8. \A k \in stayed[p] \ keys : NextCursor(p) # 0 /\ BucketOf[k] > NextCursor(p)
  <2> SUFFICES ASSUME NEW k \in stayed[p] \ keys PROVE NextCursor(p) # 0 /\ BucketOf[k] > NextCursor(p)
    OBVIOUS
  <2>1. BucketOf[k] \in Nat /\ BucketOf[k] <= Buckets
    BY <1>6, RedisCacheAssumption
  <2>2. Types
    BY DEF Inv
  <2>3. QED
    BY <1>7, <2>1, <2>2, Cursors
<1>9. WalkInv(p)'
  BY <1>2, <1>5, <1>6, <1>8 DEF WalkInv, ClearInv, SizeInv, HistoryInv, Walking
<1>10. QED
  BY <1>3, <1>4, <1>9 DEF Inv

LEMMA ClearExecStep ==
  ASSUME Inv, NEW p \in Process, ClearExec(p)
  PROVE  Inv'
<1> DEFINE s == store \ page[p]
<1>1. /\ SetStore(s) /\ s \in SUBSET Key /\ pc[p] = "clearExec"
      /\ page' = [page EXCEPT ![p] = {}]
      /\ pc' = [pc EXCEPT ![p] = IF cursor[p] = 0 THEN "cleared" ELSE "clearScan"]
      /\ UNCHANGED <<client, cache, cursor, length, writes, repeated>>
  BY DEF ClearExec, Inv, Types, TypeOK
<1>2. ASSUME NEW q \in Process \ {p} PROVE WalkInv(q)'
  <2>1. Bystander(q)
    BY <1>1, SetStoreFrame DEF SetStore, Inv, Types, TypeOK
  <2>2. QED
    BY <2>1, BystanderInv
<1>3. stayed' \in [Process -> SUBSET Key] /\ seen' \in [Process -> SUBSET Key]
  BY <1>1 DEF SetStore, StayedIn, SeenIn, Inv, Types, TypeOK
<1>4. Types'
  BY <1>1, <1>3 DEF SetStore, Inv, Types, TypeOK
<1>5. /\ stayed'[p] = stayed[p] \cap s /\ store' = s /\ cache'[p] = cache[p] /\ cursor'[p] = cursor[p]
      /\ pc'[p] = IF cursor[p] = 0 THEN "cleared" ELSE "clearScan"
  BY <1>1 DEF SetStore, StayedIn, Inv, Types, TypeOK
<1>6. WalkInv(p)'
  BY <1>1, <1>5 DEF Inv, WalkInv, ClearInv, SizeInv, HistoryInv, Walking
<1>7. QED
  BY <1>2, <1>4, <1>6 DEF Inv

(* The page adds the keys of the next buckets to the count. *)
LEMMA SizeScanStep ==
  ASSUME Inv, NEW p \in Process, SizeScan(p)
  PROVE  Inv'
<1> DEFINE next == cursor[p] + ScanSize
<1>1. PICK keys \in Pages(p) :
        /\ length' = [length EXCEPT ![p] = @ + Cardinality(keys)]
        /\ repeated' = [repeated EXCEPT ![p] = @ \/ keys # Fresh(p)]
        /\ pc' = [pc EXCEPT ![p] = IF NextCursor(p) = 0 THEN "sized" ELSE "sizeScan"]
  BY DEF SizeScan, Inv, Types, TypeOK
<1>2. /\ pc[p] = "sizeScan" /\ cursor' = [cursor EXCEPT ![p] = NextCursor(p)]
      /\ UNCHANGED <<store, client, cache, page, writes, stayed, seen>>
  BY DEF SizeScan, Scan
<1>3. keys \subseteq Key /\ Fresh(p) \subseteq keys /\ Cardinality(keys) \in Nat
  BY PageHas, Sizes
<1>4. ASSUME NEW q \in Process \ {p} PROVE WalkInv(q)'
  <2>1. Bystander(q)
    BY <1>1, <1>2, SameStoreFrame DEF Inv, Types, TypeOK
  <2>2. QED
    BY <2>1, BystanderInv
<1>5. Types'
  <2>1. length' \in [Process -> Nat] /\ repeated' \in [Process -> BOOLEAN]
    BY <1>1, <1>3 DEF Inv, Types, TypeOK
  <2>2. cursor' \in [Process -> 0..Buckets - 1]
    BY <1>2, Cursors DEF Inv, Types, TypeOK
  <2>3. QED
    BY <1>1, <1>2, <2>1, <2>2 DEF Inv, Types, TypeOK
<1>6. /\ length'[p] = length[p] + Cardinality(keys) /\ repeated'[p] = (repeated[p] \/ keys # Fresh(p))
      /\ pc'[p] = IF NextCursor(p) = 0 THEN "sized" ELSE "sizeScan"
      /\ cursor'[p] = NextCursor(p)
  BY <1>1, <1>2 DEF Inv, Types, TypeOK
<1>7. /\ cursor[p] \in Nat /\ ScanSize \in Nat \ {0} /\ Buckets \in Nat /\ length[p] \in Nat
      /\ NextCursor(p) = 0 => next >= Buckets
      /\ NextCursor(p) # 0 => NextCursor(p) = next
  BY Cursors DEF Inv, Types, TypeOK
<1>8. /\ stayed[p] \subseteq store \cap Matches[cache[p]] /\ stayed[p] \subseteq Key
      /\ store \cap Matches[cache[p]] \subseteq seen[p] /\ seen[p] \subseteq Key
  BY <1>2 DEF Inv, WalkInv, HistoryInv, Walking, Types, TypeOK
<1>9. /\ Cardinality(Upto(stayed[p], cursor[p])) <= length[p]
      /\ ~repeated[p] => length[p] <= Cardinality(Upto(seen[p], cursor[p]))
  BY <1>2 DEF Inv, WalkInv, SizeInv
<1>10. \A k \in Key : BucketOf[k] \in Nat /\ BucketOf[k] <= Buckets
  BY RedisCacheAssumption
<1>11. Cardinality(Upto(stayed[p], next)) <= length'[p]
  <2>1. Upto(stayed[p], next) \subseteq Upto(stayed[p], cursor[p]) \cup keys
    <3> SUFFICES ASSUME NEW k \in stayed[p], BucketOf[k] <= next, ~(BucketOf[k] <= cursor[p])
                 PROVE  k \in keys
      BY DEF Upto
    <3>1. BucketOf[k] \in cursor[p] + 1 .. next
      BY <1>7, <1>8, <1>10
    <3>2. QED
      BY <1>3, <1>8, <3>1 DEF Fresh, Present
  <2>2. Upto(stayed[p], cursor[p]) \in SUBSET Key /\ Upto(stayed[p], next) \in SUBSET Key
    BY <1>8 DEF Upto
  <2>3. /\ Cardinality(Upto(stayed[p], next)) <= Cardinality(Upto(stayed[p], cursor[p]) \cup keys)
        /\ Cardinality(Upto(stayed[p], next)) \in Nat
    BY <1>3, <2>1, <2>2, Sizes
  <2>4. /\ Cardinality(Upto(stayed[p], cursor[p]) \cup keys) <= Cardinality(Upto(stayed[p], cursor[p])) + Cardinality(keys)
        /\ Cardinality(Upto(stayed[p], cursor[p])) \in Nat
        /\ Cardinality(Upto(stayed[p], cursor[p]) \cup keys) \in Nat
    BY <1>3, <2>2, Sums
  <2>5. QED
    BY <1>3, <1>6, <1>7, <1>9, <2>3, <2>4
<1>12. ~repeated'[p] => length'[p] <= Cardinality(Upto(seen[p], next))
  <2> SUFFICES ASSUME ~repeated'[p] PROVE length'[p] <= Cardinality(Upto(seen[p], next))
    OBVIOUS
  <2>1. ~repeated[p] /\ keys = Fresh(p)
    BY <1>6
  <2>2. \A k \in keys : k \in seen[p] /\ BucketOf[k] > cursor[p] /\ BucketOf[k] <= next
    BY <1>7, <1>8, <1>10, <2>1 DEF Fresh, Present
  <2>3. Upto(seen[p], cursor[p]) \cap keys = {}
    BY <1>3, <1>7, <1>10, <2>2 DEF Upto
  <2>4. Upto(seen[p], cursor[p]) \cup keys \subseteq Upto(seen[p], next)
    BY <1>7, <1>8, <1>10, <2>2 DEF Upto
  <2>5. Upto(seen[p], cursor[p]) \in SUBSET Key /\ Upto(seen[p], next) \in SUBSET Key
    BY <1>8 DEF Upto
  <2>6. /\ Cardinality(Upto(seen[p], cursor[p]) \cup keys) = Cardinality(Upto(seen[p], cursor[p])) + Cardinality(keys)
        /\ Cardinality(Upto(seen[p], cursor[p])) \in Nat
    BY <1>3, <2>3, <2>5, Sums
  <2>7. Cardinality(Upto(seen[p], cursor[p]) \cup keys) <= Cardinality(Upto(seen[p], next))
        /\ Cardinality(Upto(seen[p], next)) \in Nat
    BY <2>4, <2>5, Sizes
  <2>8. QED
    BY <1>3, <1>6, <1>7, <1>9, <2>1, <2>6, <2>7
<1>13. NextCursor(p) = 0 => Upto(stayed[p], next) = stayed[p] /\ Upto(seen[p], next) = seen[p]
  BY <1>7, <1>8, <1>10 DEF Upto
<1>14. SizeInv(p)'
  <2>1. stayed' = stayed /\ seen' = seen
    BY <1>2
  <2>2. CASE NextCursor(p) = 0
    BY <1>6, <1>11, <1>12, <1>13, <2>1, <2>2 DEF SizeInv
  <2>3. CASE NextCursor(p) # 0
    <3>1. cursor'[p] = next /\ pc'[p] = "sizeScan"
      BY <1>6, <1>7, <2>3
    <3>2. QED
      BY <1>11, <1>12, <2>1, <3>1 DEF SizeInv
  <2>4. QED
    BY <2>2, <2>3
<1>15. ClearInv(p)' /\ HistoryInv(p)'
  BY <1>2, <1>6, <1>8 DEF ClearInv, HistoryInv, Walking
<1>16. QED
  BY <1>4, <1>5, <1>14, <1>15 DEF Inv, WalkInv

-----------------------------------------------------------------------------
LEMMA InvInit == Init => Inv
<1> SUFFICES ASSUME Init PROVE Inv
  OBVIOUS
<1>1. Types
  BY RedisCacheAssumption DEF Init, Types, TypeOK
<1>2. \A p \in Process : WalkInv(p)
  BY DEF Init, WalkInv, ClearInv, SizeInv, HistoryInv, Walking
<1>3. QED
  BY <1>1, <1>2 DEF Inv

LEMMA InvNext == Inv /\ [Next]_vars => Inv'
<1> SUFFICES ASSUME Inv, [Next]_vars PROVE Inv'
  OBVIOUS
<1>1. ASSUME NEW p \in Process, Walk(p) PROVE Inv'
  BY <1>1, ClearScanStep, ClearExecStep, SizeScanStep, EndStep DEF Walk
<1>2. ASSUME NEW p \in Process, JSONCall(p) \/ JSONMethod(p) \/ CommandPanics(p) \/ Start(p) \/ Shutdown(p) PROVE Inv'
  BY <1>2, OtherSteps
<1>3. ASSUME NEW p \in Process, NEW c \in Cache, Clear(p, c) \/ Size(p, c) PROVE Inv'
  BY <1>3, BeginStep
<1>4. CASE UNCHANGED vars
  <2>1. UNCHANGED <<store, client, pc, cache, cursor, page, length, writes, stayed, seen, repeated>>
    BY <1>4 DEF vars, local, history
  <2>2. \A q \in Process : WalkInv(q)'
    BY <2>1, SameStoreFrame, BystanderInv
  <2>3. Types'
    BY <2>1 DEF Inv, Types, TypeOK
  <2>4. QED
    BY <2>2, <2>3 DEF Inv
<1>5. QED
  BY <1>1, <1>2, <1>3, <1>4, CommandSteps DEF Next

LEMMA InvAlways == Spec => []Inv
  BY InvInit, InvNext, PTL DEF Spec

(* The fields keep their types, and a pipeline always has keys to delete.  *)
THEOREM TypeCorrect == Spec => []TypeOK
<1>1. Inv => TypeOK
  BY DEF Inv, Types
<1>2. QED
  BY <1>1, InvAlways, PTL

(* A Clear that returns nil has removed every key that was there when it   *)
(* began and was not written again, however the others write, keys expire  *)
(* and pages come, for every page size.                                    *)
THEOREM ClearRemovesAllHolds == Spec => []ClearRemovesAll
<1>1. Inv => ClearRemovesAll
  BY DEF Inv, WalkInv, ClearInv, ClearRemovesAll
<1>2. QED
  BY <1>1, InvAlways, PTL

(* What Size returns lies between the keys that stayed and the keys that   *)
(* were there at some time, unless the server repeated one.                *)
THEOREM SizeCountsHolds == Spec => []SizeCounts
<1>1. Inv => SizeCounts
  BY DEF Inv, WalkInv, SizeInv, SizeCounts
<1>2. QED
  BY <1>1, InvAlways, PTL
=============================================================================
