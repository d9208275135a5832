------------------------------ MODULE PgMutex ------------------------------
(***************************************************************************)
(* providers/pq/mutex.go: a mutex shared by several processes through an   *)
(* advisory lock of PostgreSQL.  Each process holds one Mutex value (one   *)
(* lockID for all) and a pool of database sessions.  An advisory lock      *)
(* belongs to the session that took it, whoever uses that session later,   *)
(* until the session unlocks it or ends; the same session may take it      *)
(* several times.  One action is one atomic step of the code: an operation *)
(* on the Go mutex mu, a statement, or an access to a field that another   *)
(* goroutine may change in between.                                        *)
(***************************************************************************)
EXTENDS Naturals

CONSTANTS
  Mutex,        \* Mutex values, one per process
  Thread,       \* goroutines
  MutexOf,      \* the Mutex value a goroutine uses
  Session,      \* database sessions the pools may open (SetMaxOpenConns)
  PoolOf,       \* the process whose pool a session belongs to
  Nil,          \* m.conn before the first Connx and after a failed one
  Closed,       \* m.conn after its Close
  NoThread,     \* nobody holds mu
  CallsOf,      \* the lock calls a goroutine makes
  SessionsLast, \* TRUE: no session ends while its process uses the lock
  Faulty,       \* processes that die, whose sessions end, whose statements fail
  MaxRLocks     \* bound: operations on mu.RLock a goroutine may leave behind

ASSUME PgMutexAssumption ==
  /\ MutexOf \in [Thread -> Mutex]
  /\ PoolOf \in [Session -> Mutex]
  /\ Nil \notin Session /\ Closed \notin Session /\ Nil # Closed
  /\ NoThread \notin Thread
  /\ CallsOf \in [Thread -> SUBSET {"Lock", "LockContext", "RWLock", "RWLockContext"}]
  /\ SessionsLast \in BOOLEAN
  /\ Faulty \subseteq Mutex
  /\ MaxRLocks \in Nat

VARIABLES
  writer,  \* writer[m]: the goroutine that holds, or waits in, mu.Lock
  readers, \* readers[m][t]: how often goroutine t holds mu.RLock
  conn,    \* conn[m]: Mutex.conn
  locked,  \* locked[m]: Mutex.locked
  failed,  \* failed[m]: a call has returned an error
  pool,    \* pool[s]: "idle", "used" (taken by Connx), or "bad" (used, and ended)
  grants,  \* grants[s][mode]: how often session s holds the advisory lock
  call,    \* call[t]: the operation goroutine t locks with, or "none"
  left,    \* left[t]: operations on mu that its call has still to do
  pc       \* pc[t]: where goroutine t is

muVars == <<writer, readers>>
dbVars == <<pool, grants>>
mutexVars == <<conn, locked, failed>>
vars == <<muVars, mutexVars, dbVars, call, left, pc>>

Modes == {"exclusive", "shared"}
Calls == {"Lock", "LockContext", "RWLock", "RWLockContext"}

Mode(t) == IF call[t] \in {"Lock", "LockContext"} THEN "exclusive" ELSE "shared"

(* Lock and RWLock lock mu and then call the variant that locks it again.  *)
MuOps(c) == IF c \in {"Lock", "RWLock"} THEN 2 ELSE 1

(* In commonLock: no result yet. *)
Locking == {"try", "granted", "refused", "retry", "check"}
(* The lock call returned nil and the unlock has not been called. *)
InUse == {"cs"}
(* In the unlock, until the statement that gives the lock back. *)
Unlocking == {"unMu", "unCheck", "unExec"}

PC == {"idle", "mu", "muWait", "connx", "unClose", "unClear", "dead"}
        \cup Locking \cup InUse \cup Unlocking

Init ==
  /\ writer = [m \in Mutex |-> NoThread]
  /\ readers = [m \in Mutex |-> [t \in Thread |-> 0]]
  /\ conn = [m \in Mutex |-> Nil]
  /\ locked = [m \in Mutex |-> FALSE]
  /\ failed = [m \in Mutex |-> FALSE]
  /\ pool = [s \in Session |-> "idle"]
  /\ grants = [s \in Session |-> [mode \in Modes |-> 0]]
  /\ call = [t \in Thread |-> "none"]
  /\ left = [t \in Thread |-> 0]
  /\ pc = [t \in Thread |-> "idle"]

Goto(t, l) == pc' = [pc EXCEPT ![t] = l]

(* The server ends session s and takes its locks back. *)
End(s) ==
  /\ pool' = [pool EXCEPT ![s] = "bad"]
  /\ grants' = [grants EXCEPT ![s] = [mode \in Modes |-> 0]]

(* The call of t is over. *)
Return(t) == Goto(t, "idle") /\ call' = [call EXCEPT ![t] = "none"]

(* It returns an error. *)
Fail(t) ==
  /\ failed' = [failed EXCEPT ![MutexOf[t]] = TRUE]
  /\ Return(t)

-----------------------------------------------------------------------------
(* Lock, LockContext, RWLock, RWLockContext *)

Call(t, c) ==
  /\ pc[t] = "idle" /\ c \in CallsOf[t]
  /\ readers[MutexOf[t]][t] <= MaxRLocks
  /\ call' = [call EXCEPT ![t] = c]
  /\ left' = [left EXCEPT ![t] = MuOps(c)]
  /\ Goto(t, "mu")
  /\ UNCHANGED <<muVars, mutexVars, dbVars>>

MuTaken(t) ==
  /\ left' = [left EXCEPT ![t] = @ - 1]
  /\ Goto(t, IF left[t] > 1 THEN "mu" ELSE "connx")

(* m.mu.Lock() shuts out new readers, then waits for the present ones. *)
MuLock(t) ==
  LET m == MutexOf[t] IN
  /\ Mode(t) = "exclusive"
  /\ \/ /\ pc[t] = "mu"
        /\ writer[m] = NoThread
        /\ writer' = [writer EXCEPT ![m] = t]
        /\ Goto(t, "muWait")
        /\ UNCHANGED left
     \/ /\ pc[t] = "muWait"
        /\ \A u \in Thread : readers[m][u] = 0
        /\ MuTaken(t)
        /\ UNCHANGED writer
  /\ UNCHANGED <<readers, mutexVars, dbVars, call>>

(* m.mu.RLock() *)
MuRLock(t) ==
  LET m == MutexOf[t] IN
  /\ Mode(t) = "shared"
  /\ pc[t] = "mu"
  /\ writer[m] = NoThread
  /\ readers' = [readers EXCEPT ![m][t] = @ + 1]
  /\ MuTaken(t)
  /\ UNCHANGED <<writer, mutexVars, dbVars, call>>

(* m.conn, err = m.db.Connx(ctx): takes a session of the pool, waiting for *)
(* one if all are taken, and overwrites the field.                         *)
Connx(t) ==
  LET m == MutexOf[t] IN
  /\ pc[t] = "connx"
  /\ \E s \in Session :
       /\ PoolOf[s] = m /\ pool[s] = "idle"
       /\ pool' = [pool EXCEPT ![s] = "used"]
       /\ conn' = [conn EXCEPT ![m] = s]
  /\ Goto(t, "try")
  /\ UNCHANGED <<muVars, locked, failed, grants, call, left>>

ConnxFails(t) ==
  /\ pc[t] = "connx"
  /\ MutexOf[t] \in Faulty
  /\ conn' = [conn EXCEPT ![MutexOf[t]] = Nil]
  /\ Fail(t)
  /\ UNCHANGED <<muVars, locked, dbVars, left>>

(* pg_try_advisory_lock(_shared): true when no other session is in the way. *)
CanGrant(s, mode) ==
  \A r \in Session \ {s} :
    /\ grants[r]["exclusive"] = 0
    /\ mode = "exclusive" => grants[r]["shared"] = 0

Grant(s, mode) == grants' = [grants EXCEPT ![s][mode] = @ + 1]

(* The statement reaches a session through m.conn. *)
Usable(m) == conn[m] \in Session /\ pool[conn[m]] = "used"

(* Mutant: a writer asks for the shared lock. *)
TryLockShared(t) ==
  LET s == conn[MutexOf[t]] IN
  /\ pc[t] = "try"
  /\ Usable(MutexOf[t])
  /\ \/ CanGrant(s, "shared") /\ Grant(s, "shared") /\ Goto(t, "granted")
     \/ ~CanGrant(s, "shared") /\ Goto(t, "refused") /\ UNCHANGED grants
  /\ UNCHANGED <<muVars, mutexVars, pool, call, left>>

(* The first request. *)
TryLock(t) ==
  LET s == conn[MutexOf[t]] IN
  /\ pc[t] = "try"
  /\ Usable(MutexOf[t])
  /\ \/ CanGrant(s, Mode(t)) /\ Grant(s, Mode(t)) /\ Goto(t, "granted")
     \/ ~CanGrant(s, Mode(t)) /\ Goto(t, "refused") /\ UNCHANGED grants
  /\ UNCHANGED <<muVars, mutexVars, pool, call, left>>

(* Mutant: the flag is raised only by a request that was granted. *)
RaiseIfGranted(t) ==
  LET m == MutexOf[t] IN
  /\ pc[t] \in {"granted", "refused"}
  /\ locked' = [locked EXCEPT ![m] = (pc[t] = "granted")]
  /\ Goto(t, IF pc[t] = "granted" THEN "cs" ELSE "retry")
  /\ UNCHANGED <<muVars, conn, failed, dbVars, call, left>>

(* m.locked = true, before the result is looked at. *)
Raise(t) ==
  LET m == MutexOf[t] IN
  /\ pc[t] \in {"granted", "refused"}
  /\ locked' = [locked EXCEPT ![m] = TRUE]
  /\ Goto(t, IF pc[t] = "granted" THEN "cs" ELSE "retry")
  /\ UNCHANGED <<muVars, conn, failed, dbVars, call, left>>

(* Mutant: the loop waits without asking again. *)
RetryWaits(t) ==
  /\ pc[t] = "retry"
  /\ Usable(MutexOf[t])
  /\ Goto(t, "check")
  /\ UNCHANGED <<muVars, mutexVars, dbVars, call, left>>

(* The request at each tick of the loop. *)
Retry(t) ==
  LET s == conn[MutexOf[t]] IN
  /\ pc[t] = "retry"
  /\ Usable(MutexOf[t])
  /\ \/ CanGrant(s, Mode(t)) /\ Grant(s, Mode(t)) /\ Goto(t, "cs")
     \/ ~CanGrant(s, Mode(t)) /\ Goto(t, "check") /\ UNCHANGED grants
  /\ UNCHANGED <<muVars, mutexVars, pool, call, left>>

(* result || !m.locked with result false. *)
Check(t) ==
  /\ pc[t] = "check"
  /\ Goto(t, IF locked[MutexOf[t]] THEN "retry" ELSE "cs")
  /\ UNCHANGED <<muVars, mutexVars, dbVars, call, left>>

(* A request that fails (also: the context is done) ends the call with mu  *)
(* still held and the session still in m.conn.  A statement whose context  *)
(* is done closes its session.                                             *)
LockFails(t) ==
  LET m == MutexOf[t] IN
  /\ pc[t] \in {"try", "retry"}
  /\ conn[m] # Nil
  /\ Usable(m) => m \in Faulty
  /\ Fail(t)
  /\ (Usable(m) /\ End(conn[m])) \/ UNCHANGED dbVars
  /\ UNCHANGED <<muVars, conn, locked, left>>

-----------------------------------------------------------------------------
(* Unlock, UnlockContext, RWUnlock, RWUnlockContext *)

(* The goroutine calls the unlock that belongs to its lock. *)
CallUnlock(t) ==
  /\ pc[t] = "cs"
  /\ left' = [left EXCEPT ![t] = MuOps(call[t])]
  /\ Goto(t, "unMu")
  /\ UNCHANGED <<muVars, mutexVars, dbVars, call>>

(* m.mu.Unlock(), m.mu.RUnlock(): before the database is asked. *)
MuUnlock(t) ==
  LET m == MutexOf[t] IN
  /\ pc[t] = "unMu"
  /\ IF Mode(t) = "exclusive"
       THEN writer' = [writer EXCEPT ![m] = NoThread] /\ UNCHANGED readers
       ELSE readers' = [readers EXCEPT ![m][t] = @ - 1] /\ UNCHANGED writer
  /\ left' = [left EXCEPT ![t] = @ - 1]
  /\ Goto(t, IF left[t] > 1 THEN "unMu" ELSE "unCheck")
  /\ UNCHANGED <<mutexVars, dbVars, call>>

(* Mutant: the session is closed without the statement. *)
UnlockCheckCloses(t) ==
  /\ pc[t] = "unCheck"
  /\ \/ locked[MutexOf[t]] /\ Goto(t, "unClose") /\ UNCHANGED call
     \/ ~locked[MutexOf[t]] /\ Return(t)
  /\ UNCHANGED <<muVars, mutexVars, dbVars, left>>

(* if m.locked *)
UnlockCheck(t) ==
  /\ pc[t] = "unCheck"
  /\ \/ locked[MutexOf[t]] /\ Goto(t, "unExec") /\ UNCHANGED call
     \/ ~locked[MutexOf[t]] /\ Return(t)
  /\ UNCHANGED <<muVars, mutexVars, dbVars, left>>

(* Mutant: every unlock sends the request of the exclusive lock. *)
UnlockExecExclusive(t) ==
  LET s == conn[MutexOf[t]] IN
  /\ pc[t] = "unExec"
  /\ Usable(MutexOf[t])
  /\ IF grants[s]["exclusive"] > 0
       THEN grants' = [grants EXCEPT ![s]["exclusive"] = @ - 1]
       ELSE UNCHANGED grants
  /\ Goto(t, "unClose")
  /\ UNCHANGED <<muVars, mutexVars, pool, call, left>>

(* pg_advisory_unlock(_shared) on m.conn; a session that does not hold the *)
(* lock only warns.                                                        *)
UnlockExec(t) ==
  LET s == conn[MutexOf[t]] IN
  /\ pc[t] = "unExec"
  /\ Usable(MutexOf[t])
  /\ IF grants[s][Mode(t)] > 0
       THEN grants' = [grants EXCEPT ![s][Mode(t)] = @ - 1]
       ELSE UNCHANGED grants
  /\ Goto(t, "unClose")
  /\ UNCHANGED <<muVars, mutexVars, pool, call, left>>

(* m.conn.Close() gives the session back to the pool as it is, or drops it *)
(* when it has ended.                                                      *)
UnlockClose(t) ==
  LET m == MutexOf[t] IN
  /\ pc[t] = "unClose"
  /\ conn[m] \in Session
  /\ pool' = [pool EXCEPT ![conn[m]] = "idle"]
  /\ conn' = [conn EXCEPT ![m] = Closed]
  /\ Goto(t, "unClear")
  /\ UNCHANGED <<muVars, locked, failed, grants, call, left>>

UnlockClear(t) ==
  /\ pc[t] = "unClear"
  /\ locked' = [locked EXCEPT ![MutexOf[t]] = FALSE]
  /\ Return(t)
  /\ UNCHANGED <<muVars, conn, failed, dbVars, left>>

(* A statement or a Close that fails: locked stays raised, and the session *)
(* stays in m.conn.                                                        *)
UnlockFails(t) ==
  LET m == MutexOf[t] IN
  /\ pc[t] = "unExec" \/ (pc[t] = "unClose" /\ conn[m] = Closed)
  /\ conn[m] # Nil
  /\ Usable(m) => m \in Faulty
  /\ Fail(t)
  /\ (Usable(m) /\ End(conn[m])) \/ UNCHANGED dbVars
  /\ UNCHANGED <<muVars, conn, locked, left>>

-----------------------------------------------------------------------------
(* Environment *)

Active(t) == pc[t] \in Locking \cup InUse \cup Unlocking

(* A session ends: the server restarts, the link breaks.  Its locks are    *)
(* gone; the pool replaces a session it has not handed out.                *)
SessionEnds(s) ==
  /\ pool[s] = "used" /\ PoolOf[s] \in Faulty
  /\ SessionsLast =>
       ~\E t \in Thread : MutexOf[t] = PoolOf[s] /\ pc[t] \in {"granted"} \cup InUse \cup Unlocking
  /\ End(s)
  /\ UNCHANGED <<muVars, mutexVars, call, left, pc>>

(* The process of m dies with its memory; the server ends its sessions. *)
Dies(m) ==
  LET Of(t) == MutexOf[t] = m IN
  /\ pc' = [t \in Thread |-> IF Of(t) THEN "dead" ELSE pc[t]]
  /\ call' = [t \in Thread |-> IF Of(t) THEN "none" ELSE call[t]]
  /\ left' = [t \in Thread |-> IF Of(t) THEN 0 ELSE left[t]]
  /\ writer' = [writer EXCEPT ![m] = NoThread]
  /\ readers' = [readers EXCEPT ![m] = [t \in Thread |-> 0]]
  /\ conn' = [conn EXCEPT ![m] = Nil]
  /\ locked' = [locked EXCEPT ![m] = FALSE]
  /\ failed' = [failed EXCEPT ![m] = FALSE]
  /\ pool' = [s \in Session |-> IF PoolOf[s] = m THEN "bad" ELSE pool[s]]
  /\ grants' = [s \in Session |-> IF PoolOf[s] = m THEN [mode \in Modes |-> 0] ELSE grants[s]]

(* The process of m dies by itself, or panics at a statement through a nil *)
(* m.conn, which only goroutines that share a Mutex value can meet.        *)
Crash(m) ==
  /\ \E t \in Thread :
       /\ MutexOf[t] = m /\ pc[t] # "dead"
       /\ m \in Faulty \/ (pc[t] \in {"try", "retry", "unExec", "unClose"} /\ conn[m] = Nil)
  /\ Dies(m)

Step(t) ==
  \/ MuLock(t) \/ MuRLock(t) \/ Connx(t) \/ ConnxFails(t) \/ TryLock(t) \/ Raise(t)
  \/ Retry(t) \/ Check(t) \/ LockFails(t)
  \/ CallUnlock(t) \/ MuUnlock(t) \/ UnlockCheck(t) \/ UnlockExec(t) \/ UnlockClose(t)
  \/ UnlockClear(t) \/ UnlockFails(t)

Next ==
  \/ \E t \in Thread : Step(t) \/ \E c \in Calls : Call(t, c)
  \/ \E s \in Session : SessionEnds(s)
  \/ \E m \in Mutex : Crash(m)

Spec == Init /\ [][Next]_vars

(* A goroutine inside the package runs on, and critical sections are finite. *)
FairSpec == Spec /\ \A t \in Thread : WF_vars(Step(t))

-----------------------------------------------------------------------------
(* Properties *)

(* The types of the fields. *)
TypeOK ==
  /\ writer \in [Mutex -> Thread \cup {NoThread}]
  /\ readers \in [Mutex -> [Thread -> Nat]]
  /\ conn \in [Mutex -> Session \cup {Nil, Closed}]
  /\ locked \in [Mutex -> BOOLEAN]
  /\ failed \in [Mutex -> BOOLEAN]
  /\ pool \in [Session -> {"idle", "used", "bad"}]
  /\ grants \in [Session -> [Modes -> Nat]]
  /\ call \in [Thread -> Calls \cup {"none"}]
  /\ left \in [Thread -> 0..2]
  /\ pc \in [Thread -> PC]

Writers == {t \in Thread : pc[t] \in InUse /\ Mode(t) = "exclusive"}
Readers == {t \in Thread : pc[t] \in InUse /\ Mode(t) = "shared"}

(* "Mutex provides a distributed mutex across multiple instances": between *)
(* LockContext and UnlockContext a goroutine is alone in all processes;    *)
(* only readers share the lock.                                            *)
Exclusion == \A t \in Writers : \A u \in Writers \cup Readers : t = u

(* Goroutines that share a Mutex value exclude each other through mu,      *)
(* whatever the database does, also after calls that failed: a writer is   *)
(* alone among them.                                                       *)
LocalExclusion ==
  \A t \in Writers : \A u \in Writers \cup Readers : MutexOf[t] = MutexOf[u] => t = u

(* Lock never gets to the database: it locks mu and then calls             *)
(* LockContext, which waits for mu for ever.                               *)
LockHangs == \A t \in Thread : call[t] = "Lock" => pc[t] \in {"mu", "muWait"}

(* "Unlock deletes lock item": when no goroutine of a process is between   *)
(* its lock and its unlock, none of its sessions holds the advisory lock,  *)
(* unless one of its calls has returned an error.                          *)
UnlockGivesBack ==
  \A s \in Session :
    /\ ~failed[PoolOf[s]]
    /\ \E mode \in Modes : grants[s][mode] > 0
    => \E t \in Thread : MutexOf[t] = PoolOf[s] /\ Active(t)

(* The pool never hands out a session that still holds the lock: its next  *)
(* user would be granted the lock at once, by the same server session.     *)
IdleSessionsAreFree ==
  \A s \in Session : pool[s] = "idle" => \A mode \in Modes : grants[s][mode] = 0

(* A session of a living process holds the lock with nobody to unlock it. *)
Orphaned ==
  \E s \in Session :
    /\ \E mode \in Modes : grants[s][mode] > 0
    /\ ~\E t \in Thread : conn[MutexOf[t]] = s /\ Active(t)

(* While goroutines wait in commonLock someone is served: the death of a   *)
(* holder frees the lock.  Exempt is a lock that a failed unlock has left  *)
(* in a session.                                                           *)
LockIsServed ==
  (\E t \in Thread : pc[t] \in {"retry", "check"}) ~>
    \/ \E t \in Thread : pc[t] \in InUse
    \/ \A t \in Thread : pc[t] \notin Locking
    \/ Orphaned

Abstract == INSTANCE AbstractRWLock WITH writers <- Writers, readers <- Readers

(* The mutex of one goroutine per process is the abstract lock. *)
ImplementsRWLock == Abstract!Spec
=============================================================================
