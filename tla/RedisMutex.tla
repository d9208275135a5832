----------------------------- MODULE RedisMutex -----------------------------
(***************************************************************************)
(* providers/redis/mutex.go: a mutex shared by several processes           *)
(* ("instances") through one Redis key.  Each instance holds one Mutex     *)
(* value: a Go mutex mu that serialises its goroutines, a lockValue (a     *)
(* uuid, here the instance itself) and the flag locked.  A thread is a     *)
(* goroutine that takes the lock, works, perhaps extends it, and releases  *)
(* it.  One action is one atomic step of the code: a Redis command, or an  *)
(* access to a field that another goroutine may change in between.         *)
(***************************************************************************)
EXTENDS Naturals, FiniteSets

CONSTANTS
  Instance,     \* processes, one Mutex value each
  Thread,       \* goroutines
  InstanceOf,   \* the instance a goroutine runs in
  NoInstance,   \* the Redis key does not exist
  NoThread,     \* the Go mutex is free
  TTLCoversUse, \* TRUE: a key never expires while its owner uses the lock
  RedisFails    \* TRUE: a Redis command may fail

ASSUME RedisMutexAssumption ==
  /\ InstanceOf \in [Thread -> Instance]
  /\ NoInstance \notin Instance
  /\ NoThread \notin Thread
  /\ TTLCoversUse \in BOOLEAN
  /\ RedisFails \in BOOLEAN

VARIABLES
  key,     \* value of the Redis key lockKey: the instance that set it
  mu,      \* mu[i]: the goroutine that holds Mutex.mu of instance i
  locked,  \* locked[i]: Mutex.locked of instance i
  pc       \* pc[t]: where goroutine t is

vars == <<key, mu, locked, pc>>

(* Lock returned nil and Unlock has not been called. *)
InUse == {"cs", "extendGet", "extendExpire"}
(* Inside commonUnlock, Mutex.mu already released. *)
Unlocking == {"unlock", "unlockGet", "unlockDel", "unlockClear"}
(* Inside commonLock, Mutex.mu held. *)
Locking == {"setNX", "retry", "check"}

PC == {"idle", "gaveUp", "dead"} \cup Locking \cup InUse \cup Unlocking

Init ==
  /\ key = NoInstance
  /\ mu = [i \in Instance |-> NoThread]
  /\ locked = [i \in Instance |-> FALSE]
  /\ pc = [t \in Thread |-> "idle"]

Goto(t, l) == pc' = [pc EXCEPT ![t] = l]

-----------------------------------------------------------------------------
(* Lock *)

(* m.mu.Lock() *)
Lock(t) ==
  LET i == InstanceOf[t] IN
  /\ pc[t] = "idle"
  /\ mu[i] = NoThread
  /\ mu' = [mu EXCEPT ![i] = t]
  /\ Goto(t, "setNX")
  /\ UNCHANGED <<key, locked>>

(* Mutant: the lock value is drawn per call, not per Mutex. *)
FirstSetNXOwnValue(t) ==
  /\ pc[t] = "setNX"
  /\ key = NoInstance
  /\ key' = t
  /\ Goto(t, "cs")
  /\ UNCHANGED <<mu, locked>>

(* Mutant: SET instead of SETNX. *)
FirstSet(t) ==
  /\ pc[t] = "setNX"
  /\ key' = InstanceOf[t]
  /\ Goto(t, "cs")
  /\ UNCHANGED <<mu, locked>>

(* The first SETNX: when it sets the key, Lock returns and the flag locked *)
(* keeps its value; otherwise locked is raised and the retry loop begins.  *)
FirstSetNX(t) ==
  LET i == InstanceOf[t] IN
  /\ pc[t] = "setNX"
  /\ \/ /\ key = NoInstance
        /\ key' = i
        /\ Goto(t, "cs")
        /\ UNCHANGED locked
     \/ /\ key # NoInstance
        /\ locked' = [locked EXCEPT ![i] = TRUE]
        /\ Goto(t, "retry")
        /\ UNCHANGED key
  /\ UNCHANGED mu

(* Mutant: the loop only looks at the key and never sets it. *)
RetryGet(t) ==
  /\ pc[t] = "retry"
  /\ Goto(t, "check")
  /\ UNCHANGED <<key, mu, locked>>

(* Mutant: SET instead of SETNX in the retry loop. *)
RetrySet(t) ==
  /\ pc[t] = "retry"
  /\ key' = InstanceOf[t]
  /\ Goto(t, "cs")
  /\ UNCHANGED <<mu, locked>>

(* The SETNX of the retry loop. *)
RetrySetNX(t) ==
  /\ pc[t] = "retry"
  /\ \/ key = NoInstance /\ key' = InstanceOf[t] /\ Goto(t, "cs")
     \/ key # NoInstance /\ Goto(t, "check") /\ UNCHANGED key
  /\ UNCHANGED <<mu, locked>>

(* Mutant: the test of the flag is inverted. *)
CheckLockedInverted(t) ==
  /\ pc[t] = "check"
  /\ Goto(t, IF locked[InstanceOf[t]] THEN "cs" ELSE "retry")
  /\ UNCHANGED <<key, mu, locked>>

(* result || !m.locked with result false: a lowered flag ends the loop. *)
CheckLocked(t) ==
  /\ pc[t] = "check"
  /\ Goto(t, IF locked[InstanceOf[t]] THEN "retry" ELSE "cs")
  /\ UNCHANGED <<key, mu, locked>>

(* A SETNX that fails: Lock returns the error and mu stays locked. *)
LockFails(t) ==
  /\ RedisFails
  /\ pc[t] \in {"setNX", "retry"}
  /\ Goto(t, "gaveUp")
  /\ UNCHANGED <<key, mu, locked>>

-----------------------------------------------------------------------------
(* Extend *)

Extend(t) ==
  /\ pc[t] = "cs"
  /\ locked[InstanceOf[t]]
  /\ Goto(t, "extendGet")
  /\ UNCHANGED <<key, mu, locked>>

(* GET: a missing key is an error, a foreign value ends Extend silently. *)
ExtendGet(t) ==
  /\ pc[t] = "extendGet"
  /\ Goto(t, IF key = InstanceOf[t] THEN "extendExpire" ELSE "cs")
  /\ UNCHANGED <<key, mu, locked>>

(* EXPIRE moves the deadline of whatever the key holds now, and the code   *)
(* then lowers locked.                                                     *)
ExtendExpire(t) ==
  /\ pc[t] = "extendExpire"
  /\ locked' = [locked EXCEPT ![InstanceOf[t]] = FALSE]
  /\ Goto(t, "cs")
  /\ UNCHANGED <<key, mu>>

ExtendFails(t) ==
  /\ RedisFails
  /\ pc[t] \in {"extendGet", "extendExpire"}
  /\ Goto(t, "cs")
  /\ UNCHANGED <<key, mu, locked>>

-----------------------------------------------------------------------------
(* Unlock *)

(* m.mu.Unlock() comes first. *)
Unlock(t) ==
  /\ pc[t] = "cs"
  /\ mu' = [mu EXCEPT ![InstanceOf[t]] = NoThread]
  /\ Goto(t, "unlock")
  /\ UNCHANGED <<key, locked>>

(* if m.locked *)
UnlockCheck(t) ==
  /\ pc[t] = "unlock"
  /\ Goto(t, IF locked[InstanceOf[t]] THEN "unlockGet" ELSE "idle")
  /\ UNCHANGED <<key, mu, locked>>

(* GET: missing key or foreign value: Unlock ends, locked stays raised. *)
UnlockGet(t) ==
  /\ pc[t] = "unlockGet"
  /\ Goto(t, IF key = InstanceOf[t] THEN "unlockDel" ELSE "idle")
  /\ UNCHANGED <<key, mu, locked>>

(* DEL removes the key whoever owns it by now. *)
UnlockDel(t) ==
  /\ pc[t] = "unlockDel"
  /\ key' = NoInstance
  /\ Goto(t, "unlockClear")
  /\ UNCHANGED <<mu, locked>>

UnlockClear(t) ==
  /\ pc[t] = "unlockClear"
  /\ locked' = [locked EXCEPT ![InstanceOf[t]] = FALSE]
  /\ Goto(t, "idle")
  /\ UNCHANGED <<key, mu>>

UnlockFails(t) ==
  /\ RedisFails
  /\ pc[t] \in {"unlockGet", "unlockDel"}
  /\ Goto(t, "idle")
  /\ UNCHANGED <<key, mu, locked>>

-----------------------------------------------------------------------------
(* Environment *)

Uses(i) == \E t \in Thread : InstanceOf[t] = i /\ pc[t] \in InUse \cup Unlocking

(* Redis drops the key when its time to live (WithExpire, 15 s) is over.   *)
(* The code never renews it by itself, so whether the lock outlives its    *)
(* use is the caller's business: TTLCoversUse.                             *)
Expire ==
  /\ key # NoInstance
  /\ TTLCoversUse => ~Uses(key)
  /\ key' = NoInstance
  /\ UNCHANGED <<mu, locked, pc>>

(* The process of instance i dies.  Its successor draws a new uuid, so it  *)
(* is another instance; the key stays behind.                              *)
Crash(i) ==
  /\ \E t \in Thread : InstanceOf[t] = i /\ pc[t] # "dead"
  /\ pc' = [t \in Thread |-> IF InstanceOf[t] = i THEN "dead" ELSE pc[t]]
  /\ UNCHANGED <<key, mu, locked>>

Step(t) ==
  \/ FirstSetNX(t) \/ RetrySetNX(t) \/ CheckLocked(t) \/ LockFails(t)
  \/ ExtendGet(t) \/ ExtendExpire(t) \/ ExtendFails(t)
  \/ Unlock(t) \/ UnlockCheck(t) \/ UnlockGet(t) \/ UnlockDel(t)
  \/ UnlockClear(t) \/ UnlockFails(t)

Next ==
  \/ \E t \in Thread : Lock(t) \/ Extend(t) \/ Step(t)
  \/ Expire
  \/ \E i \in Instance : Crash(i)

Spec == Init /\ [][Next]_vars

(* A goroutine inside the package keeps running, critical sections are     *)
(* finite, and Redis drops an expired key.                                 *)
Fairness == WF_vars(Expire) /\ \A t \in Thread : WF_vars(Step(t))

FairSpec == Spec /\ Fairness

-----------------------------------------------------------------------------
(* Properties *)

(* The types of the fields. *)
TypeOK ==
  /\ key \in Instance \cup {NoInstance}
  /\ mu \in [Instance -> Thread \cup {NoThread}]
  /\ locked \in [Instance -> BOOLEAN]
  /\ pc \in [Thread -> PC]

(* Mutex.mu, which Lock takes before anything else and Unlock drops first, *)
(* keeps two goroutines of one instance out of each other's way, whatever  *)
(* Redis does: expiry, errors and crashes included.                        *)
LocalExclusion ==
  \A t, u \in Thread :
    InstanceOf[t] = InstanceOf[u] /\ pc[t] \in InUse /\ pc[u] \in InUse => t = u

(* The promise of the package: between Lock and Unlock a goroutine is      *)
(* alone, in all instances.                                                *)
MutualExclusion ==
  \A t, u \in Thread : pc[t] \in InUse /\ pc[u] \in InUse => t = u

(* Why it holds: whoever uses the lock owns the Redis key. *)
UserOwnsKey == \A t \in Thread : pc[t] \in InUse => key = InstanceOf[t]

(* The GET and the DEL of Unlock are two commands; the DEL must still not  *)
(* hit a key that another instance has set in between.                     *)
DeletesOnlyOwnKey ==
  [][\A t \in Thread : UnlockDel(t) => key = InstanceOf[t]]_vars

(* A waiting goroutine is never left with nobody served: even when the     *)
(* holder died or left the key behind, its expiry lets someone in.         *)
LockIsServed ==
  (\E t \in Thread : pc[t] = "retry") ~>
    \/ \E t \in Thread : pc[t] \in InUse
    \/ \A t \in Thread : pc[t] \notin Locking

(* "Unlock deletes Redis-lock item" (mutex.go:89): when the Unlock of the  *)
(* goroutine that holds the lock has returned, the key no longer holds     *)
(* this instance's value.                                                  *)
UnlockDeletesItem ==
  [][\A t \in Thread :
       pc[t] \in Unlocking /\ pc'[t] = "idle" => key' # InstanceOf[t]]_vars

(* The goroutine that uses the lock, as the abstract lock sees it. *)
Holder ==
  IF \E t \in Thread : pc[t] \in InUse
    THEN CHOOSE t \in Thread : pc[t] \in InUse
    ELSE NoThread

Abstract == INSTANCE AbstractLock WITH holder <- Holder

(* The mutex of one goroutine per instance is the abstract lock: Lock      *)
(* acquires it, Unlock or the death of the holder releases it.             *)
ImplementsLock == Abstract!Spec
=============================================================================
