-------------------------- MODULE RedisMutexProof --------------------------
(***************************************************************************)
(* Theorems about RedisMutex, for any set of instances and goroutines.     *)
(* Exclusion inside an instance rests on Mutex.mu alone.  Exclusion across *)
(* instances needs two hypotheses the code does not establish by itself:   *)
(* one goroutine per Mutex value, and a TTL that covers the use of the     *)
(* lock.                                                                   *)
(***************************************************************************)
EXTENDS RedisMutex, TLAPS

(* No two goroutines share a Mutex value. *)
OneGoroutineEach == \A t, u \in Thread : InstanceOf[t] = InstanceOf[u] => t = u

(* A goroutine inside Lock or between Lock and Unlock holds Mutex.mu. *)
HoldsMu ==
  \A t \in Thread : pc[t] \in Locking \cup InUse => mu[InstanceOf[t]] = t

(* The flag a retrying goroutine has raised is still up. *)
RetriesLocked ==
  \A t \in Thread : pc[t] \in {"retry", "check"} => locked[InstanceOf[t]]

(* The key belongs to the goroutine from the SETNX that succeeded to DEL. *)
OwnsKeyUntilDel ==
  \A t \in Thread :
    pc[t] \in InUse \cup {"unlock", "unlockGet", "unlockDel"} => key = InstanceOf[t]

SeparateInv == TypeOK /\ RetriesLocked /\ OwnsKeyUntilDel

USE DEF Goto, Locking, InUse, Unlocking, PC

-----------------------------------------------------------------------------
(* The fields always have their types. *)
THEOREM TypeCorrect == Spec => []TypeOK
<1>1. Init => TypeOK
  BY RedisMutexAssumption DEF Init, TypeOK
<1>2. TypeOK /\ [Next]_vars => TypeOK'
  <2> SUFFICES ASSUME TypeOK, [Next]_vars PROVE TypeOK'
    OBVIOUS
  <2> USE RedisMutexAssumption DEF TypeOK
  <2>1. ASSUME NEW t \in Thread, Lock(t) PROVE TypeOK'
    BY <2>1 DEF Lock
  <2>2. ASSUME NEW t \in Thread, Extend(t) PROVE TypeOK'
    BY <2>2 DEF Extend
  <2>3. ASSUME NEW t \in Thread, Step(t) PROVE TypeOK'
    <3>1. CASE FirstSetNX(t)
      <4>1. InstanceOf[t] \in Instance
        OBVIOUS
      <4>2. CASE key = NoInstance
        BY <3>1, <4>1, <4>2 DEF FirstSetNX
      <4>3. CASE key # NoInstance
        BY <3>1, <4>1, <4>3 DEF FirstSetNX
      <4>4. QED
        BY <4>2, <4>3
    <3>2. CASE RetrySetNX(t)
      BY <3>2 DEF RetrySetNX
    <3>3. CASE CheckLocked(t)
      BY <3>3 DEF CheckLocked
    <3>4. CASE ExtendGet(t) \/ ExtendExpire(t)
      BY <3>4 DEF ExtendGet, ExtendExpire
    <3>5. CASE LockFails(t) \/ ExtendFails(t) \/ UnlockFails(t)
      BY <3>5 DEF LockFails, ExtendFails, UnlockFails
    <3>6. CASE Unlock(t) \/ UnlockCheck(t) \/ UnlockGet(t)
      BY <3>6 DEF Unlock, UnlockCheck, UnlockGet
    <3>7. CASE UnlockDel(t) \/ UnlockClear(t)
      BY <3>7 DEF UnlockDel, UnlockClear
    <3>8. QED
      BY <2>3, <3>1, <3>2, <3>3, <3>4, <3>5, <3>6, <3>7 DEF Step
  <2>4. CASE Expire
    BY <2>4 DEF Expire
  <2>5. ASSUME NEW i \in Instance, Crash(i) PROVE TypeOK'
    BY <2>5 DEF Crash
  <2>6. CASE UNCHANGED vars
    BY <2>6 DEF vars
  <2>7. QED
    BY <2>1, <2>2, <2>3, <2>4, <2>5, <2>6 DEF Next
<1>3. QED
  BY <1>1, <1>2, PTL DEF Spec

(* Two goroutines of one instance are never both between Lock and Unlock,  *)
(* whatever Redis does: Mutex.mu is taken first and given back first.      *)
THEOREM LocalExclusionHolds == Spec => []LocalExclusion
<1>1. Init => HoldsMu
  BY DEF Init, HoldsMu
<1>2. TypeOK /\ HoldsMu /\ [Next]_vars => HoldsMu'
  <2> SUFFICES ASSUME TypeOK, HoldsMu, [Next]_vars PROVE HoldsMu'
    OBVIOUS
  <2> USE RedisMutexAssumption DEF TypeOK, HoldsMu
  <2>1. ASSUME NEW t \in Thread, Lock(t) PROVE HoldsMu'
    BY <2>1 DEF Lock
  <2>2. ASSUME NEW t \in Thread, Extend(t) PROVE HoldsMu'
    BY <2>2 DEF Extend
  <2>3. ASSUME NEW t \in Thread, Step(t) PROVE HoldsMu'
    <3>1. CASE FirstSetNX(t) \/ RetrySetNX(t)
      BY <3>1 DEF FirstSetNX, RetrySetNX
    <3>2. CASE CheckLocked(t)
      BY <3>2 DEF CheckLocked
    <3>3. CASE ExtendGet(t) \/ ExtendExpire(t)
      BY <3>3 DEF ExtendGet, ExtendExpire
    <3>4. CASE LockFails(t) \/ ExtendFails(t) \/ UnlockFails(t)
      BY <3>4 DEF LockFails, ExtendFails, UnlockFails
    <3>5. CASE Unlock(t)
      BY <3>5 DEF Unlock
    <3>6. CASE UnlockCheck(t) \/ UnlockGet(t)
      BY <3>6 DEF UnlockCheck, UnlockGet
    <3>7. CASE UnlockDel(t) \/ UnlockClear(t)
      BY <3>7 DEF UnlockDel, UnlockClear
    <3>8. QED
      BY <2>3, <3>1, <3>2, <3>3, <3>4, <3>5, <3>6, <3>7 DEF Step
  <2>4. CASE Expire
    BY <2>4 DEF Expire
  <2>5. ASSUME NEW i \in Instance, Crash(i) PROVE HoldsMu'
    BY <2>5 DEF Crash
  <2>6. CASE UNCHANGED vars
    BY <2>6 DEF vars
  <2>7. QED
    BY <2>1, <2>2, <2>3, <2>4, <2>5, <2>6 DEF Next
<1>3. HoldsMu => LocalExclusion
  BY DEF HoldsMu, LocalExclusion
<1>4. QED
  BY <1>1, <1>2, <1>3, TypeCorrect, PTL DEF Spec

-----------------------------------------------------------------------------
LEMMA SeparateInit == Init => SeparateInv
  BY RedisMutexAssumption DEF Init, SeparateInv, TypeOK, RetriesLocked, OwnsKeyUntilDel

LEMMA SeparateStep ==
  ASSUME OneGoroutineEach, TTLCoversUse, SeparateInv, TypeOK', [Next]_vars
  PROVE  SeparateInv'
<1> USE RedisMutexAssumption
    DEF OneGoroutineEach, SeparateInv, TypeOK, RetriesLocked, OwnsKeyUntilDel
<1>1. ASSUME NEW t \in Thread, Lock(t) PROVE SeparateInv'
  BY <1>1 DEF Lock
<1>2. ASSUME NEW t \in Thread, Extend(t) PROVE SeparateInv'
  BY <1>2 DEF Extend
<1>3. ASSUME NEW t \in Thread, Step(t) PROVE SeparateInv'
  <2>1. CASE FirstSetNX(t)
    BY <2>1 DEF FirstSetNX
  <2>2. CASE RetrySetNX(t)
    BY <2>2 DEF RetrySetNX
  <2>3. CASE CheckLocked(t)
    BY <2>3 DEF CheckLocked
  <2>4. CASE ExtendGet(t)
    BY <2>4 DEF ExtendGet
  <2>5. CASE ExtendExpire(t)
    BY <2>5 DEF ExtendExpire
  <2>6. CASE LockFails(t) \/ ExtendFails(t) \/ UnlockFails(t)
    BY <2>6 DEF LockFails, ExtendFails, UnlockFails
  <2>7. CASE Unlock(t)
    BY <2>7 DEF Unlock
  <2>8. CASE UnlockCheck(t)
    BY <2>8 DEF UnlockCheck
  <2>9. CASE UnlockGet(t)
    BY <2>9 DEF UnlockGet
  <2>10. CASE UnlockDel(t)
    BY <2>10 DEF UnlockDel
  <2>11. CASE UnlockClear(t)
    BY <2>11 DEF UnlockClear
  <2>12. QED
    BY <1>3, <2>1, <2>2, <2>3, <2>4, <2>5, <2>6, <2>7, <2>8, <2>9, <2>10, <2>11
       DEF Step
<1>4. CASE Expire
  <2>1. \A t \in Thread :
          pc[t] \in InUse \cup {"unlock", "unlockGet", "unlockDel"}
            => Uses(InstanceOf[t])
    BY DEF Uses
  <2>2. QED
    BY <1>4, <2>1 DEF Expire
<1>5. ASSUME NEW i \in Instance, Crash(i) PROVE SeparateInv'
  BY <1>5 DEF Crash
<1>6. CASE UNCHANGED vars
  BY <1>6 DEF vars
<1>7. QED
  BY <1>1, <1>2, <1>3, <1>4, <1>5, <1>6 DEF Next

(* With one goroutine per Mutex value and a TTL that covers the use of the *)
(* lock, at most one goroutine of all instances uses it: Lock returned     *)
(* only after its own SETNX, and nobody removes a foreign key.             *)
THEOREM MutualExclusionHolds ==
  ASSUME OneGoroutineEach, TTLCoversUse
  PROVE  Spec => []MutualExclusion
<1>1. TypeOK /\ [Next]_vars /\ TypeOK' /\ SeparateInv => SeparateInv'
  BY SeparateStep
<1>2. SeparateInv => MutualExclusion
  BY DEF SeparateInv, OwnsKeyUntilDel, MutualExclusion, OneGoroutineEach
<1>3. QED
  BY <1>1, <1>2, SeparateInit, TypeCorrect, PTL DEF Spec

(* Under the same hypotheses the key in Redis is that of whoever uses the  *)
(* lock.                                                                   *)
THEOREM UserOwnsKeyHolds ==
  ASSUME OneGoroutineEach, TTLCoversUse
  PROVE  Spec => []UserOwnsKey
<1>1. TypeOK /\ [Next]_vars /\ TypeOK' /\ SeparateInv => SeparateInv'
  BY SeparateStep
<1>2. SeparateInv => UserOwnsKey
  BY DEF SeparateInv, OwnsKeyUntilDel, UserOwnsKey
<1>3. QED
  BY <1>1, <1>2, SeparateInit, TypeCorrect, PTL DEF Spec

(* Under the same hypotheses the DEL of Unlock, a command of its own after *)
(* the GET, finds the key it was meant for.                                *)
THEOREM DeletesOnlyOwnKeyHolds ==
  ASSUME OneGoroutineEach, TTLCoversUse
  PROVE  Spec => DeletesOnlyOwnKey
<1>1. TypeOK /\ [Next]_vars /\ TypeOK' /\ SeparateInv => SeparateInv'
  BY SeparateStep
<1>2. SeparateInv =>
        [\A t \in Thread : UnlockDel(t) => key = InstanceOf[t]]_vars
  BY DEF SeparateInv, OwnsKeyUntilDel, UnlockDel
<1>3. QED
  BY <1>1, <1>2, SeparateInit, TypeCorrect, PTL DEF Spec, DeletesOnlyOwnKey

(* A key that exists is never overwritten: SETNX sets only a missing one.  *)
LEMMA KeyIsNotTakenOver ==
  ASSUME [Next]_vars, key \in Instance PROVE key' \in {key, NoInstance}
<1> USE RedisMutexAssumption
<1>1. ASSUME NEW t \in Thread, Lock(t) \/ Extend(t) PROVE key' = key
  BY <1>1 DEF Lock, Extend
<1>2. ASSUME NEW t \in Thread, Step(t) PROVE key' \in {key, NoInstance}
  BY <1>2 DEF Step, FirstSetNX, RetrySetNX, CheckLocked, LockFails, ExtendGet,
              ExtendExpire, ExtendFails, Unlock, UnlockCheck, UnlockGet, UnlockDel,
              UnlockClear, UnlockFails
<1>3. QED
  BY <1>1, <1>2 DEF Next, Expire, Crash, vars

(* Under the same hypotheses the mutex is the abstract lock: each step is  *)
(* an Acquire, a Release, or leaves the holder alone.                      *)
THEOREM ImplementsLockHolds ==
  ASSUME OneGoroutineEach, TTLCoversUse
  PROVE  Spec => ImplementsLock
<1>1. Init => Abstract!Init
  BY DEF Init, Abstract!Init, Holder
<1>2. MutualExclusion /\ MutualExclusion' /\ TypeOK /\ TypeOK' /\ SeparateInv /\ SeparateInv'
        /\ [Next]_vars => [Abstract!Next]_Holder
  <2> SUFFICES ASSUME MutualExclusion, MutualExclusion', TypeOK, TypeOK',
                      SeparateInv, SeparateInv', [Next]_vars
               PROVE  Abstract!Next \/ Holder' = Holder
    OBVIOUS
  <2> DEFINE Using == {t \in Thread : pc[t] \in InUse}
  <2>1. \A t \in Using : Using = {t} /\ Holder = t
    BY DEF MutualExclusion, Holder
  <2>2. Using = {} => Holder = NoThread
    BY DEF Holder
  <2>3. \A t \in Using' : Using' = {t} /\ Holder' = t
    BY DEF MutualExclusion, Holder
  <2>4. Using' = {} => Holder' = NoThread
    BY DEF Holder
  <2>5. ASSUME NEW t \in Using, NEW u \in Using', t # u PROVE FALSE
    <3>1. key = InstanceOf[t] /\ key' = InstanceOf[u]
      BY DEF SeparateInv, OwnsKeyUntilDel
    <3>2. key \in Instance /\ key' \in Instance
      BY <3>1, RedisMutexAssumption
    <3>3. key' = key
      BY <3>2, KeyIsNotTakenOver, RedisMutexAssumption
    <3>4. QED
      BY <2>5, <3>1, <3>3 DEF OneGoroutineEach
  <2>6. CASE Using = Using'
    BY <2>1, <2>2, <2>3, <2>4, <2>6
  <2>7. QED
    BY <2>1, <2>2, <2>3, <2>4, <2>5, <2>6 DEF Abstract!Next, Abstract!Acquire, Abstract!Release
<1>3. TypeOK /\ [Next]_vars /\ TypeOK' /\ SeparateInv => SeparateInv'
  BY SeparateStep
<1>4. QED
  BY <1>1, <1>2, <1>3, SeparateInit, TypeCorrect, MutualExclusionHolds, PTL
     DEF Spec, ImplementsLock, Abstract!Spec
=============================================================================
