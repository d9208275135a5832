--------------------------- MODULE PgMutexProof ---------------------------
(***************************************************************************)
(* Theorems about PgMutex, for any number of processes, goroutines and     *)
(* sessions.  They need what the code does not establish by itself: one    *)
(* goroutine per Mutex value, since m.conn and m.locked are shared without *)
(* mu while an unlock runs, and sessions that last while they are used.    *)
(*                                                                         *)
(* The argument follows the session: from Connx to the unlock statement    *)
(* m.conn is a session of this process that nobody else can reach, and the *)
(* server keeps two sessions from holding conflicting locks.               *)
(***************************************************************************)
EXTENDS PgMutex, TLAPS

(* No two goroutines share a Mutex value. *)
OneGoroutineEach == \A t, u \in Thread : MutexOf[t] = MutexOf[u] => t = u

NoGrant == [mode \in Modes |-> 0]

(* The goroutine has been granted the lock and has not given it back. *)
Holding == {"granted", "cs", "unMu", "unCheck", "unExec"}
(* It has a session but not the lock. *)
Without == {"try", "refused", "retry", "check", "unClose"}

Conn(t) == conn[MutexOf[t]]

(* TypeOK in four parts. *)
ControlType ==
  /\ call \in [Thread -> Calls \cup {"none"}]
  /\ left \in [Thread -> 0..2]
  /\ pc \in [Thread -> PC]
MuType ==
  /\ writer \in [Mutex -> Thread \cup {NoThread}]
  /\ readers \in [Mutex -> [Thread -> Nat]]
FieldType ==
  /\ conn \in [Mutex -> Session \cup {Nil, Closed}]
  /\ locked \in [Mutex -> BOOLEAN]
  /\ failed \in [Mutex -> BOOLEAN]
DbType ==
  /\ pool \in [Session -> {"idle", "used", "bad"}]
  /\ grants \in [Session -> [Modes -> Nat]]

HasSession(t) == pc[t] \in Holding \cup Without =>
  /\ Conn(t) \in Session
  /\ PoolOf[Conn(t)] = MutexOf[t]
  /\ pool[Conn(t)] # "idle"

WithoutHoldsNothing(t) == pc[t] \in Without => grants[Conn(t)] = NoGrant

HoldingHoldsOne(t) == pc[t] \in Holding =>
  /\ pool[Conn(t)] = "used"
  /\ \A mode \in Modes : grants[Conn(t)][mode] = IF mode = Mode(t) THEN 1 ELSE 0

FlagIsUp(t) == pc[t] \in {"retry", "check"} \cup (Holding \ {"granted"}) => locked[MutexOf[t]]

ThreadInv(t) == HasSession(t) /\ WithoutHoldsNothing(t) /\ HoldingHoldsOne(t) /\ FlagIsUp(t)

(* Every lock in the database has a goroutine that will give it back. *)
Traced(s) == ~failed[PoolOf[s]] /\ grants[s] # NoGrant =>
  \E t \in Thread : pc[t] \in Holding /\ Conn(t) = s /\ MutexOf[t] = PoolOf[s]

IdleIsFree(s) == pool[s] = "idle" => grants[s] = NoGrant

SessionInv(s) == Traced(s) /\ IdleIsFree(s)

(* The server never lets two sessions hold conflicting locks. *)
Compatible ==
  \A s, r \in Session :
    s # r /\ grants[s]["exclusive"] > 0 =>
      grants[r]["exclusive"] = 0 /\ grants[r]["shared"] = 0

Inv ==
  /\ \A t \in Thread : ThreadInv(t)
  /\ \A s \in Session : SessionInv(s)
  /\ Compatible

(* mu.RUnlock never undoes more than the goroutine's own RLocks. *)
MuCountOf(t) ==
  LET held == readers[MutexOf[t]][t] IN
  /\ pc[t] \in {"mu", "muWait"} =>
       left[t] >= 1 /\ (Mode(t) = "shared" => held + left[t] >= MuOps(call[t]))
  /\ pc[t] \in {"connx"} \cup Locking \cup InUse =>
       (Mode(t) = "shared" => held >= MuOps(call[t]))
  /\ pc[t] = "unMu" =>
       left[t] >= 1 /\ (Mode(t) = "shared" => held >= left[t])

MuCount == \A t \in Thread : MuCountOf(t)

TypeInv == ControlType /\ MuType /\ FieldType /\ DbType /\ MuCount

USE DEF Goto, Locking, InUse, Unlocking, PC

-----------------------------------------------------------------------------
LEMMA Owners == MutexOf \in [Thread -> Mutex] /\ PoolOf \in [Session -> Mutex]
  BY PgMutexAssumption

LEMMA MuOpsPositive == \A c : MuOps(c) \in {1, 2}
  BY DEF MuOps

LEMMA ModeInModes == \A t \in Thread : Mode(t) \in Modes
  BY DEF Mode, Modes

(* A goroutine that does not move keeps its count. *)
LEMMA MuCountFrame ==
  ASSUME NEW u \in Thread, MuCountOf(u),
         pc'[u] = pc[u], left'[u] = left[u], call'[u] = call[u],
         readers'[MutexOf[u]][u] = readers[MutexOf[u]][u]
  PROVE  MuCountOf(u)'
  BY DEF MuCountOf, Mode

(* The tables of the server keep their types. *)
LEMMA EndType ==
  ASSUME DbType, NEW s \in Session, End(s)
  PROVE  DbType'
  BY DEF DbType, End

LEMMA GrantsSame ==
  ASSUME DbType, NEW s \in Session, NEW mode \in Modes
  PROVE  grants = [grants EXCEPT ![s][mode] = grants[s][mode]]
  BY DEF DbType

LEMMA TypeInvHolds == Spec => []TypeInv
<1>1. Init => TypeInv
  <2> SUFFICES ASSUME Init PROVE TypeInv
    OBVIOUS
  <2>1. ControlType /\ MuType
    BY DEF Init, ControlType, MuType
  <2>2. FieldType /\ DbType
    BY DEF Init, FieldType, DbType
  <2>3. MuCount
    BY DEF Init, MuCount, MuCountOf
  <2>4. QED
    BY <2>1, <2>2, <2>3 DEF TypeInv
<1>2. TypeInv /\ [Next]_vars => TypeInv'
  <2> SUFFICES ASSUME TypeInv, [Next]_vars PROVE TypeInv'
    OBVIOUS
  <2>0. MuCount /\ ControlType /\ MuType /\ FieldType /\ DbType
    BY DEF TypeInv
  <2>1. ASSUME NEW t \in Thread, NEW c \in Calls, Call(t, c) PROVE TypeInv'
    <3>1. UNCHANGED <<muVars, mutexVars, dbVars>>
      BY <2>1 DEF Call
    <3>2. MuType' /\ FieldType' /\ DbType'
      BY <2>0, <3>1 DEF MuType, FieldType, DbType, muVars, mutexVars, dbVars
    <3>3. MuOps(c) \in {1, 2}
      BY MuOpsPositive
    <3>4. ControlType'
      BY <2>0, <2>1, <3>3 DEF Call, ControlType
    <3>5. ASSUME NEW u \in Thread, u # t PROVE MuCountOf(u)'
      BY <2>0, <2>1, <3>1, <3>5, MuCountFrame DEF Call, ControlType, MuCount, muVars
    <3>6. readers[MutexOf[t]][t] \in Nat
      BY <2>0, Owners DEF MuType
    <3>7. pc'[t] = "mu" /\ left'[t] = MuOps(c) /\ call'[t] = c
      BY <2>0, <2>1 DEF Call, ControlType
    <3>8. MuCountOf(t)'
      BY <3>1, <3>3, <3>6, <3>7 DEF MuCountOf, muVars
    <3>9. QED
      BY <3>2, <3>4, <3>5, <3>8 DEF TypeInv, MuCount
  <2>2. ASSUME NEW t \in Thread, Step(t) PROVE TypeInv'
    <3>0. MutexOf[t] \in Mutex /\ Mode(t) \in Modes /\ MuCountOf(t) /\ readers[MutexOf[t]][t] \in Nat
      BY <2>0, Owners, ModeInModes DEF MuCount, MuType
    <3>1. CASE MuLock(t)
      <4>1. UNCHANGED <<readers, mutexVars, dbVars, call>>
        BY <3>1 DEF MuLock
      <4>2. FieldType' /\ DbType'
        BY <2>0, <4>1 DEF FieldType, DbType, mutexVars, dbVars
      <4>3. MuType'
        BY <2>0, <3>0, <3>1, <4>1 DEF MuLock, MuType
      <4>4. left[t] \in 1..2
        BY <2>0, <3>0, <3>1 DEF MuLock, MuCountOf, ControlType
      <4>5. ControlType'
        BY <2>0, <3>1, <4>1, <4>4 DEF MuLock, MuTaken, ControlType
      <4>6. ASSUME NEW u \in Thread, u # t PROVE MuCountOf(u)'
        BY <2>0, <3>1, <4>1, <4>6, MuCountFrame DEF MuLock, MuTaken, ControlType, MuCount
      <4>7. MuCountOf(t)'
        BY <2>0, <3>0, <3>1, <4>1, <4>4 DEF MuLock, MuTaken, ControlType, MuCountOf, Mode
      <4>8. QED
        BY <4>2, <4>3, <4>5, <4>6, <4>7 DEF TypeInv, MuCount
    <3>2. CASE MuRLock(t)
      <4>1. UNCHANGED <<writer, mutexVars, dbVars, call>>
        BY <3>2 DEF MuRLock
      <4>2. FieldType' /\ DbType'
        BY <2>0, <4>1 DEF FieldType, DbType, mutexVars, dbVars
      <4>3. readers' = [readers EXCEPT ![MutexOf[t]][t] = @ + 1]
        BY <3>2 DEF MuRLock
      <4>4. MuType'
        BY <2>0, <3>0, <4>1, <4>3 DEF MuType
      <4>5. left[t] \in 1..2
        BY <2>0, <3>0, <3>2 DEF MuRLock, MuCountOf, ControlType
      <4>6. ControlType'
        BY <2>0, <3>2, <4>1, <4>5 DEF MuRLock, MuTaken, ControlType
      <4>7. readers'[MutexOf[t]][t] = readers[MutexOf[t]][t] + 1
        BY <2>0, <3>0, <4>3 DEF MuType
      <4>8. ASSUME NEW u \in Thread, u # t PROVE MuCountOf(u)'
        <5>1. readers'[MutexOf[u]][u] = readers[MutexOf[u]][u]
          BY <2>0, <3>0, <4>3, <4>8, Owners DEF MuType
        <5>2. QED
          BY <2>0, <3>2, <4>1, <4>8, <5>1, MuCountFrame DEF MuRLock, MuTaken, ControlType, MuCount
      <4>9. MuCountOf(t)'
        BY <2>0, <3>0, <3>2, <4>1, <4>5, <4>7, MuOpsPositive DEF MuRLock, MuTaken, ControlType, MuCountOf, Mode
      <4>10. QED
        BY <4>2, <4>4, <4>6, <4>8, <4>9 DEF TypeInv, MuCount
    <3>3. CASE CallUnlock(t)
      <4>1. UNCHANGED <<muVars, mutexVars, dbVars, call>>
        BY <3>3 DEF CallUnlock
      <4>2. MuType' /\ FieldType' /\ DbType'
        BY <2>0, <4>1 DEF MuType, FieldType, DbType, muVars, mutexVars, dbVars
      <4>3. MuOps(call[t]) \in {1, 2}
        BY MuOpsPositive
      <4>4. ControlType'
        BY <2>0, <3>3, <4>1, <4>3 DEF CallUnlock, ControlType
      <4>5. ASSUME NEW u \in Thread, u # t PROVE MuCountOf(u)'
        BY <2>0, <3>3, <4>1, <4>5, MuCountFrame DEF CallUnlock, ControlType, MuCount, muVars
      <4>6. MuCountOf(t)'
        BY <2>0, <3>0, <3>3, <4>1, <4>3 DEF CallUnlock, ControlType, MuCountOf, Mode, muVars
      <4>7. QED
        BY <4>2, <4>4, <4>5, <4>6 DEF TypeInv, MuCount
    <3>4. CASE MuUnlock(t)
      <4>1. UNCHANGED <<mutexVars, dbVars, call>>
        BY <3>4 DEF MuUnlock
      <4>2. FieldType' /\ DbType'
        BY <2>0, <4>1 DEF FieldType, DbType, mutexVars, dbVars
      <4>3. left[t] \in 1..2
        BY <2>0, <3>0, <3>4 DEF MuUnlock, MuCountOf, ControlType
      <4>4. ControlType'
        BY <2>0, <3>4, <4>1, <4>3 DEF MuUnlock, ControlType
      <4>5. CASE Mode(t) = "exclusive"
        <5>1. readers' = readers /\ writer' = [writer EXCEPT ![MutexOf[t]] = NoThread]
          BY <3>4, <4>5 DEF MuUnlock
        <5>2. MuType'
          BY <2>0, <5>1 DEF MuType
        <5>3. ASSUME NEW u \in Thread, u # t PROVE MuCountOf(u)'
          BY <2>0, <3>4, <4>1, <5>1, <5>3, MuCountFrame DEF MuUnlock, ControlType, MuCount
        <5>4. MuCountOf(t)'
          BY <2>0, <3>0, <3>4, <4>1, <4>3, <4>5, <5>1 DEF MuUnlock, ControlType, MuCountOf, Mode
        <5>5. QED
          BY <4>2, <4>4, <5>2, <5>3, <5>4 DEF TypeInv, MuCount
      <4>6. CASE Mode(t) = "shared"
        <5>1. writer' = writer /\ readers' = [readers EXCEPT ![MutexOf[t]][t] = @ - 1]
          BY <3>4, <4>6 DEF MuUnlock
        <5>2. readers[MutexOf[t]][t] >= left[t]
          BY <3>0, <3>4, <4>6 DEF MuUnlock, MuCountOf
        <5>3. readers[MutexOf[t]][t] - 1 \in Nat
          BY <3>0, <4>3, <5>2
        <5>4. MuType'
          BY <2>0, <3>0, <5>1, <5>3 DEF MuType
        <5>5. ASSUME NEW u \in Thread, u # t PROVE MuCountOf(u)'
          <6>1. readers'[MutexOf[u]][u] = readers[MutexOf[u]][u]
            BY <2>0, <3>0, <5>1, <5>5, Owners DEF MuType
          <6>2. QED
            BY <2>0, <3>4, <4>1, <5>5, <6>1, MuCountFrame DEF MuUnlock, ControlType, MuCount
        <5>6. readers'[MutexOf[t]][t] = readers[MutexOf[t]][t] - 1
          BY <2>0, <3>0, <5>1 DEF MuType
        <5>7. MuCountOf(t)'
          BY <2>0, <3>0, <3>4, <4>1, <4>3, <5>2, <5>6 DEF MuUnlock, ControlType, MuCountOf, Mode
        <5>8. QED
          BY <4>2, <4>4, <5>4, <5>5, <5>7 DEF TypeInv, MuCount
      <4>7. QED
        BY <3>0, <4>5, <4>6 DEF Modes
    <3>5. CASE Connx(t) \/ ConnxFails(t) \/ Raise(t) \/ Check(t) \/ LockFails(t) \/ UnlockFails(t)
               \/ TryLock(t) \/ Retry(t) \/ UnlockCheck(t) \/ UnlockExec(t) \/ UnlockClose(t) \/ UnlockClear(t)
      <4> USE <3>5 DEF Connx, ConnxFails, Raise, Check, LockFails, UnlockFails, TryLock, Retry,
                UnlockCheck, UnlockExec, UnlockClose, UnlockClear, Fail, Return
      <4>1. UNCHANGED <<muVars, left>>
        OBVIOUS
      <4>2. MuType'
        BY <2>0, <4>1 DEF MuType, muVars
      <4>3. FieldType'
        BY <2>0, <3>0 DEF FieldType, mutexVars
      <4>4. DbType'
        <5>1. CASE TryLock(t) \/ Retry(t) \/ UnlockExec(t)
          <6>1. conn[MutexOf[t]] \in Session /\ pool' = pool
            BY <5>1 DEF Usable
          <6>2. grants[conn[MutexOf[t]]][Mode(t)] \in Nat
            BY <2>0, <3>0, <6>1 DEF DbType
          <6>3. \/ grants' = grants
                \/ grants' = [grants EXCEPT ![conn[MutexOf[t]]][Mode(t)] = @ + 1]
                \/ /\ grants[conn[MutexOf[t]]][Mode(t)] > 0
                   /\ grants' = [grants EXCEPT ![conn[MutexOf[t]]][Mode(t)] = @ - 1]
            BY <5>1 DEF Grant
          <6>4. \E n \in Nat : grants' = [grants EXCEPT ![conn[MutexOf[t]]][Mode(t)] = n]
            <7>1. CASE grants' = grants
              BY <2>0, <3>0, <6>1, <6>2, <7>1, GrantsSame
            <7>2. CASE grants' = [grants EXCEPT ![conn[MutexOf[t]]][Mode(t)] = @ + 1]
              <8>1. grants' = [grants EXCEPT ![conn[MutexOf[t]]][Mode(t)] = grants[conn[MutexOf[t]]][Mode(t)] + 1]
                BY <7>2
              <8>2. grants[conn[MutexOf[t]]][Mode(t)] + 1 \in Nat
                BY <6>2
              <8>3. QED
                BY <8>1, <8>2
            <7>3. CASE /\ grants[conn[MutexOf[t]]][Mode(t)] > 0
                       /\ grants' = [grants EXCEPT ![conn[MutexOf[t]]][Mode(t)] = @ - 1]
              <8>1. grants' = [grants EXCEPT ![conn[MutexOf[t]]][Mode(t)] = grants[conn[MutexOf[t]]][Mode(t)] - 1]
                BY <7>3
              <8>2. grants[conn[MutexOf[t]]][Mode(t)] - 1 \in Nat
                BY <6>2, <7>3
              <8>3. QED
                BY <8>1, <8>2
            <7>4. QED
              BY <6>3, <7>1, <7>2, <7>3
          <6>5. grants' \in [Session -> [Modes -> Nat]]
            BY <2>0, <3>0, <6>1, <6>4 DEF DbType
          <6>6. QED
            BY <2>0, <6>1, <6>5 DEF DbType
        <5>2. CASE LockFails(t) \/ UnlockFails(t)
          <6>1. CASE UNCHANGED dbVars
            BY <2>0, <6>1 DEF DbType, dbVars
          <6>2. CASE conn[MutexOf[t]] \in Session /\ End(conn[MutexOf[t]])
            BY <2>0, <6>2, EndType
          <6>3. QED
            BY <5>2, <6>1, <6>2 DEF Usable
        <5>3. CASE Connx(t) \/ ConnxFails(t) \/ Raise(t) \/ Check(t) \/ UnlockCheck(t) \/ UnlockClose(t) \/ UnlockClear(t)
          BY <2>0, <5>3 DEF DbType, dbVars
        <5>4. QED
          BY <5>1, <5>2, <5>3
      <4>5. ControlType'
        BY <2>0, <4>1 DEF ControlType
      <4>6. ASSUME NEW u \in Thread, u # t PROVE MuCountOf(u)'
        <5>1. pc'[u] = pc[u] /\ call'[u] = call[u]
          BY <2>0, <4>6 DEF ControlType
        <5>2. QED
          BY <2>0, <4>1, <5>1, MuCountFrame DEF MuCount, muVars
      <4>7. MuCountOf(t)'
        <5>1. \/ pc'[t] \in Locking \cup InUse /\ call' = call /\ pc[t] \in {"connx"} \cup Locking
              \/ pc'[t] \in {"idle", "unExec", "unClose", "unClear"}
          BY <2>0 DEF ControlType
        <5>2. QED
          BY <3>0, <4>1, <5>1 DEF MuCountOf, Mode, muVars
      <4>8. QED
        BY <4>2, <4>3, <4>4, <4>5, <4>6, <4>7 DEF TypeInv, MuCount
    <3>6. QED
      BY <2>2, <3>1, <3>2, <3>3, <3>4, <3>5 DEF Step
  <2>3. ASSUME NEW s \in Session, SessionEnds(s) PROVE TypeInv'
    <3>1. UNCHANGED <<muVars, mutexVars, call, left, pc>>
      BY <2>3 DEF SessionEnds
    <3>2. ControlType' /\ MuType' /\ FieldType'
      BY <2>0, <3>1 DEF ControlType, MuType, FieldType, muVars, mutexVars
    <3>3. DbType'
      BY <2>0, <2>3 DEF SessionEnds, End, DbType
    <3>4. MuCount'
      BY <2>0, <3>1, MuCountFrame DEF MuCount, muVars
    <3>5. QED
      BY <3>2, <3>3, <3>4 DEF TypeInv
  <2>4. ASSUME NEW m \in Mutex, Crash(m) PROVE TypeInv'
    <3> USE <2>4 DEF Crash, Dies
    <3>1. ControlType'
      BY <2>0 DEF ControlType
    <3>2. MuType' /\ FieldType'
      BY <2>0 DEF MuType, FieldType
    <3>3. DbType'
      BY <2>0 DEF DbType
    <3>4. ASSUME NEW u \in Thread PROVE MuCountOf(u)'
      <4>1. CASE MutexOf[u] = m
        BY <2>0, <4>1 DEF MuCountOf, ControlType
      <4>2. CASE MutexOf[u] # m
        <5>1. readers'[MutexOf[u]][u] = readers[MutexOf[u]][u]
          BY <2>0, <4>2, Owners DEF MuType
        <5>2. QED
          BY <2>0, <4>2, <5>1, MuCountFrame DEF MuCount, ControlType
      <4>3. QED
        BY <4>1, <4>2
    <3>5. QED
      BY <3>1, <3>2, <3>3, <3>4 DEF TypeInv, MuCount
  <2>5. CASE UNCHANGED vars
    <3> USE <2>5 DEF vars, muVars, mutexVars, dbVars
    <3>1. ControlType' /\ MuType' /\ FieldType' /\ DbType'
      BY <2>0 DEF ControlType, MuType, FieldType, DbType
    <3>2. MuCount'
      BY <2>0, MuCountFrame DEF MuCount
    <3>3. QED
      BY <3>1, <3>2 DEF TypeInv
  <2>6. QED
    BY <2>1, <2>2, <2>3, <2>4, <2>5 DEF Next
<1>3. QED
  BY <1>1, <1>2, PTL DEF Spec

(* The fields always have their types; in particular RWUnlock, which drops *)
(* mu as often as RWLock took it, never drops a lock it does not hold.     *)
THEOREM TypeCorrect == Spec => []TypeOK
<1>1. TypeInv => TypeOK
  BY DEF TypeInv, TypeOK, ControlType, MuType, FieldType, DbType
<1>2. QED
  BY <1>1, TypeInvHolds, PTL

-----------------------------------------------------------------------------
(* Mutual exclusion by mu, within one process and without hypotheses       *)

Region == {"connx", "unMu"} \cup Locking \cup InUse

(* From the end of mu.Lock to mu.Unlock a writer holds mu, and no reader   *)
(* does, nor one that failed.                                              *)
MuHeldBy(t) ==
  Mode(t) = "exclusive" /\ pc[t] \in Region =>
    /\ writer[MutexOf[t]] = t
    /\ \A u \in Thread : readers[MutexOf[t]][u] = 0
    /\ pc[t] = "unMu" => left[t] = 1

(* Before, it waits for the readers; a Lock on its second way also waits   *)
(* for itself.                                                             *)
MuAskedBy(t) ==
  Mode(t) = "exclusive" =>
    /\ pc[t] = "muWait" => writer[MutexOf[t]] = t /\ left[t] = MuOps(call[t])
    /\ pc[t] = "mu" => left[t] = MuOps(call[t]) \/ writer[MutexOf[t]] = t

LockWaits(t) == call[t] = "Lock" => pc[t] \in {"mu", "muWait"}

MuInvOf(t) == MuHeldBy(t) /\ MuAskedBy(t) /\ LockWaits(t)
MuInv == \A t \in Thread : MuInvOf(t)

(* A goroutine that does not move, while mu of its process stays.          *)
LEMMA MuInvFrame ==
  ASSUME NEW u \in Thread, MuInvOf(u),
         pc'[u] = pc[u], left'[u] = left[u], call'[u] = call[u],
         writer'[MutexOf[u]] = writer[MutexOf[u]],
         \A v \in Thread : readers'[MutexOf[u]][v] = readers[MutexOf[u]][v]
  PROVE  MuInvOf(u)'
  BY DEF MuInvOf, MuHeldBy, MuAskedBy, LockWaits, Mode, Region

LEMMA MuInvStep ==
  ASSUME TypeInv, MuInv, NEW t \in Thread, Step(t)
  PROVE  MuInv'
<1> DEFINE m == MutexOf[t]
<1> USE DEF TypeInv, ControlType, MuType
<1>1. m \in Mutex /\ MuCount /\ MuInvOf(t) /\ NoThread \notin Thread
  BY Owners, PgMutexAssumption DEF MuInv
<1>2. Mode(t) = "exclusive" => call[t] \in {"Lock", "LockContext"}
  BY DEF Mode
<1>3. MuOps("Lock") = 2 /\ MuOps("LockContext") = 1
  BY DEF MuOps
<1>4. ASSUME NEW u \in Thread, u # t, MutexOf[u] = m \/ MutexOf[u] # m,
             pc'[u] = pc[u], left'[u] = left[u], call'[u] = call[u],
             UNCHANGED muVars
      PROVE  MuInvOf(u)'
  BY <1>4, MuInvFrame DEF MuInv, muVars
<1>5. CASE MuLock(t)
  <2>1. Mode(t) = "exclusive" /\ UNCHANGED <<readers, call>>
    BY <1>5 DEF MuLock
  <2>2. /\ pc' = [pc EXCEPT ![t] = pc'[t]] /\ left' = [left EXCEPT ![t] = left'[t]]
    BY <1>5 DEF MuLock, MuTaken
  <2>3. CASE pc[t] = "mu"
    <3>1. writer[m] = NoThread /\ writer' = [writer EXCEPT ![m] = t] /\ pc'[t] = "muWait" /\ left' = left
      BY <1>5, <2>3 DEF MuLock
    <3>2. MuInvOf(t)'
      BY <1>1, <2>1, <2>3, <3>1 DEF MuInvOf, MuHeldBy, MuAskedBy, LockWaits, Mode, Region
    <3>3. ASSUME NEW u \in Thread, u # t PROVE MuInvOf(u)'
      <4>1. CASE MutexOf[u] # m
        BY <2>1, <2>2, <3>1, <3>3, <4>1, MuInvFrame, Owners DEF MuInv
      <4>2. CASE MutexOf[u] = m
        <5>1. writer[MutexOf[u]] # u /\ pc'[u] = pc[u] /\ left'[u] = left[u] /\ call'[u] = call[u]
          BY <1>1, <2>1, <2>2, <3>1, <3>3, <4>2
        <5>2. QED
          BY <5>1 DEF MuInv, MuInvOf, MuHeldBy, MuAskedBy, LockWaits, Mode, Region
      <4>3. QED
        BY <4>1, <4>2
    <3>4. QED
      BY <3>2, <3>3 DEF MuInv
  <2>4. CASE pc[t] = "muWait"
    <3>1. /\ \A u \in Thread : readers[m][u] = 0
          /\ pc'[t] = (IF left[t] > 1 THEN "mu" ELSE "connx") /\ writer' = writer
      BY <1>5, <2>4 DEF MuLock, MuTaken
    <3>2. writer[m] = t /\ (left[t] = MuOps(call[t]))
      BY <1>1, <2>1, <2>4 DEF MuInvOf, MuAskedBy
    <3>3. MuInvOf(t)'
      BY <1>1, <1>2, <1>3, <2>1, <2>4, <3>1, <3>2 DEF MuInvOf, MuHeldBy, MuAskedBy, LockWaits, Mode, Region
    <3>4. ASSUME NEW u \in Thread, u # t PROVE MuInvOf(u)'
      BY <2>1, <2>2, <3>1, <3>4, MuInvFrame DEF MuInv
    <3>5. QED
      BY <3>3, <3>4 DEF MuInv
  <2>5. QED
    BY <1>5, <2>3, <2>4 DEF MuLock
<1>6. CASE MuRLock(t)
  <2>1. /\ Mode(t) = "shared" /\ writer[m] = NoThread /\ UNCHANGED <<writer, call>>
        /\ readers' = [readers EXCEPT ![m][t] = @ + 1]
        /\ pc' = [pc EXCEPT ![t] = pc'[t]] /\ left' = [left EXCEPT ![t] = left'[t]]
        /\ pc'[t] \in {"mu", "connx"}
    BY <1>6 DEF MuRLock, MuTaken
  <2>2. MuInvOf(t)'
    BY <1>1, <2>1 DEF MuInvOf, MuHeldBy, MuAskedBy, LockWaits, Mode
  <2>3. ASSUME NEW u \in Thread, u # t PROVE MuInvOf(u)'
    <3>1. CASE MutexOf[u] # m
      BY <2>1, <2>3, <3>1, MuInvFrame, Owners DEF MuInv
    <3>2. CASE MutexOf[u] = m
      <4>1. writer[MutexOf[u]] # u /\ pc'[u] = pc[u] /\ left'[u] = left[u] /\ call'[u] = call[u]
        BY <1>1, <2>1, <2>3, <3>2
      <4>2. QED
        BY <2>1, <4>1 DEF MuInv, MuInvOf, MuHeldBy, MuAskedBy, LockWaits, Mode, Region
    <3>3. QED
      BY <3>1, <3>2
  <2>4. QED
    BY <2>2, <2>3 DEF MuInv
<1>7. CASE CallUnlock(t)
  <2>1. /\ pc[t] = "cs" /\ UNCHANGED <<muVars, call>>
        /\ pc' = [pc EXCEPT ![t] = "unMu"] /\ left' = [left EXCEPT ![t] = MuOps(call[t])]
    BY <1>7 DEF CallUnlock
  <2>2. call[t] # "Lock"
    BY <1>1, <2>1 DEF MuInvOf, LockWaits
  <2>3. MuInvOf(t)'
    BY <1>1, <1>2, <1>3, <2>1, <2>2 DEF MuInvOf, MuHeldBy, MuAskedBy, LockWaits, Mode, Region, muVars
  <2>4. QED
    BY <1>4, <2>1, <2>3 DEF MuInv
<1>8. CASE MuUnlock(t)
  <2>1. /\ pc[t] = "unMu" /\ call' = call
        /\ left' = [left EXCEPT ![t] = @ - 1]
        /\ pc' = [pc EXCEPT ![t] = IF left[t] > 1 THEN "unMu" ELSE "unCheck"]
    BY <1>8 DEF MuUnlock
  <2>2. CASE Mode(t) = "exclusive"
    <3>1. writer[m] = t /\ left[t] = 1 /\ readers' = readers
          /\ writer' = [writer EXCEPT ![m] = NoThread]
      BY <1>1, <1>8, <2>1, <2>2 DEF MuUnlock, MuInvOf, MuHeldBy, Region
    <3>2. MuInvOf(t)'
      BY <1>1, <2>1, <2>2, <3>1 DEF MuInvOf, MuHeldBy, MuAskedBy, LockWaits, Mode, Region
    <3>3. ASSUME NEW u \in Thread, u # t PROVE MuInvOf(u)'
      <4>1. CASE MutexOf[u] # m
        BY <2>1, <3>1, <3>3, <4>1, MuInvFrame, Owners DEF MuInv
      <4>2. CASE MutexOf[u] = m
        <5>1. writer[MutexOf[u]] # u /\ pc'[u] = pc[u] /\ left'[u] = left[u] /\ call'[u] = call[u]
          BY <1>1, <2>1, <3>1, <3>3, <4>2
        <5>2. QED
          BY <5>1 DEF MuInv, MuInvOf, MuHeldBy, MuAskedBy, LockWaits, Mode, Region
      <4>3. QED
        BY <4>1, <4>2
    <3>4. QED
      BY <3>2, <3>3 DEF MuInv
  <2>3. CASE Mode(t) # "exclusive"
    <3>1. writer' = writer /\ readers' = [readers EXCEPT ![m][t] = @ - 1]
      BY <1>8, <2>3 DEF MuUnlock
    <3>2. readers[m][t] > 0
      <4>1. Mode(t) = "shared"
        BY <2>3 DEF Mode
      <4>2. left[t] \in Nat /\ left[t] >= 1 /\ readers[m][t] >= left[t] /\ readers[m][t] \in Nat
        BY <1>1, <2>1, <4>1 DEF MuCount, MuCountOf
      <4>3. QED
        BY <4>2
    <3>3. MuInvOf(t)'
      BY <1>1, <2>1, <2>3 DEF MuInvOf, MuHeldBy, MuAskedBy, LockWaits, Mode
    <3>4. ASSUME NEW u \in Thread, u # t PROVE MuInvOf(u)'
      <4>1. CASE MutexOf[u] # m
        BY <2>1, <3>1, <3>4, <4>1, MuInvFrame, Owners DEF MuInv
      <4>2. CASE MutexOf[u] = m
        <5>1. pc'[u] = pc[u] /\ left'[u] = left[u] /\ call'[u] = call[u]
          BY <2>1, <3>4
        <5>2. ~(Mode(u) = "exclusive" /\ pc[u] \in Region)
          BY <3>2, <4>2 DEF MuInv, MuInvOf, MuHeldBy
        <5>3. QED
          BY <3>1, <5>1, <5>2 DEF MuInv, MuInvOf, MuHeldBy, MuAskedBy, LockWaits, Mode, Region
      <4>3. QED
        BY <4>1, <4>2
    <3>5. QED
      BY <3>3, <3>4 DEF MuInv
  <2>4. QED
    BY <2>2, <2>3
<1>9. CASE Connx(t) \/ ConnxFails(t) \/ Raise(t) \/ Check(t) \/ LockFails(t) \/ UnlockFails(t)
           \/ TryLock(t) \/ Retry(t) \/ UnlockCheck(t) \/ UnlockExec(t) \/ UnlockClose(t) \/ UnlockClear(t)
  <2> USE <1>9 DEF Connx, ConnxFails, Raise, Check, LockFails, UnlockFails, TryLock, Retry,
            UnlockCheck, UnlockExec, UnlockClose, UnlockClear, Fail, Return
  <2>1. UNCHANGED <<muVars, left>>
    OBVIOUS
  <2>2. /\ \A u \in Thread : u # t => pc'[u] = pc[u] /\ call'[u] = call[u]
        /\ \/ pc[t] \in {"connx"} \cup Locking /\ pc'[t] \in Locking \cup InUse /\ call'[t] = call[t]
           \/ pc'[t] = "idle" /\ call'[t] = "none"
           \/ pc[t] \in {"unCheck", "unExec", "unClose"} /\ call'[t] = call[t]
              /\ pc'[t] \in {"unExec", "unClose", "unClear"}
    OBVIOUS
  <2>3. MuInvOf(t)'
    BY <1>1, <2>1, <2>2 DEF MuInvOf, MuHeldBy, MuAskedBy, LockWaits, Mode, Region, muVars
  <2>4. QED
    BY <1>4, <2>1, <2>2, <2>3 DEF MuInv
<1>10. QED
  BY <1>5, <1>6, <1>7, <1>8, <1>9 DEF Step

LEMMA MuInvHolds == Spec => [](TypeInv /\ MuInv)
<1>1. Init => MuInv
  BY DEF Init, MuInv, MuInvOf, MuHeldBy, MuAskedBy, LockWaits, Region
<1>2. TypeInv /\ MuInv /\ [Next]_vars => MuInv'
  <2> SUFFICES ASSUME TypeInv, MuInv, [Next]_vars PROVE MuInv'
    OBVIOUS
  <2> USE DEF TypeInv, ControlType, MuType
  <2>1. ASSUME NEW t \in Thread, NEW c \in Calls, Call(t, c) PROVE MuInv'
    <3>1. /\ UNCHANGED muVars /\ pc' = [pc EXCEPT ![t] = "mu"]
          /\ call' = [call EXCEPT ![t] = c] /\ left' = [left EXCEPT ![t] = MuOps(c)]
      BY <2>1 DEF Call
    <3>2. MuInvOf(t)'
      BY <3>1 DEF MuInvOf, MuHeldBy, MuAskedBy, LockWaits, Mode, Region
    <3>3. ASSUME NEW u \in Thread, u # t PROVE MuInvOf(u)'
      BY <3>1, <3>3, MuInvFrame DEF MuInv, muVars
    <3>4. QED
      BY <3>2, <3>3 DEF MuInv
  <2>2. ASSUME NEW m \in Mutex, Crash(m) PROVE MuInv'
    <3>1. ASSUME NEW u \in Thread PROVE MuInvOf(u)'
      <4>1. CASE MutexOf[u] = m
        BY <2>2, <4>1 DEF Crash, Dies, MuInvOf, MuHeldBy, MuAskedBy, LockWaits, Region
      <4>2. CASE MutexOf[u] # m
        <5>1. /\ pc'[u] = pc[u] /\ left'[u] = left[u] /\ call'[u] = call[u]
              /\ writer'[MutexOf[u]] = writer[MutexOf[u]]
              /\ readers'[MutexOf[u]] = readers[MutexOf[u]]
          BY <2>2, <4>2, Owners DEF Crash, Dies
        <5>2. QED
          BY <5>1, MuInvFrame DEF MuInv
      <4>3. QED
        BY <4>1, <4>2
    <3>2. QED
      BY <3>1 DEF MuInv
  <2>3. ASSUME UNCHANGED <<muVars, call, left, pc>> PROVE MuInv'
    BY <2>3, MuInvFrame DEF MuInv, muVars
  <2>4. QED
    BY <2>1, <2>2, <2>3, MuInvStep DEF Next, SessionEnds, vars
<1>3. QED
  BY <1>1, <1>2, TypeInvHolds, PTL DEF Spec

(* mu: goroutines of one process exclude each other, with any number of    *)
(* them on a Mutex value, whatever fails.                                  *)
THEOREM LocalExclusionHolds == Spec => []LocalExclusion
<1>1. TypeInv /\ MuInv => LocalExclusion
  <2> SUFFICES ASSUME TypeInv, MuInv, NEW t \in Writers, NEW u \in Writers \cup Readers,
                      MutexOf[t] = MutexOf[u], t # u
               PROVE  FALSE
    BY DEF LocalExclusion
  <2>1. /\ t \in Thread /\ u \in Thread
        /\ writer[MutexOf[t]] = t /\ readers[MutexOf[t]][u] = 0
        /\ pc[u] = "cs"
    BY DEF Writers, Readers, MuInv, MuInvOf, MuHeldBy, Region
  <2>2. CASE u \in Writers
    BY <2>1, <2>2 DEF Writers, MuInv, MuInvOf, MuHeldBy, Region
  <2>3. CASE u \in Readers
    <3>1. readers[MutexOf[u]][u] >= MuOps(call[u])
      BY <2>1, <2>3 DEF Readers, TypeInv, MuCount, MuCountOf
    <3>2. QED
      BY <2>1, <3>1, MuOpsPositive
  <2>4. QED
    BY <2>2, <2>3
<1>2. QED
  BY <1>1, MuInvHolds, PTL

(* Mutex.Lock: it locks mu twice, and never gets to its first statement.   *)
THEOREM LockHangsAlways == Spec => []LockHangs
<1>1. MuInv => LockHangs
  BY DEF MuInv, MuInvOf, LockWaits, LockHangs
<1>2. QED
  BY <1>1, MuInvHolds, PTL

-----------------------------------------------------------------------------
(* A step in the process of m leaves the other processes alone. *)
Local(m) ==
  /\ \A n \in Mutex \ {m} : conn'[n] = conn[n] /\ locked'[n] = locked[n] /\ failed'[n] = failed[n]
  /\ \A s \in Session : PoolOf[s] # m => pool'[s] = pool[s] /\ grants'[s] = grants[s]
  /\ \A u \in Thread : MutexOf[u] # m => pc'[u] = pc[u] /\ call'[u] = call[u]

LEMMA ThreadFrame ==
  ASSUME NEW m \in Mutex, Local(m), NEW u \in Thread, MutexOf[u] # m, ThreadInv(u)
  PROVE  ThreadInv(u)'
<1>1. MutexOf[u] \in Mutex
  BY Owners
<1>2. /\ Conn(u)' = Conn(u) /\ pc'[u] = pc[u] /\ Mode(u)' = Mode(u)
      /\ locked'[MutexOf[u]] = locked[MutexOf[u]]
  BY <1>1 DEF Local, Conn, Mode
<1>3. pc[u] \in Holding \cup Without =>
        pool'[Conn(u)] = pool[Conn(u)] /\ grants'[Conn(u)] = grants[Conn(u)]
  BY DEF Local, ThreadInv, HasSession
<1>4. QED
  BY <1>2, <1>3 DEF ThreadInv, HasSession, WithoutHoldsNothing, HoldingHoldsOne, FlagIsUp

LEMMA SessionFrame ==
  ASSUME NEW m \in Mutex, Local(m), NEW s \in Session, PoolOf[s] # m, SessionInv(s)
  PROVE  SessionInv(s)'
<1>1. PoolOf[s] \in Mutex /\ NoGrant' = NoGrant
  BY Owners DEF NoGrant
<1>2. pool'[s] = pool[s] /\ grants'[s] = grants[s] /\ failed'[PoolOf[s]] = failed[PoolOf[s]]
  BY <1>1 DEF Local
<1>3. \A u \in Thread : MutexOf[u] = PoolOf[s] => pc'[u] = pc[u] /\ Conn(u)' = Conn(u)
  BY <1>1 DEF Local, Conn
<1>4. QED
  BY <1>1, <1>2, <1>3 DEF SessionInv, Traced, IdleIsFree

(* With one goroutine in its process, a session holds a lock for that      *)
(* goroutine or for nobody.                                                *)
LEMMA NotHoldingHoldsNothing ==
  ASSUME Inv, OneGoroutineEach, NEW t \in Thread, ~failed[MutexOf[t]],
         NEW s \in Session, PoolOf[s] = MutexOf[t], pc[t] \notin Holding \/ Conn(t) # s
  PROVE  grants[s] = NoGrant
  BY DEF Inv, SessionInv, Traced, OneGoroutineEach

(* Giving locks back keeps the rest compatible. *)
LEMMA LessIsCompatible ==
  ASSUME Compatible, \A s \in Session : grants'[s] = grants[s] \/ grants'[s] = NoGrant
  PROVE  Compatible'
<1>1. NoGrant["exclusive"] = 0 /\ NoGrant["shared"] = 0
  BY DEF NoGrant, Modes
<1>2. QED
  BY <1>1 DEF Compatible

LEMMA OneMoreGrant ==
  ASSUME DbType, NEW s \in Session, NEW mode \in Modes, grants[s] = NoGrant,
         grants' = [grants EXCEPT ![s][mode] = @ + 1]
  PROVE  /\ \A other \in Modes : grants'[s][other] = IF other = mode THEN 1 ELSE 0
         /\ \A r \in Session \ {s} : grants'[r] = grants[r]
  BY DEF DbType, NoGrant

LEMMA OneGrantLess ==
  ASSUME DbType, NEW s \in Session, NEW mode \in Modes,
         \A other \in Modes : grants[s][other] = IF other = mode THEN 1 ELSE 0,
         grants' = [grants EXCEPT ![s][mode] = @ - 1]
  PROVE  /\ grants'[s] = NoGrant
         /\ \A r \in Session \ {s} : grants'[r] = grants[r]
<1>1. grants' = [grants EXCEPT ![s] = [grants[s] EXCEPT ![mode] = 0]]
  <2>1. grants[s][mode] - 1 = 0
    OBVIOUS
  <2>2. grants' = [grants EXCEPT ![s] = [grants[s] EXCEPT ![mode] = grants[s][mode] - 1]]
    BY DEF DbType
  <2>3. QED
    BY <2>1, <2>2
<1>2. grants[s] \in [Modes -> Nat]
  BY DEF DbType
<1>3. [grants[s] EXCEPT ![mode] = 0] = [other \in Modes |-> 0]
  BY <1>2
<1>4. QED
  BY <1>1, <1>3 DEF NoGrant, DbType

LEMMA GrantChanges ==
  ASSUME DbType, NEW s \in Session, NEW mode \in Modes, grants[s] = NoGrant
  PROVE  [grants EXCEPT ![s][mode] = @ + 1] # grants
<1>1. [grants EXCEPT ![s][mode] = @ + 1][s][mode] = 1 /\ grants[s][mode] = 0
  BY DEF DbType, NoGrant
<1>2. QED
  BY <1>1

(* Steps that touch neither the database nor m.conn. *)
LEMMA QuietStep ==
  ASSUME TypeOK, Inv, NEW t \in Thread,
         UNCHANGED <<conn, failed, dbVars>>,
         \A n \in Mutex \ {MutexOf[t]} : locked'[n] = locked[n],
         \A u \in Thread \ {t} : pc'[u] = pc[u] /\ call'[u] = call[u],
         OneGoroutineEach,
         pc'[t] \in Holding <=> pc[t] \in Holding,
         pc'[t] \in Without <=> pc[t] \in Without,
         pc[t] \in Holding => call'[t] = call[t],
         pc'[t] \in {"retry", "check"} \cup (Holding \ {"granted"}) => locked'[MutexOf[t]]
  PROVE  Inv'
<1>1. MutexOf[t] \in Mutex /\ NoGrant' = NoGrant
  BY Owners DEF NoGrant
<1>2. Local(MutexOf[t])
  BY DEF Local, dbVars
<1>3. ASSUME NEW u \in Thread, u # t PROVE ThreadInv(u)'
  BY <1>1, <1>2, <1>3, ThreadFrame DEF Inv, OneGoroutineEach
<1>4. ThreadInv(t)'
  BY <1>1 DEF Inv, ThreadInv, HasSession, WithoutHoldsNothing, HoldingHoldsOne, FlagIsUp, Conn, Mode, dbVars
<1>5. ASSUME NEW s \in Session PROVE SessionInv(s)'
  BY <1>1, <1>5 DEF Inv, SessionInv, Traced, IdleIsFree, Conn, dbVars
<1>6. Compatible'
  BY DEF Inv, Compatible, dbVars
<1>7. QED
  BY <1>3, <1>4, <1>5, <1>6 DEF Inv

LEMMA QuietSteps ==
  ASSUME TypeOK, Inv, OneGoroutineEach, NEW t \in Thread,
         \/ \E c \in Calls : Call(t, c)
         \/ MuLock(t) \/ MuRLock(t) \/ CallUnlock(t) \/ MuUnlock(t)
         \/ Raise(t) \/ Check(t) \/ UnlockCheck(t) \/ UnlockClear(t)
  PROVE  Inv'
<1> USE DEF Call, MuLock, MuRLock, MuTaken, CallUnlock, MuUnlock, Raise, Check, UnlockCheck, UnlockClear, Return
<1>0. MutexOf[t] \in Mutex /\ FlagIsUp(t)
  BY Owners DEF Inv, ThreadInv
<1>1. UNCHANGED <<conn, failed, dbVars>>
  BY DEF mutexVars
<1>2. \A u \in Thread \ {t} : pc'[u] = pc[u] /\ call'[u] = call[u]
  BY DEF TypeOK
<1>3. \A n \in Mutex \ {MutexOf[t]} : locked'[n] = locked[n]
  BY DEF TypeOK, mutexVars
<1>4. /\ pc'[t] \in Holding <=> pc[t] \in Holding
      /\ pc'[t] \in Without <=> pc[t] \in Without
      /\ pc[t] \in Holding => call'[t] = call[t]
  BY <1>0 DEF TypeOK, FlagIsUp, Holding, Without
<1>5. pc'[t] \in {"retry", "check"} \cup (Holding \ {"granted"}) => locked'[MutexOf[t]]
  BY <1>0 DEF TypeOK, FlagIsUp, Holding, mutexVars
<1>6. QED
  BY <1>1, <1>2, <1>3, <1>4, <1>5, QuietStep

LEMMA ConnxStep ==
  ASSUME TypeOK, Inv, OneGoroutineEach, NEW t \in Thread, Connx(t)
  PROVE  Inv'
<1> DEFINE m == MutexOf[t]
<1>1. m \in Mutex /\ NoGrant' = NoGrant
  BY Owners DEF NoGrant
<1>2. PICK s \in Session :
        /\ PoolOf[s] = m /\ pool[s] = "idle"
        /\ pool' = [pool EXCEPT ![s] = "used"]
        /\ conn' = [conn EXCEPT ![m] = s]
  BY DEF Connx
<1>3. /\ pc[t] = "connx" /\ pc' = [pc EXCEPT ![t] = "try"]
      /\ UNCHANGED <<locked, failed, grants, call>>
  BY DEF Connx
<1>4. Local(m)
  BY <1>1, <1>2, <1>3 DEF Local, TypeOK
<1>5. Conn(t)' = s /\ pc'[t] = "try" /\ pool'[s] = "used"
  BY <1>1, <1>2, <1>3 DEF Conn, TypeOK
<1>6. grants'[s] = NoGrant
  BY <1>2, <1>3 DEF Inv, SessionInv, IdleIsFree
<1>7. ThreadInv(t)'
  BY <1>1, <1>2, <1>5, <1>6
     DEF ThreadInv, HasSession, WithoutHoldsNothing, HoldingHoldsOne, FlagIsUp, Holding, Without
<1>8. ASSUME NEW r \in Session, PoolOf[r] = m PROVE SessionInv(r)'
  <2>1. ~failed[m] => grants[r] = NoGrant
    BY <1>3, <1>8, NotHoldingHoldsNothing DEF Holding
  <2>2. Traced(r)'
    BY <1>1, <1>3, <1>8, <2>1 DEF Traced
  <2>3. IdleIsFree(r)'
    BY <1>1, <1>2, <1>3 DEF Inv, SessionInv, IdleIsFree, TypeOK
  <2>4. QED
    BY <2>2, <2>3 DEF SessionInv
<1>9. Compatible'
  BY <1>3 DEF Inv, Compatible
<1>10. QED
  BY <1>1, <1>4, <1>7, <1>8, <1>9, ThreadFrame, SessionFrame DEF Inv, OneGoroutineEach

(* A call that returns an error; the server may have ended its session. *)
LEMMA FailStep ==
  ASSUME TypeOK, Inv, OneGoroutineEach, NEW t \in Thread, ConnxFails(t) \/ LockFails(t) \/ UnlockFails(t)
  PROVE  Inv'
<1> DEFINE m == MutexOf[t]
<1>1. m \in Mutex /\ NoGrant' = NoGrant
  BY Owners DEF NoGrant
<1>2. /\ pc' = [pc EXCEPT ![t] = "idle"] /\ call' = [call EXCEPT ![t] = "none"]
      /\ failed' = [failed EXCEPT ![m] = TRUE] /\ locked' = locked
      /\ conn' = conn \/ conn' = [conn EXCEPT ![m] = Nil]
  BY DEF ConnxFails, LockFails, UnlockFails, Fail, Return
<1>3. \/ UNCHANGED dbVars
      \/ /\ pc[t] \in {"try", "retry", "unExec"} \/ (pc[t] = "unClose" /\ conn[m] = Closed)
         /\ Usable(m) /\ End(conn[m])
  BY DEF ConnxFails, LockFails, UnlockFails
<1>4. HasSession(t)
  BY DEF Inv, ThreadInv
<1>5. \/ UNCHANGED dbVars
      \/ /\ conn[m] \in Session /\ PoolOf[conn[m]] = m
         /\ pool' = [pool EXCEPT ![conn[m]] = "bad"]
         /\ grants' = [grants EXCEPT ![conn[m]] = NoGrant]
  BY <1>3, <1>4 DEF HasSession, Conn, Usable, End, NoGrant, Holding, Without
<1>6. /\ Local(m)
      /\ \A s \in Session : /\ pool'[s] = "idle" => pool[s] = "idle"
                            /\ grants'[s] = grants[s] \/ grants'[s] = NoGrant
  <2>1. CASE UNCHANGED dbVars
    BY <1>1, <1>2, <2>1 DEF Local, TypeOK, dbVars
  <2>2. CASE ~UNCHANGED dbVars
    BY <1>1, <1>2, <1>5, <2>2 DEF Local, TypeOK
  <2>3. QED
    BY <2>1, <2>2
<1>7. ThreadInv(t)'
  BY <1>2 DEF ThreadInv, HasSession, WithoutHoldsNothing, HoldingHoldsOne, FlagIsUp, Holding, Without, TypeOK
<1>8. ASSUME NEW r \in Session, PoolOf[r] = m PROVE SessionInv(r)'
  BY <1>1, <1>2, <1>6, <1>8 DEF Inv, SessionInv, Traced, IdleIsFree, TypeOK
<1>9. Compatible'
  BY <1>6, LessIsCompatible DEF Inv
<1>10. QED
  BY <1>1, <1>6, <1>7, <1>8, <1>9, ThreadFrame, SessionFrame DEF Inv, OneGoroutineEach

(* A request for the lock: the server grants it, or the goroutine goes on  *)
(* waiting.                                                                *)
LEMMA RequestStep ==
  ASSUME TypeOK, Inv, OneGoroutineEach, NEW t \in Thread, TryLock(t) \/ Retry(t)
  PROVE  Inv'
<1> DEFINE m == MutexOf[t]
           s == conn[m]
<1>1. m \in Mutex /\ Mode(t) \in Modes
  BY Owners, ModeInModes
<1>2. pc[t] \in {"try", "retry"} /\ UNCHANGED <<mutexVars, pool, call, left>> /\ Usable(m)
  BY DEF TryLock, Retry
<1>3. s \in Session /\ PoolOf[s] = m /\ pool[s] = "used" /\ grants[s] = NoGrant
  BY <1>2 DEF Inv, ThreadInv, HasSession, WithoutHoldsNothing, Without, Conn, Usable
<1>4. CASE grants' = grants
  <2>1. \/ pc' = [pc EXCEPT ![t] = "refused"]
        \/ pc' = [pc EXCEPT ![t] = "check"] /\ pc[t] = "retry"
    BY <1>1, <1>3, <1>4, GrantChanges DEF TryLock, Retry, Grant, TypeOK, DbType
  <2>2. QED
    BY <1>1, <1>2, <1>4, <2>1, QuietStep
       DEF Inv, ThreadInv, FlagIsUp, mutexVars, dbVars, TypeOK, Holding, Without
<1>5. CASE grants' # grants
  <2>1. /\ CanGrant(s, Mode(t)) /\ grants' = [grants EXCEPT ![s][Mode(t)] = @ + 1]
        /\ \/ pc' = [pc EXCEPT ![t] = "granted"]
           \/ pc' = [pc EXCEPT ![t] = "cs"] /\ pc[t] = "retry"
    BY <1>5 DEF TryLock, Retry, Grant
  <2>2. /\ \A mode \in Modes : grants'[s][mode] = IF mode = Mode(t) THEN 1 ELSE 0
        /\ \A r \in Session \ {s} : grants'[r] = grants[r]
    BY <1>1, <1>3, <2>1, OneMoreGrant DEF TypeOK, DbType
  <2>3. Local(m)
    BY <1>1, <1>2, <1>3, <2>1, <2>2 DEF Local, mutexVars, TypeOK
  <2>4. Conn(t)' = s /\ Mode(t)' = Mode(t) /\ pc'[t] \in {"granted", "cs"}
    BY <1>2, <2>1 DEF Conn, Mode, mutexVars, TypeOK
  <2>5. pc'[t] = "cs" => locked'[m]
    BY <1>2, <2>1 DEF Inv, ThreadInv, FlagIsUp, mutexVars, TypeOK
  <2>6. ThreadInv(t)'
    BY <1>2, <1>3, <2>2, <2>4, <2>5
       DEF ThreadInv, HasSession, WithoutHoldsNothing, HoldingHoldsOne, FlagIsUp, Holding, Without
  <2>7. ASSUME NEW r \in Session, PoolOf[r] = m PROVE SessionInv(r)'
    <3>1. CASE r = s
      BY <1>2, <1>3, <2>4, <3>1 DEF SessionInv, Traced, IdleIsFree, Holding
    <3>2. CASE r # s
      <4>1. ~failed[m] => grants[r] = NoGrant
        BY <1>2, <2>7, NotHoldingHoldsNothing DEF Holding
      <4>2. QED
        BY <1>2, <2>2, <2>7, <3>2, <4>1 DEF Inv, SessionInv, Traced, IdleIsFree, NoGrant, mutexVars
    <3>3. QED
      BY <3>1, <3>2
  <2>8. Compatible'
    <3> SUFFICES ASSUME NEW a \in Session, NEW b \in Session, a # b, grants'[a]["exclusive"] > 0
                 PROVE  grants'[b]["exclusive"] = 0 /\ grants'[b]["shared"] = 0
      BY DEF Compatible
    <3>1. "exclusive" \in Modes /\ "shared" \in Modes
      BY DEF Modes
    <3>2. CASE a = s
      BY <2>1, <2>2, <3>1, <3>2 DEF CanGrant
    <3>3. CASE a # s /\ b = s
      BY <1>3, <2>1, <2>2, <3>1, <3>3 DEF CanGrant, TypeOK
    <3>4. CASE a # s /\ b # s
      BY <2>2, <3>4 DEF Inv, Compatible
    <3>5. QED
      BY <3>2, <3>3, <3>4
  <2>9. QED
    BY <1>1, <2>3, <2>6, <2>7, <2>8, ThreadFrame, SessionFrame DEF Inv, OneGoroutineEach
<1>6. QED
  BY <1>4, <1>5

LEMMA UnlockExecStep ==
  ASSUME TypeOK, Inv, OneGoroutineEach, NEW t \in Thread, UnlockExec(t)
  PROVE  Inv'
<1> DEFINE m == MutexOf[t]
           s == conn[m]
<1>1. m \in Mutex /\ Mode(t) \in Modes /\ NoGrant' = NoGrant
  BY Owners, ModeInModes DEF NoGrant
<1>2. /\ pc[t] = "unExec" /\ pc' = [pc EXCEPT ![t] = "unClose"]
      /\ UNCHANGED <<mutexVars, pool, call, left>>
  BY DEF UnlockExec
<1>3. /\ s \in Session /\ PoolOf[s] = m /\ pool[s] = "used"
      /\ \A mode \in Modes : grants[s][mode] = IF mode = Mode(t) THEN 1 ELSE 0
  BY <1>2 DEF Inv, ThreadInv, HasSession, HoldingHoldsOne, Holding, Conn
<1>4. grants' = [grants EXCEPT ![s][Mode(t)] = @ - 1]
  BY <1>1, <1>3 DEF UnlockExec
<1>5. grants'[s] = NoGrant /\ \A r \in Session \ {s} : grants'[r] = grants[r]
  BY <1>1, <1>3, <1>4, OneGrantLess DEF TypeOK, DbType
<1>6. Local(m)
  BY <1>1, <1>2, <1>3, <1>5 DEF Local, mutexVars, TypeOK
<1>7. Conn(t)' = s /\ pc'[t] = "unClose"
  BY <1>2 DEF Conn, mutexVars, TypeOK
<1>8. ThreadInv(t)'
  BY <1>1, <1>2, <1>3, <1>5, <1>7
     DEF ThreadInv, HasSession, WithoutHoldsNothing, HoldingHoldsOne, FlagIsUp, Holding, Without
<1>9. ASSUME NEW r \in Session, PoolOf[r] = m PROVE SessionInv(r)'
  <2>1. ~failed[m] /\ r # s => grants[r] = NoGrant
    BY <1>9, NotHoldingHoldsNothing DEF Conn
  <2>2. QED
    BY <1>1, <1>2, <1>5, <1>9, <2>1 DEF Inv, SessionInv, Traced, IdleIsFree, mutexVars
<1>10. Compatible'
  BY <1>5, LessIsCompatible DEF Inv
<1>11. QED
  BY <1>1, <1>6, <1>8, <1>9, <1>10, ThreadFrame, SessionFrame DEF Inv, OneGoroutineEach

LEMMA UnlockCloseStep ==
  ASSUME TypeOK, Inv, OneGoroutineEach, NEW t \in Thread, UnlockClose(t)
  PROVE  Inv'
<1> DEFINE m == MutexOf[t]
           s == conn[m]
<1>1. m \in Mutex /\ NoGrant' = NoGrant
  BY Owners DEF NoGrant
<1>2. /\ pc[t] = "unClose" /\ pc' = [pc EXCEPT ![t] = "unClear"]
      /\ s \in Session /\ pool' = [pool EXCEPT ![s] = "idle"]
      /\ conn' = [conn EXCEPT ![m] = Closed]
      /\ UNCHANGED <<locked, failed, grants, call>>
  BY DEF UnlockClose
<1>3. PoolOf[s] = m /\ grants[s] = NoGrant
  BY <1>2 DEF Inv, ThreadInv, HasSession, WithoutHoldsNothing, Without, Conn
<1>4. Local(m)
  BY <1>1, <1>2, <1>3 DEF Local, TypeOK
<1>5. pc'[t] = "unClear"
  BY <1>2 DEF TypeOK
<1>6. ThreadInv(t)'
  BY <1>5 DEF ThreadInv, HasSession, WithoutHoldsNothing, HoldingHoldsOne, FlagIsUp, Holding, Without
<1>7. ASSUME NEW r \in Session, PoolOf[r] = m PROVE SessionInv(r)'
  <2>1. ~failed[m] => grants[r] = NoGrant
    BY <1>2, <1>7, NotHoldingHoldsNothing DEF Holding
  <2>2. QED
    BY <1>1, <1>2, <1>3, <1>7, <2>1 DEF Inv, SessionInv, Traced, IdleIsFree, TypeOK
<1>8. Compatible'
  BY <1>2 DEF Inv, Compatible
<1>9. QED
  BY <1>1, <1>4, <1>6, <1>7, <1>8, ThreadFrame, SessionFrame DEF Inv, OneGoroutineEach

LEMMA SessionEndsStep ==
  ASSUME TypeOK, Inv, SessionsLast, NEW s \in Session, SessionEnds(s)
  PROVE  Inv'
<1>1. NoGrant' = NoGrant
  BY DEF NoGrant
<1>2. /\ pool[s] = "used"
      /\ pool' = [pool EXCEPT ![s] = "bad"] /\ grants' = [grants EXCEPT ![s] = NoGrant]
      /\ UNCHANGED <<mutexVars, call, pc>>
      /\ \A t \in Thread : MutexOf[t] = PoolOf[s] => pc[t] \notin Holding
  BY DEF SessionEnds, End, NoGrant, Holding
<1>3. /\ grants'[s] = NoGrant /\ pool'[s] = "bad"
      /\ \A r \in Session \ {s} : grants'[r] = grants[r] /\ pool'[r] = pool[r]
  BY <1>2 DEF TypeOK
<1>4. ASSUME NEW t \in Thread PROVE ThreadInv(t)'
  <2>1. Conn(t)' = Conn(t) /\ Mode(t)' = Mode(t) /\ pc'[t] = pc[t] /\ locked' = locked
    BY <1>2 DEF Conn, Mode, mutexVars
  <2>2. HasSession(t)' /\ WithoutHoldsNothing(t)' /\ FlagIsUp(t)'
    BY <1>1, <1>2, <1>3, <2>1 DEF Inv, ThreadInv, HasSession, WithoutHoldsNothing, FlagIsUp
  <2>3. pc[t] \in Holding => Conn(t) \in Session \ {s}
    BY <1>2 DEF Inv, ThreadInv, HasSession
  <2>4. HoldingHoldsOne(t)'
    BY <1>3, <2>1, <2>3 DEF Inv, ThreadInv, HoldingHoldsOne
  <2>5. QED
    BY <2>2, <2>4 DEF ThreadInv
<1>5. ASSUME NEW r \in Session PROVE SessionInv(r)'
  BY <1>1, <1>2, <1>3 DEF Inv, SessionInv, Traced, IdleIsFree, Conn, mutexVars
<1>6. Compatible'
  BY <1>3, LessIsCompatible DEF Inv
<1>7. QED
  BY <1>4, <1>5, <1>6 DEF Inv

LEMMA CrashStep ==
  ASSUME TypeOK, Inv, NEW m \in Mutex, Crash(m)
  PROVE  Inv'
<1>1. NoGrant' = NoGrant
  BY DEF NoGrant
<1>2. Dies(m)
  BY DEF Crash
<1>3. Local(m)
  BY <1>2 DEF Local, Dies, TypeOK
<1>4. \A s \in Session : PoolOf[s] = m => grants'[s] = NoGrant /\ pool'[s] = "bad"
  BY <1>2 DEF Dies, NoGrant
<1>5. ASSUME NEW t \in Thread, MutexOf[t] = m PROVE ThreadInv(t)'
  <2>1. pc'[t] = "dead"
    BY <1>2, <1>5 DEF Dies
  <2>2. QED
    BY <2>1 DEF ThreadInv, HasSession, WithoutHoldsNothing, HoldingHoldsOne, FlagIsUp, Holding, Without
<1>6. ASSUME NEW s \in Session, PoolOf[s] = m PROVE SessionInv(s)'
  BY <1>1, <1>4, <1>6 DEF SessionInv, Traced, IdleIsFree
<1>7. Compatible'
  BY <1>3, <1>4, LessIsCompatible DEF Inv, Local
<1>8. QED
  BY <1>3, <1>5, <1>6, <1>7, ThreadFrame, SessionFrame DEF Inv

-----------------------------------------------------------------------------
LEMMA InvInit == Init => Inv
<1> SUFFICES ASSUME Init PROVE Inv
  OBVIOUS
<1>1. ASSUME NEW t \in Thread PROVE ThreadInv(t)
  BY DEF Init, ThreadInv, HasSession, WithoutHoldsNothing, HoldingHoldsOne, FlagIsUp, Holding, Without
<1>2. ASSUME NEW s \in Session PROVE SessionInv(s)
  BY DEF Init, SessionInv, Traced, IdleIsFree, NoGrant
<1>3. Compatible
  BY DEF Init, Compatible, Modes
<1>4. QED
  BY <1>1, <1>2, <1>3 DEF Inv

LEMMA InvNext ==
  ASSUME OneGoroutineEach, SessionsLast, TypeOK, Inv, [Next]_vars
  PROVE  Inv'
<1>1. ASSUME NEW t \in Thread, Step(t) \/ \E c \in Calls : Call(t, c) PROVE Inv'
  BY <1>1, QuietSteps, ConnxStep, FailStep, RequestStep, UnlockExecStep, UnlockCloseStep DEF Step
<1>2. ASSUME NEW s \in Session, SessionEnds(s) PROVE Inv'
  BY <1>2, SessionEndsStep
<1>3. ASSUME NEW m \in Mutex, Crash(m) PROVE Inv'
  BY <1>3, CrashStep
<1>4. CASE UNCHANGED vars
  <2>1. UNCHANGED <<conn, locked, failed, pool, grants, call, pc>>
    BY <1>4 DEF vars, mutexVars, dbVars
  <2>2. ASSUME NEW t \in Thread PROVE ThreadInv(t)'
    BY <2>1 DEF Inv, ThreadInv, HasSession, WithoutHoldsNothing, HoldingHoldsOne, FlagIsUp, Conn, Mode, NoGrant
  <2>3. ASSUME NEW s \in Session PROVE SessionInv(s)'
    BY <2>1 DEF Inv, SessionInv, Traced, IdleIsFree, Conn, NoGrant
  <2>4. Compatible'
    BY <2>1 DEF Inv, Compatible
  <2>5. QED
    BY <2>2, <2>3, <2>4 DEF Inv
<1>5. QED
  BY <1>1, <1>2, <1>3, <1>4 DEF Next

LEMMA InvAlways == ASSUME OneGoroutineEach, SessionsLast PROVE Spec => []Inv
<1>1. TypeOK /\ Inv /\ [Next]_vars => Inv'
  BY InvNext
<1>2. QED
  BY <1>1, InvInit, TypeCorrect, PTL DEF Spec

LEMMA InvExclusion == OneGoroutineEach /\ TypeOK /\ Inv => Exclusion
<1> SUFFICES ASSUME OneGoroutineEach, TypeOK, Inv, NEW t \in Writers, NEW u \in Writers \cup Readers, t # u
             PROVE  FALSE
  BY DEF Exclusion
<1>1. t \in Thread /\ u \in Thread /\ Mode(t) = "exclusive" /\ pc[t] \in Holding /\ pc[u] \in Holding
  BY DEF Writers, Readers, Holding
<1>2. /\ Conn(t) \in Session /\ Conn(u) \in Session
      /\ PoolOf[Conn(t)] = MutexOf[t] /\ PoolOf[Conn(u)] = MutexOf[u]
  BY <1>1 DEF Inv, ThreadInv, HasSession
<1>3. Conn(t) # Conn(u)
  BY <1>1, <1>2 DEF OneGoroutineEach
<1>4. grants[Conn(t)]["exclusive"] = 1 /\ grants[Conn(u)][Mode(u)] = 1
  BY <1>1, ModeInModes DEF Inv, ThreadInv, HoldingHoldsOne, Modes
<1>5. Mode(u) \in {"exclusive", "shared"}
  BY <1>1, ModeInModes DEF Modes
<1>6. QED
  BY <1>2, <1>3, <1>4, <1>5 DEF Inv, Compatible

(* "Mutex provides a distributed mutex across multiple instances": when    *)
(* every goroutine has a Mutex value of its own and its session lasts, a   *)
(* writer is alone in all processes.                                       *)
THEOREM ExclusionHolds == ASSUME OneGoroutineEach, SessionsLast PROVE Spec => []Exclusion
  BY InvExclusion, InvAlways, TypeCorrect, PTL

(* A process none of whose goroutines is in the lock keeps no advisory     *)
(* lock in its sessions, as long as none of its calls has failed.          *)
THEOREM UnlockGivesBackHolds == ASSUME OneGoroutineEach, SessionsLast PROVE Spec => []UnlockGivesBack
<1>1. TypeOK /\ Inv => UnlockGivesBack
  <2> SUFFICES ASSUME TypeOK, Inv, NEW s \in Session, ~failed[PoolOf[s]],
                      NEW mode \in Modes, grants[s][mode] > 0
               PROVE  \E t \in Thread : MutexOf[t] = PoolOf[s] /\ Active(t)
    BY DEF UnlockGivesBack
  <2>1. grants[s] # NoGrant
    BY DEF NoGrant
  <2>2. PICK t \in Thread : pc[t] \in Holding /\ MutexOf[t] = PoolOf[s]
    BY <2>1 DEF Inv, SessionInv, Traced
  <2>3. QED
    BY <2>2 DEF Holding, Active
<1>2. QED
  BY <1>1, InvAlways, TypeCorrect, PTL

(* The pool never hands out a session that holds the lock.                 *)
THEOREM IdleSessionsAreFreeHolds ==
  ASSUME OneGoroutineEach, SessionsLast PROVE Spec => []IdleSessionsAreFree
<1>1. Inv => IdleSessionsAreFree
  BY DEF Inv, SessionInv, IdleIsFree, IdleSessionsAreFree, NoGrant
<1>2. QED
  BY <1>1, InvAlways, PTL

-----------------------------------------------------------------------------
LEMMA EntersAlone ==
  ASSUME Exclusion', NEW t \in Thread, t \notin Writers \cup Readers,
         \/ Writers' = Writers \cup {t} /\ Readers' = Readers
         \/ Writers' = Writers /\ Readers' = Readers \cup {t}
  PROVE  Abstract!Next
<1>1. CASE Writers' = Writers \cup {t} /\ Readers' = Readers
  <2>1. \A u \in Writers' \cup Readers' : u = t
    BY <1>1 DEF Exclusion
  <2>2. Abstract!Acquire(t)
    BY <1>1, <2>1 DEF Abstract!Acquire
  <2>3. QED
    BY <2>2 DEF Abstract!Next
<1>2. CASE Writers' = Writers /\ Readers' = Readers \cup {t}
  <2>1. \A u \in Writers' : u = t
    BY <1>2 DEF Exclusion
  <2>2. Abstract!AcquireShared(t)
    BY <1>2, <2>1 DEF Abstract!AcquireShared
  <2>3. QED
    BY <2>2 DEF Abstract!Next
<1>3. QED
  BY <1>1, <1>2

LEMMA Leaves ==
  ASSUME NEW t \in Thread, t \in Writers \cup Readers,
         Writers' = Writers \ {t}, Readers' = Readers \ {t}
  PROVE  Abstract!Next
  BY DEF Abstract!Next, Abstract!Release

(* Who holds the lock changes only with the goroutine that moves. *)
LEMMA HoldersFrame ==
  ASSUME NEW t \in Thread, \A u \in Thread \ {t} : pc'[u] = pc[u] /\ call'[u] = call[u]
  PROVE  /\ \A u \in Thread \ {t} : (u \in Writers' <=> u \in Writers) /\ (u \in Readers' <=> u \in Readers)
         /\ Writers \subseteq Thread /\ Readers \subseteq Thread
         /\ Writers' \subseteq Thread /\ Readers' \subseteq Thread
         /\ t \in Writers <=> pc[t] = "cs" /\ Mode(t) = "exclusive"
         /\ t \in Readers <=> pc[t] = "cs" /\ Mode(t) = "shared"
         /\ t \in Writers' <=> pc'[t] = "cs" /\ Mode(t)' = "exclusive"
         /\ t \in Readers' <=> pc'[t] = "cs" /\ Mode(t)' = "shared"
  BY DEF Writers, Readers, Mode

(* Between LockContext and UnlockContext, RWLockContext and                *)
(* RWUnlockContext the program is a read-write lock over all processes:    *)
(* nobody passes commonLock but by the server's grant, and a death lets go *)
(* of one holder.                                                          *)
THEOREM Refinement == ASSUME OneGoroutineEach, SessionsLast PROVE Spec => ImplementsRWLock
<1>1. Init => Abstract!Init
  BY DEF Init, Abstract!Init, Writers, Readers
<1>2. ASSUME TypeOK, Inv, Exclusion', [Next]_vars
      PROVE  Abstract!Next \/ UNCHANGED <<Writers, Readers>>
  <2>1. ASSUME NEW t \in Thread, Step(t) \/ \E c \in Calls : Call(t, c)
        PROVE  Abstract!Next \/ UNCHANGED <<Writers, Readers>>
    <3>1. /\ \A u \in Thread \ {t} : pc'[u] = pc[u] /\ call'[u] = call[u]
          /\ ~(pc[t] = "cs" /\ pc'[t] = "cs")
      <4>0. pc \in [Thread -> PC] /\ call \in [Thread -> Calls \cup {"none"}]
        BY <1>2 DEF TypeOK
      <4>1. CASE MuLock(t) \/ MuRLock(t) \/ CallUnlock(t) \/ MuUnlock(t) \/ \E c \in Calls : Call(t, c)
        BY <4>0, <4>1 DEF Call, MuLock, MuRLock, MuTaken, CallUnlock, MuUnlock
      <4>2. CASE Connx(t) \/ TryLock(t) \/ Raise(t) \/ Retry(t) \/ Check(t)
        BY <4>0, <4>2 DEF Connx, TryLock, Raise, Retry, Check
      <4>3. CASE UnlockCheck(t) \/ UnlockExec(t) \/ UnlockClose(t) \/ UnlockClear(t)
        BY <4>0, <4>3 DEF UnlockCheck, UnlockExec, UnlockClose, UnlockClear, Return
      <4>4. CASE ConnxFails(t) \/ LockFails(t) \/ UnlockFails(t)
        BY <4>0, <4>4 DEF ConnxFails, LockFails, UnlockFails, Fail, Return
      <4>5. QED
        BY <2>1, <4>1, <4>2, <4>3, <4>4 DEF Step
    <3>2. Mode(t) \in {"exclusive", "shared"} /\ Mode(t)' \in {"exclusive", "shared"}
      BY DEF Mode
    <3>3. CASE pc[t] = "cs" /\ pc'[t] # "cs"
      BY <3>1, <3>2, <3>3, HoldersFrame, Leaves
    <3>4. CASE pc[t] # "cs" /\ pc'[t] # "cs"
      BY <3>1, <3>4, HoldersFrame
    <3>5. CASE pc[t] # "cs" /\ pc'[t] = "cs"
      BY <1>2, <3>1, <3>2, <3>5, HoldersFrame, EntersAlone
    <3>6. QED
      BY <3>1, <3>3, <3>4, <3>5
  <2>2. ASSUME NEW s \in Session, SessionEnds(s) PROVE UNCHANGED <<Writers, Readers>>
    BY <2>2 DEF SessionEnds, Writers, Readers, Mode
  <2>3. ASSUME NEW m \in Mutex, Crash(m) PROVE Abstract!Next \/ UNCHANGED <<Writers, Readers>>
    <3>1. PICK t \in Thread : MutexOf[t] = m
      BY <2>3 DEF Crash
    <3>2. \A u \in Thread \ {t} : pc'[u] = pc[u] /\ call'[u] = call[u]
      BY <2>3, <3>1 DEF Crash, Dies, OneGoroutineEach
    <3>3. pc'[t] = "dead"
      BY <2>3, <3>1 DEF Crash, Dies
    <3>4. CASE t \in Writers \cup Readers
      BY <3>2, <3>3, <3>4, HoldersFrame, Leaves
    <3>5. CASE t \notin Writers \cup Readers
      BY <3>2, <3>3, <3>5, HoldersFrame
    <3>6. QED
      BY <3>4, <3>5
  <2>4. CASE UNCHANGED vars
    BY <2>4 DEF vars, Writers, Readers, Mode
  <2>5. QED
    BY <1>2, <2>1, <2>2, <2>3, <2>4 DEF Next
<1>3. QED
  BY <1>1, <1>2, InvAlways, TypeCorrect, ExclusionHolds, PTL DEF Spec, ImplementsRWLock, Abstract!Spec
=============================================================================
