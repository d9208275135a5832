---------------------------- MODULE AbstractLock ----------------------------
(***************************************************************************)
(* What the distributed mutexes of go-garage promise ("Mutex provides a    *)
(* distributed mutex across multiple instances"): at any time at most one  *)
(* thread, of whatever instance, is between a Lock that returned nil and   *)
(* the Unlock that follows it.  A holder may also disappear (its process   *)
(* dies); the lock is then free again.                                     *)
(***************************************************************************)
CONSTANTS Thread, NoThread

VARIABLE holder

Init == holder = NoThread

Acquire(t) == holder = NoThread /\ holder' = t

Release(t) == holder = t /\ holder' = NoThread

Next == \E t \in Thread : Acquire(t) \/ Release(t)

Spec == Init /\ [][Next]_holder
=============================================================================
