--------------------------- MODULE AbstractRWLock ---------------------------
(***************************************************************************)
(* What a distributed mutex with Lock and RWLock promises: at any time     *)
(* either one thread, of whatever process, is between a Lock that returned *)
(* nil and the Unlock that follows it, or any number of threads are        *)
(* between RWLock and RWUnlock.  A holder may also disappear with its      *)
(* process, which frees what it held.                                      *)
(***************************************************************************)
CONSTANT Thread

VARIABLES
  writers, \* threads between Lock and Unlock
  readers  \* threads between RWLock and RWUnlock

Init == writers = {} /\ readers = {}

Acquire(t) ==
  /\ writers = {} /\ readers = {}
  /\ writers' = {t}
  /\ UNCHANGED readers

AcquireShared(t) ==
  /\ writers = {} /\ t \notin readers
  /\ readers' = readers \cup {t}
  /\ UNCHANGED writers

Release(t) ==
  /\ t \in writers \cup readers
  /\ writers' = writers \ {t}
  /\ readers' = readers \ {t}

Next == \E t \in Thread : Acquire(t) \/ AcquireShared(t) \/ Release(t)

Spec == Init /\ [][Next]_<<writers, readers>>
=============================================================================
