----------------------------- MODULE MCPgMutex -----------------------------
(* Instances of PgMutex for TLC. *)
EXTENDS PgMutex, TLC

CONSTANTS m1, m2, m3, t1, t2, t3, s1, s2, s3, s4

\* one goroutine in each of three processes
OnePerMutex == t1 :> m1 @@ t2 :> m2 @@ t3 :> m3

\* a process that writes and reads, one that writes, one that reads
SomeCalls ==
  t1 :> {"Lock", "LockContext", "RWLock"} @@ t2 :> {"LockContext"} @@ t3 :> {"RWLockContext"}

\* two sessions for the first process, one for each of the others
Pools == s1 :> m1 @@ s2 :> m1 @@ s3 :> m2 @@ s4 :> m3
=============================================================================
