---------------------------- MODULE MCRedisMutex ----------------------------
(* Instances of RedisMutex for TLC. *)
EXTENDS RedisMutex, TLC

CONSTANTS i1, i2, i3, t1, t2, t3

\* one goroutine in each of three processes
OnePerInstance == t1 :> i1 @@ t2 :> i2 @@ t3 :> i3

\* two goroutines share the Mutex value of i1
SharedInstance == t1 :> i1 @@ t2 :> i1 @@ t3 :> i2
=============================================================================
