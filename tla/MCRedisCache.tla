---------------------------- MODULE MCRedisCache ----------------------------
(* Instances of RedisCache for TLC. *)
EXTENDS RedisCache, TLC

CONSTANTS p1, p2, c1, c2, k1, k2, k3

\* two processes share c1
Made == p1 :> {c1} @@ p2 :> {c1, c2}

\* the prefix of c2 begins with the prefix of c1
Own == c1 :> {k1, k2} @@ c2 :> {k3}
Matched == c1 :> {k1, k2, k3} @@ c2 :> {k3}

\* the bucket the walk visits last may lose its keys to expiry
Placed == k1 :> 1 @@ k2 :> 2 @@ k3 :> 2
=============================================================================
