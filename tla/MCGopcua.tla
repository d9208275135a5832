------------------------------ MODULE MCGopcua ------------------------------
(* Instances of GopcuaSubscription for TLC. *)
EXTENDS GopcuaSubscription

CONSTANTS s1, s2, none

=============================================================================
