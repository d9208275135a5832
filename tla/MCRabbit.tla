------------------------------ MODULE MCRabbit ------------------------------
(* Instances of RabbitClient for TLC. *)
EXTENDS RabbitClient

\* consumers with names of their own
OwnKeys == [c \in Consumer |-> c]
=============================================================================
