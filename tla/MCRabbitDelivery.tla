-------------------------- MODULE MCRabbitDelivery --------------------------
(* Instances of RabbitDelivery for TLC. *)
EXTENDS RabbitDelivery, MCRabbit
=============================================================================
