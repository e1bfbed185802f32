-------------------------- MODULE MCKafkaDelivery ---------------------------
(* Instances of KafkaDelivery for TLC. *)
EXTENDS KafkaDelivery
=============================================================================
