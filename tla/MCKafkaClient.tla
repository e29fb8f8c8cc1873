--------------------------- MODULE MCKafkaClient ---------------------------
(* Small instances of KafkaClient for TLC. *)
EXTENDS KafkaClient
=============================================================================
