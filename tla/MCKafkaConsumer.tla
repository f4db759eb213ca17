-------------------------- MODULE MCKafkaConsumer --------------------------
(* KafkaConsumer on a topic of a few indistinguishable records. *)
EXTENDS KafkaConsumer

MCRecords == {"record"}
=============================================================================
