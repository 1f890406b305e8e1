------------------------- MODULE MCKafkaPublisher -------------------------
(* KafkaPublisher on small instances: three calls over a buffer for two, so *)
(* that Produce blocks; no symmetry, because of the refinement.             *)
EXTENDS KafkaPublisher
=============================================================================
