------------------------ MODULE MCIntegrationRunner ------------------------
(* Small instances of IntegrationRunner for TLC. *)
EXTENDS IntegrationRunner

CONSTANTS t1, t2, i1, i2, w1, w2
=============================================================================
