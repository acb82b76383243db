-------------------------- MODULE MCTelemetryQueue --------------------------
(* The work queue on a small instance: two jobs, two packets (so that a    *)
(* job identifier can be presented with another packet) and one malformed  *)
(* byte string that may be pushed twice.                                   *)
EXTENDS TelemetryQueue
=============================================================================
