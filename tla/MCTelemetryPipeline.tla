------------------------- MODULE MCTelemetryPipeline -------------------------
(* The pipeline on small instances.  Worker w2 runs a newer processor       *)
(* version than w1 in the runs that use MCVersionOf.                        *)
EXTENDS TelemetryPipeline

CONSTANTS w1, w2

\* Handlers differ in nothing but their names.
MCHandlers == Permutations(Handlers)

MCVersionOf == [w \in Workers |-> IF w = w1 THEN "1.0" ELSE "1.1"]
=============================================================================
