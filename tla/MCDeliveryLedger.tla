-------------------------- MODULE MCDeliveryLedger --------------------------
(* Reception on small instances.  Bodies a1 and b1 are different bytes for *)
(* the same sequence number, a2 is the frame after it, and bad does not    *)
(* pass validation.  The session starts at sequence number 1, so that the  *)
(* first frame already reports a gap.                                      *)
EXTENDS DeliveryLedger, TLC

CONSTANTS a1, b1, a2, bad

MCSeqOf == [b \in Bodies |-> CASE b \in {a1, b1} -> 1
                               [] b = a2 -> 2
                               [] b = bad -> None]

\* Deliveries and request IDs are interchangeable.
Symmetry == Permutations(Deliveries) \cup Permutations(RequestIds)
=============================================================================
