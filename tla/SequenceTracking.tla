-------------------------- MODULE SequenceTracking --------------------------
(***************************************************************************)
(* The persistent sequence state of one payload boot session, as the       *)
(* acceptance transactions of telemetry/storage.py maintain it one after   *)
(* the other (module DeliveryLedger lets them interleave).                 *)
(*                                                                         *)
(* The frames of a session reach the ground in any order, each possibly    *)
(* never; a frame whose key already has a packet row is a duplicate and    *)
(* does not touch the sequence state.                                      *)
(***************************************************************************)
EXTENDS SequenceRules, FiniteSets

CONSTANT Frames     \* sequence numbers the session sends

\* A session spans less than half of the number space: beyond that no
\* receiver can tell a late frame from a new one.
ASSUME FramesAssumption ==
    /\ Frames \subseteq SequenceNumbers
    /\ \A a, b \in Frames : a - b < HalfRange
    /\ None \notin {"FIRST", "IN_ORDER", "GAP", "LATE"}

VARIABLES
    highWater,    \* TelemetrySequenceState.high_water_sequence, or None
    acceptedCount,\* .accepted_packet_count
    missingCount, \* .missing_packet_count
    disposition   \* disposition[s]: sequence_disposition of the permanent
                  \* packet row of frame s, or None without one

trackingVars == <<highWater, acceptedCount, missingCount, disposition>>

TrackingInit ==
    /\ highWater = None
    /\ acceptedCount = 0
    /\ missingCount = 0
    /\ disposition = [s \in Frames |-> None]

\* Accept one frame without a packet row: insert the row, then insert or
\* update the sequence state.
AcceptFrame(s) ==
    /\ disposition[s] = None
    /\ StorageDisposition(highWater, s) # "SEQUENCE_STATE_CONFLICT"
    /\ disposition' = [disposition EXCEPT ![s] = StorageDisposition(highWater, s)]
    /\ highWater' = StorageNextHighWater(highWater, s)
    /\ acceptedCount' = acceptedCount + 1
    /\ missingCount' = missingCount + StorageMissingBefore(highWater, s)

TrackingNext == \E s \in Frames : AcceptFrame(s)

TrackingSpec == TrackingInit /\ [][TrackingNext]_trackingVars
-----------------------------------------------------------------------------
Received == {s \in Frames : disposition[s] # None}
Late == {s \in Frames : disposition[s] = "LATE"}

TrackingTypeOK ==
    /\ highWater \in Frames \cup {None}
    /\ acceptedCount \in Nat
    /\ missingCount \in Nat
    /\ disposition \in [Frames -> {"FIRST", "IN_ORDER", "GAP", "LATE", None}]

\* Whatever the order of arrival, the high-water mark is the newest frame
\* that reached the ground ("do not move high-water mark backward").
HighWaterIsNewest ==
    IF Received = {} THEN highWater = None
    ELSE /\ highWater \in Received
         /\ \A s \in Received : s <= highWater

\* A frame without a packet row never meets its own number as the high-water
\* mark, so the branch storage.py takes for an inconsistent database
\* ("SEQUENCE_STATE_CONFLICT") is not taken when frames are accepted one by
\* one.
NoFalseStateConflict ==
    \A s \in Frames \ Received :
        StorageDisposition(highWater, s) # "SEQUENCE_STATE_CONFLICT"

\* The counters tell the truth in any order of arrival: the frames reported
\* missing, less those that turned up late, are exactly the numbers up to the
\* high-water mark the ground has not observed, and accepted_packet_count is
\* the number of packet rows.
GapsAccounted ==
    /\ acceptedCount = Cardinality(Received)
    /\ IF highWater = None THEN missingCount = 0
       ELSE missingCount - Cardinality(Late)
              = Cardinality((0..highWater) \ Received)

\* decide_sequence and the inline rules of storage.py give the same decision
\* for every frame that may arrive next.
RulesAgree ==
    \A s \in SequenceNumbers :
        LET d == decide_sequence(highWater, s, "absent") IN
        /\ d.disposition = StorageName(s, StorageDisposition(highWater, s))
        /\ d.missing = StorageMissingBefore(highWater, s)
        /\ d.advances = StorageAdvances(highWater, s)
        /\ d.next_high_water = StorageNextHighWater(highWater, s)
=============================================================================
