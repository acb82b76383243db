---------------------------- MODULE SequenceRules ----------------------------
(***************************************************************************)
(* The sequence decision for one decoded frame, twice: as decide_sequence  *)
(* of telemetry/sequence.py makes it and as _accept_packet_transaction of  *)
(* telemetry/storage.py makes it inline.  Only the second is on the        *)
(* running path; the first is the unit-tested one.                         *)
(*                                                                         *)
(* A frame is valid and was not seen before under its (payload, boot,      *)
(* sequence) key when the high-water mark is consulted; the decision for a *)
(* key that was seen is part of decide_sequence only and of the packet     *)
(* lookup in storage.py (module DeliveryLedger).                           *)
(***************************************************************************)
EXTENDS Integers

CONSTANTS
    Modulus,    \* size of the sequence number space: 2^32 in the code
    None        \* no high-water mark yet, no stored packet

\* Both sources halve the space exactly: HALF_RANGE = 1 << 31.
ASSUME ModulusAssumption ==
    /\ Modulus \in Nat \ {0}
    /\ Modulus % 2 = 0
    /\ None \notin Int

SequenceNumbers == 0..(Modulus - 1)
HalfRange == Modulus \div 2

\* (current_sequence - last_high_water) % UINT32_MODULUS; storage.py masks
\* with MAX_UINT32, which is the same on two's complement integers.
ForwardDistance(last, current) == (current - last) % Modulus

\* A decision: what it is called, whether the frame is accepted, becomes
\* work and moves the high-water mark, the mark afterwards, and how many
\* packets it reports as not observed.
Decision(name, accepted, queued, advances, highWater, missing) ==
    [disposition |-> name, accepted |-> accepted, should_queue |-> queued,
     advances |-> advances, next_high_water |-> highWater, missing |-> missing]

\* telemetry/sequence.py, decide_sequence.  `existing` tells whether the
\* permanent record for the key is absent, the same bytes or other bytes.
decide_sequence(last, current, existing) ==
    LET distance == ForwardDistance(last, current) IN
    CASE existing = "same" ->
           Decision("DUPLICATE", TRUE, FALSE, FALSE, last, 0)
      [] existing = "different" ->
           Decision("CONFLICT", FALSE, FALSE, FALSE, last, 0)
      [] existing = "absent" /\ last = None ->
           Decision(IF current = 0 THEN "FIRST_IN_ORDER" ELSE "FIRST_WITH_GAP",
                    TRUE, TRUE, TRUE, current, current)
      [] existing = "absent" /\ last # None /\ distance = 0 ->
           Decision("SequenceStateError", FALSE, FALSE, FALSE, last, 0)
      [] existing = "absent" /\ last # None /\ distance = 1 ->
           Decision("IN_ORDER", TRUE, TRUE, TRUE, current, 0)
      [] existing = "absent" /\ last # None /\ distance \in 2..(HalfRange - 1) ->
           Decision("GAP", TRUE, TRUE, TRUE, current, distance - 1)
      [] OTHER ->
           Decision("LATE_OR_OUT_OF_ORDER", TRUE, TRUE, FALSE, last, 0)

\* Mutant: the boundary of half the number space counts as a gap.
StorageDispositionWide(highWater, sequence) ==
    LET distance == ForwardDistance(highWater, sequence) IN
    IF highWater = None THEN "FIRST"
    ELSE IF distance = 0 THEN "SEQUENCE_STATE_CONFLICT"
    ELSE IF distance = 1 THEN "IN_ORDER"
    ELSE IF distance <= HalfRange THEN "GAP"
    ELSE "LATE"

\* telemetry/storage.py: the same decision taken inside the acceptance
\* transaction, for a key without a packet row.
StorageDisposition(highWater, sequence) ==
    LET distance == ForwardDistance(highWater, sequence) IN
    IF highWater = None THEN "FIRST"
    ELSE IF distance = 0 THEN "SEQUENCE_STATE_CONFLICT"
    ELSE IF distance = 1 THEN "IN_ORDER"
    ELSE IF distance < HalfRange THEN "GAP"
    ELSE "LATE"

\* Mutant: the frames before a first frame would not be counted.
StorageMissingAfterFirst(highWater, sequence) ==
    IF StorageDisposition(highWater, sequence) = "GAP"
    THEN ForwardDistance(highWater, sequence) - 1 ELSE 0

StorageMissingBefore(highWater, sequence) ==
    CASE StorageDisposition(highWater, sequence) = "FIRST" -> sequence
      [] StorageDisposition(highWater, sequence) = "GAP" ->
           ForwardDistance(highWater, sequence) - 1
      [] OTHER -> 0

\* Mutant: a late frame would move the mark backward.
StorageAlwaysAdvances(highWater, sequence) ==
    StorageDisposition(highWater, sequence) # "SEQUENCE_STATE_CONFLICT"

\* Which dispositions move the high-water mark of the sequence state row.
StorageAdvances(highWater, sequence) ==
    StorageDisposition(highWater, sequence) \in {"FIRST", "IN_ORDER", "GAP"}

StorageNextHighWater(highWater, sequence) ==
    IF StorageAdvances(highWater, sequence) THEN sequence ELSE highWater

\* The names decide_sequence and the interface document give to what
\* storage.py records.
StorageName(sequence, disposition) ==
    CASE disposition = "FIRST" ->
           IF sequence = 0 THEN "FIRST_IN_ORDER" ELSE "FIRST_WITH_GAP"
      [] disposition = "LATE" -> "LATE_OR_OUT_OF_ORDER"
      [] disposition = "SEQUENCE_STATE_CONFLICT" -> "SequenceStateError"
      [] OTHER -> disposition
=============================================================================
