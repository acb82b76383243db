---------------------------- MODULE FrameJourney ----------------------------
(***************************************************************************)
(* One telemetry frame from the measurement to its stored result: encoded  *)
(* by the payload simulator or another source, carried as bytes, recorded  *)
(* and judged by ground-api, decoded once more and assessed by the worker. *)
(*                                                                         *)
(* record_delivery stores the time of receipt with the receipt; the handler *)
(* then validates against the time it read itself.  The two differ when a  *)
(* delivery was recorded, its handler ended early, and a retransmission    *)
(* under the same request identifier resumes it (the receipt keeps its     *)
(* first time).  The worker uses the time stored with the receipt.         *)
(***************************************************************************)
EXTENDS FrameCodec

CONSTANTS
    Measurements,  \* requests to the simulator: [temperature, voltage (tenths
                   \* of a wire unit), mode, faults, boot, sequence]
    ForeignFrames, \* frames of other sources, as records of all wire fields
    SampleTimes,   \* clock readings of the payload
    GroundTimes,   \* clock readings of ground-api and worker
    None           \* not there yet

\* What TelemetryRequest admits, with a boot and a sequence number that the
\* simulator keeps within their fields.
IsRequest(m) ==
    /\ m.temperature \in Int /\ -100000 <= m.temperature
    /\ m.temperature <= 150000
    /\ m.voltage \in Nat /\ m.voltage <= 500000
    /\ m.mode \in 0 .. 3
    /\ m.faults \in 0 .. 63
    /\ Fits(m.boot, CounterBytes) /\ m.boot >= 1
    /\ Fits(m.sequence, CounterBytes)

ASSUME JourneyAssumption ==
    /\ \A m \in Measurements : IsRequest(m)
    /\ \A f \in ForeignFrames : Packable(f)
    /\ \A t \in SampleTimes : Fits(t, TimeBytes)
    /\ GroundTimes \subseteq Nat

VARIABLES
    stage,       \* how far the frame has come
    source,      \* who made the frame: the simulator's mode, or "FOREIGN"
    measured,    \* what the simulator was asked to encode
    frame,       \* the values that were encoded
    made,        \* the bytes as their source sent them
    raw,         \* the bytes as they arrived; receipt.raw_body
    receivedAt,  \* receipt.received_at
    judgedAt,    \* the time the judging handler read
    verdict,     \* what decode_telemetry said to ground-api
    result       \* what the worker stored

journeyVars == <<stage, source, measured, frame, made, raw, receivedAt,
                 judgedAt, verdict, result>>

JourneyInit ==
    /\ stage = "start"
    /\ source = None
    /\ measured = None
    /\ frame = None
    /\ made = <<>>
    /\ raw = <<>>
    /\ receivedAt = None
    /\ judgedAt = None
    /\ verdict = None
    /\ result = None

\* The frame make_frame fills in for a request at the payload time t.
FrameOf(m, t) ==
    [protocol_version |-> 1, payload_id |-> 1, boot_id |-> m.boot,
     sequence_number |-> m.sequence, timestamp_us |-> t,
     temperature_centi_c |-> Scaled(m.temperature),
     voltage_mv |-> Scaled(m.voltage), operating_mode |-> m.mode,
     fault_flags |-> m.faults]

Send(by, m, f, bytes) ==
    /\ stage = "start"
    /\ stage' = "sent"
    /\ source' = by
    /\ measured' = m
    /\ frame' = f
    /\ made' = bytes
    /\ raw' = bytes
    /\ UNCHANGED <<receivedAt, judgedAt, verdict, result>>

\* The encoder refuses a clock before the project epoch; the simulator's
\* ranges leave it nothing else to refuse.
Simulate(m, t, mode) ==
    /\ t >= ProjectEpoch
    /\ LET f == FrameOf(m, t)
       IN  Send(mode, m, f, ApplyWireFailure(encode_telemetry(f), mode))

\* Another source sends a frame with a right checksum and any field values.
SendForeign(f) == Send("FOREIGN", None, f, encode_telemetry(f))

\* On the way one byte of a sound frame changes, the last is lost, one is
\* added, or all are lost.
Distort ==
    /\ stage = "sent"
    /\ raw = made
    /\ source \in {"NONE", "FOREIGN"}
    /\ \/ \E i \in DOMAIN raw, d \in {1, 128} :
            raw' = [raw EXCEPT ![i] = (@ + d) % 256]
       \/ raw' \in {<<>>, Front(raw), Append(raw, 0)}
    /\ UNCHANGED <<stage, source, measured, frame, made, receivedAt,
                   judgedAt, verdict,
                   result>>

\* record_delivery keeps bytes and time of receipt before anything is judged.
Record(t) ==
    /\ stage = "sent"
    /\ stage' = "recorded"
    /\ receivedAt' = t
    /\ judgedAt' = t
    /\ UNCHANGED <<source, measured, frame, made, raw, verdict, result>>

\* The handler ends before its verdict (a stop, a failed call), and the same
\* request arrives again: a handler with a clock of its own finds the receipt.
Resume(t) ==
    /\ stage = "recorded"
    /\ judgedAt = receivedAt
    /\ t > receivedAt
    /\ judgedAt' = t
    /\ UNCHANGED <<stage, source, measured, frame, made, raw,
                   receivedAt, verdict, result>>

Judge ==
    /\ stage = "recorded"
    /\ stage' = "judged"
    /\ verdict' = decode_telemetry(raw, judgedAt)
    /\ UNCHANGED <<source, measured, frame, made, raw, receivedAt,
                   judgedAt, result>>

\* The work on a claimed job, with the bytes and the time of the receipt: an
\* exception is a failed attempt, and the same for every attempt.
Processed(time) ==
    LET again == decode_telemetry(raw, time)
    IN  IF again.reason # "NONE" \/ again # verdict THEN [state |-> "FAILED"]
        ELSE [state |-> "COMPLETE", values |-> again.frame,
              health |-> assess_health(again.frame, time)]

\* Mutant: the worker would take its own clock for the time of receipt.
ProcessAtOwnTime(t) ==
    /\ stage = "judged"
    /\ verdict.reason = "NONE"
    /\ t >= judgedAt
    /\ stage' = "processed"
    /\ result' = Processed(t)
    /\ UNCHANGED <<source, measured, frame, made, raw, receivedAt,
                   judgedAt, verdict>>

\* A worker takes the accepted packet at any later time t.
Process(t) ==
    /\ stage = "judged"
    /\ verdict.reason = "NONE"
    /\ t >= judgedAt
    /\ stage' = "processed"
    /\ result' = Processed(receivedAt)
    /\ UNCHANGED <<source, measured, frame, made, raw, receivedAt,
                   judgedAt, verdict>>

JourneyNext ==
    \/ \E m \in Measurements, t \in SampleTimes,
         mode \in {"NONE", "CORRUPT_CRC", "UNSUPPORTED_VERSION"} :
           Simulate(m, t, mode)
    \/ \E f \in ForeignFrames : SendForeign(f)
    \/ Distort
    \/ \E t \in GroundTimes : Record(t) \/ Resume(t) \/ Process(t)
    \/ Judge

JourneySpec == JourneyInit /\ [][JourneyNext]_journeyVars
-----------------------------------------------------------------------------
(* Reference definitions, from docs/INTERFACE_CONTROL_DOCUMENT.md.         *)

\* Section 7.1, steps 4 to 10, as a set of the numbers of broken rules; a
\* field can only be read from a frame of the right length.
BrokenRules(bytes, time) ==
    LET n == Len(bytes)
        sound == n = BodySize + CrcBytes
        f == UnpackBody(SubSeq(bytes, 1, BodySize))
    IN  {k \in 1 .. 12 :
          \/ k = 1 /\ n = 0
          \/ k = 2 /\ n > 0 /\ bytes[1] # 1
          \/ k = 3 /\ ~sound
          \/ k = 4 /\ sound /\ WithCrc(SubSeq(bytes, 1, BodySize)) # bytes
          \/ k = 5 /\ sound /\ f.payload_id \in {0} \cup 2 .. 255
          \/ k = 6 /\ sound /\ f.boot_id = 0
          \/ k = 7 /\ sound /\ ~(f.timestamp_us >= ProjectEpoch)
          \/ k = 8 /\ sound /\ ~(f.timestamp_us - time <= MaxFutureSkew)
          \/ k = 9 /\ sound /\ (f.temperature_centi_c < -10000
                                \/ f.temperature_centi_c > 15000)
          \/ k = 10 /\ sound /\ f.voltage_mv > 50000
          \/ k = 11 /\ sound /\ f.operating_mode \in 4 .. 255
          \/ k = 12 /\ sound /\ (f.fault_flags >= 128
                                 \/ f.fault_flags % 128 >= 64)}

RuleNames ==
    <<"EMPTY_BODY", "UNSUPPORTED_PROTOCOL_VERSION", "INVALID_FRAME_LENGTH",
      "CRC_MISMATCH", "UNSUPPORTED_PAYLOAD_ID", "INVALID_BOOT_ID",
      "TIMESTAMP_BEFORE_PROJECT_EPOCH", "TIMESTAMP_TOO_FAR_IN_FUTURE",
      "TEMPERATURE_OUT_OF_RANGE", "VOLTAGE_OUT_OF_RANGE",
      "INVALID_OPERATING_MODE", "RESERVED_FAULT_BITS_SET">>

\* Section 6.8: the rows that make a sample critical, and at least a warning.
IsCritical(f) ==
    \/ f.temperature_centi_c < -4000 \/ f.temperature_centi_c >= 8500
    \/ f.voltage_mv < 22000 \/ f.voltage_mv > 34000
    \/ \E bit \in {8, 16, 32} : (f.fault_flags \div bit) % 2 = 1

IsNominal(f) ==
    /\ -2000 <= f.temperature_centi_c /\ f.temperature_centi_c < 6200
    /\ 26000 <= f.voltage_mv /\ f.voltage_mv <= 30000
    /\ \A bit \in {1, 2, 4, 8, 16, 32} : (f.fault_flags \div bit) % 2 = 0
-----------------------------------------------------------------------------
(* Properties.                                                             *)

JourneyTypeOK ==
    /\ stage \in {"start", "sent", "recorded", "judged", "processed"}
    /\ \A i \in DOMAIN raw : raw[i] \in 0 .. 255
    /\ receivedAt \in GroundTimes \cup {None}
    /\ judgedAt \in GroundTimes \cup {None}
    /\ stage \in {"judged", "processed"} => verdict # None
    /\ stage = "processed" <=> result # None

\* Whatever happens to the bytes on the way, an accepted frame carries exactly
\* the values its source encoded, with measurements within half a wire unit of
\* what was measured: packing, signs and checksum lose nothing
\* (encode_telemetry, _scaled, decode_telemetry).
AcceptedIsWhatWasSent ==
    verdict # None /\ verdict.reason = "NONE" =>
        /\ raw = made
        /\ source \in {"NONE", "FOREIGN"}
        /\ verdict.frame = frame
        /\ source = "NONE" =>
              /\ 10 * verdict.frame.temperature_centi_c - measured.temperature
                    \in -5 .. 5
              /\ 10 * verdict.frame.voltage_mv - measured.voltage \in -5 .. 5

\* A frame is rejected for the first rule, in the order of the interface
\* document, that it breaks, and accepted if it breaks none, also when several
\* fields are wrong at once (decode_telemetry, _validate_fields).
VerdictNamesFirstRule ==
    verdict # None =>
        LET broken == BrokenRules(raw, judgedAt)
        IN  verdict.reason = IF broken = {} THEN "NONE"
                             ELSE RuleNames[Min(broken)]

\* What the simulator makes of an admitted request, ground accepts if it arrives
\* unchanged and its clock is not too far ahead: the ranges of the request, the
\* rounding and the ranges of the frame fit together (TelemetryRequest, _scaled,
\* _validate_fields).
SoundSamplesAreAccepted ==
    /\ verdict # None
    /\ source = "NONE"
    /\ raw = made
    /\ frame.timestamp_us <= judgedAt + MaxFutureSkew
    => verdict.reason = "NONE"

\* A frame spoilt on purpose isolates the one condition it is meant to test
\* (_apply_wire_failure; a changed version has a right checksum).
SpoiltFramesBreakOneRule ==
    verdict # None /\ raw = made =>
        /\ source = "CORRUPT_CRC" => 4 = Min(BrokenRules(raw, judgedAt))
        /\ source = "UNSUPPORTED_VERSION" =>
              BrokenRules(raw, judgedAt) \cap 1 .. 4 = {2}

\* Severity and staleness of a stored result are those the tables of the
\* interface document give for the values and for the recorded time of
\* receipt, whenever the worker ran (assess_health, payload_worker).
ResultFollowsTables ==
    result # None /\ result.state = "COMPLETE" =>
        /\ result.health.classification =
             IF IsCritical(frame) THEN "CRITICAL"
             ELSE IF IsNominal(frame) THEN "NOMINAL" ELSE "WARNING"
        /\ result.health.is_stale <=> frame.timestamp_us + StaleAfter < receivedAt
        /\ result.values = verdict.frame

\* The worker refuses bytes that ground accepted only where a resumed delivery
\* was judged at a later time than the receipt records and the sample lies
\* between the two limits; everything else it completes.
WorkerRefusesOnlyResumed ==
    result # None =>
        (result.state = "FAILED" <=>
            /\ frame.timestamp_us > receivedAt + MaxFutureSkew
            /\ frame.timestamp_us <= judgedAt + MaxFutureSkew)
=============================================================================
