----------------------------- MODULE FrameCodec -----------------------------
(***************************************************************************)
(* The binary telemetry frame and its health assessment: telemetry/codec.py *)
(* and telemetry/health.py, and the conversions the payload simulator makes *)
(* around them.  Pure functions, written as operators over byte sequences. *)
(*                                                                         *)
(* The 32- and 64-bit fields are narrowed to CounterBytes and TimeBytes, as *)
(* TLC's integers have 32 bits; temperature, voltage, mode and flags keep  *)
(* their widths.  Times count from an origin before the project epoch.     *)
(***************************************************************************)
EXTENDS Integers, Sequences, SequencesExt, FiniteSetsExt

CONSTANTS
    CounterBytes,   \* bytes of boot_id and of sequence_number (4)
    TimeBytes,      \* bytes of timestamp_us (8)
    ProjectEpoch,   \* PROJECT_EPOCH_US
    MaxFutureSkew,  \* MAX_FUTURE_SKEW_US
    StaleAfter      \* STALE_AFTER_US

ASSUME CodecAssumption ==
    /\ CounterBytes \in 1 .. 4
    /\ TimeBytes \in 1 .. 8
    /\ {ProjectEpoch, MaxFutureSkew, StaleAfter} \subseteq Nat
-----------------------------------------------------------------------------
(* The wire format.                                                        *)

Byte == 0 .. 255

\* The bytes of the widest field.
MaxBytes == 8

\* TELEMETRY_V1_BODY is ">BBIIQhHBB".
BodySize == 2 + 2 * CounterBytes + TimeBytes + 6

CrcBytes == 1

\* The number without its k low bytes.
Shifted(value, k) ==
    LET shift[j \in 0 .. MaxBytes] ==
            IF j = 0 THEN value ELSE shift[j - 1] \div 256
    IN  shift[k]

\* The numbers an unsigned field of this many bytes can hold.
Fits(value, size) == value \in Nat /\ Shifted(value, size) = 0

\* struct.pack of an unsigned number, most significant byte first.
Pack(value, size) == [i \in 1 .. size |-> Shifted(value, size - i) % 256]

Unpack(bytes) ==
    LET value[i \in 0 .. Len(bytes)] ==
            IF i = 0 THEN 0 ELSE 256 * value[i - 1] + bytes[i]
    IN  value[Len(bytes)]

\* zlib.crc32: of it is used that a change within one byte changes it.
Crc(bytes) ==
    LET sum[i \in 0 .. Len(bytes)] ==
            IF i = 0 THEN 255 ELSE (3 * sum[i - 1] + bytes[i]) % 256
    IN  sum[Len(bytes)]

\* Format "h": sixteen bits in two's complement.
ToUnsigned(n) == IF n < 0 THEN n + 65536 ELSE n

\* Mutant: the field would be read with format "H".
AsUnsigned(n) == n

ToSigned(n) == IF n >= 32768 THEN n - 65536 ELSE n

\* What TelemetryFrame can carry in the fields of the format.
Packable(frame) ==
    /\ frame \in [protocol_version : Byte, payload_id : Byte, boot_id : Nat,
                  sequence_number : Nat, timestamp_us : Nat,
                  temperature_centi_c : Int, voltage_mv : Nat,
                  operating_mode : Byte, fault_flags : Byte]
    /\ Fits(frame.boot_id, CounterBytes)
    /\ Fits(frame.sequence_number, CounterBytes)
    /\ Fits(frame.timestamp_us, TimeBytes)
    /\ -32768 <= frame.temperature_centi_c
    /\ frame.temperature_centi_c <= 32767
    /\ frame.voltage_mv <= 65535

PackBody(frame) ==
    Pack(frame.protocol_version, 1) \o Pack(frame.payload_id, 1)
      \o Pack(frame.boot_id, CounterBytes)
      \o Pack(frame.sequence_number, CounterBytes)
      \o Pack(frame.timestamp_us, TimeBytes)
      \o Pack(ToUnsigned(frame.temperature_centi_c), 2)
      \o Pack(frame.voltage_mv, 2)
      \o Pack(frame.operating_mode, 1) \o Pack(frame.fault_flags, 1)

\* The number in the given count of bytes after the first skip ones.
FieldAt(body, skip, size) == Unpack(SubSeq(body, skip + 1, skip + size))

UnpackBody(body) ==
    LET c == CounterBytes
        rest == 2 + 2 * c + TimeBytes
    IN  [protocol_version |-> FieldAt(body, 0, 1),
         payload_id |-> FieldAt(body, 1, 1),
         boot_id |-> FieldAt(body, 2, c),
         sequence_number |-> FieldAt(body, 2 + c, c),
         timestamp_us |-> FieldAt(body, 2 + 2 * c, TimeBytes),
         temperature_centi_c |-> ToSigned(FieldAt(body, rest, 2)),
         voltage_mv |-> FieldAt(body, rest + 2, 2),
         operating_mode |-> FieldAt(body, rest + 4, 1),
         fault_flags |-> FieldAt(body, rest + 5, 1)]

WithCrc(body) == body \o Pack(Crc(body), CrcBytes)
-----------------------------------------------------------------------------
(* Validation.                                                             *)

\* Mutant: the mode would be tested before the times and the ranges.
FieldFaultModeFirst(frame, received_at) ==
    IF frame.protocol_version # 1 THEN "UNSUPPORTED_PROTOCOL_VERSION"
    ELSE IF frame.payload_id # 1 THEN "UNSUPPORTED_PAYLOAD_ID"
    ELSE IF frame.boot_id < 1 THEN "INVALID_BOOT_ID"
    ELSE IF frame.operating_mode \notin 0 .. 3 THEN "INVALID_OPERATING_MODE"
    ELSE IF frame.timestamp_us < ProjectEpoch
         THEN "TIMESTAMP_BEFORE_PROJECT_EPOCH"
    ELSE IF frame.timestamp_us > received_at + MaxFutureSkew
         THEN "TIMESTAMP_TOO_FAR_IN_FUTURE"
    ELSE IF ~(-10000 <= frame.temperature_centi_c
              /\ frame.temperature_centi_c <= 15000)
         THEN "TEMPERATURE_OUT_OF_RANGE"
    ELSE IF ~(0 <= frame.voltage_mv /\ frame.voltage_mv <= 50000)
         THEN "VOLTAGE_OUT_OF_RANGE"
    ELSE IF frame.fault_flags \div 64 # 0 THEN "RESERVED_FAULT_BITS_SET"
    ELSE "NONE"

\* _validate_fields: the reason of the first test that fails.  That the
\* numbers fit their fields is also tested there; a decoded frame's do.
FieldFault(frame, received_at) ==
    IF frame.protocol_version # 1 THEN "UNSUPPORTED_PROTOCOL_VERSION"
    ELSE IF frame.payload_id # 1 THEN "UNSUPPORTED_PAYLOAD_ID"
    ELSE IF frame.boot_id < 1 THEN "INVALID_BOOT_ID"
    ELSE IF frame.timestamp_us < ProjectEpoch
         THEN "TIMESTAMP_BEFORE_PROJECT_EPOCH"
    ELSE IF frame.timestamp_us > received_at + MaxFutureSkew
         THEN "TIMESTAMP_TOO_FAR_IN_FUTURE"
    ELSE IF ~(-10000 <= frame.temperature_centi_c
              /\ frame.temperature_centi_c <= 15000)
         THEN "TEMPERATURE_OUT_OF_RANGE"
    ELSE IF ~(0 <= frame.voltage_mv /\ frame.voltage_mv <= 50000)
         THEN "VOLTAGE_OUT_OF_RANGE"
    ELSE IF frame.operating_mode \notin 0 .. 3 THEN "INVALID_OPERATING_MODE"
    ELSE IF frame.fault_flags \div 64 # 0 THEN "RESERVED_FAULT_BITS_SET"
    ELSE "NONE"

Accepted(frame) == [reason |-> "NONE", frame |-> frame]
Rejected(reason) == [reason |-> reason]

ValidateFields(frame, received_at) ==
    LET fault == FieldFault(frame, received_at)
    IN  IF fault = "NONE" THEN Accepted(frame) ELSE Rejected(fault)

\* Mutant: the length would be tested after the checksum only.
DecodeWithoutLength(raw, received_at) ==
    IF raw = <<>> THEN Rejected("EMPTY_BODY")
    ELSE IF raw[1] # 1 THEN Rejected("UNSUPPORTED_PROTOCOL_VERSION")
    ELSE IF Len(raw) < BodySize + CrcBytes THEN Rejected("INVALID_FRAME_LENGTH")
    ELSE LET body == SubSeq(raw, 1, BodySize)
         IN  IF SubSeq(raw, BodySize + 1, BodySize + CrcBytes)
                  # Pack(Crc(body), CrcBytes)
             THEN Rejected("CRC_MISMATCH")
             ELSE ValidateFields(UnpackBody(body), received_at)

\* decode_telemetry.
decode_telemetry(raw, received_at) ==
    IF raw = <<>> THEN Rejected("EMPTY_BODY")
    ELSE IF raw[1] # 1 THEN Rejected("UNSUPPORTED_PROTOCOL_VERSION")
    ELSE IF Len(raw) # BodySize + CrcBytes THEN Rejected("INVALID_FRAME_LENGTH")
    ELSE LET body == SubSeq(raw, 1, BodySize)
         IN  IF SubSeq(raw, BodySize + 1, Len(raw)) # Pack(Crc(body), CrcBytes)
             THEN Rejected("CRC_MISMATCH")
             ELSE ValidateFields(UnpackBody(body), received_at)

\* encode_telemetry, for values that pass _validate_fields.
encode_telemetry(frame) == WithCrc(PackBody(frame))
-----------------------------------------------------------------------------
(* What the simulator does around the encoder.                             *)

\* _scaled, from tenths of a wire unit to wire units: rounded to
\* the nearest, halves away from zero (ROUND_HALF_UP).
Scaled(tenths) ==
    IF tenths >= 0 THEN (tenths + 5) \div 10 ELSE -((5 - tenths) \div 10)

\* Flip the lowest bit of a byte.
FlipLow(byte) == IF byte % 2 = 0 THEN byte + 1 ELSE byte - 1

\* Mutant: the checksum would not follow the changed version.
WireFailureOldCrc(raw, mode) ==
    CASE mode = "CORRUPT_CRC" -> [raw EXCEPT ![Len(raw)] = FlipLow(@)]
      [] mode = "UNSUPPORTED_VERSION" -> [raw EXCEPT ![1] = 2]
      [] OTHER -> raw

\* _apply_wire_failure: spoil the checksum, or change the version and compute
\* the checksum anew.
ApplyWireFailure(raw, mode) ==
    CASE mode = "CORRUPT_CRC" -> [raw EXCEPT ![Len(raw)] = FlipLow(@)]
      [] mode = "UNSUPPORTED_VERSION" ->
            WithCrc(SubSeq([raw EXCEPT ![1] = 2], 1, BodySize))
      [] OTHER -> raw
-----------------------------------------------------------------------------
(* Health.                                                                 *)

Severities == <<"NOMINAL", "WARNING", "CRITICAL">>

\* Mutant: the upper limit of a band would belong to the lower one.
TemperatureUpToLimit(t) ==
    IF t < -4000 \/ t > 8500 THEN "CRITICAL"
    ELSE IF t < -2000 \/ t > 6200 THEN "WARNING" ELSE "NOMINAL"

classify_temperature(t) ==
    IF t < -4000 \/ t >= 8500 THEN "CRITICAL"
    ELSE IF t < -2000 \/ t >= 6200 THEN "WARNING" ELSE "NOMINAL"

classify_voltage(v) ==
    IF v < 22000 \/ v > 34000 THEN "CRITICAL"
    ELSE IF v < 26000 \/ v > 30000 THEN "WARNING" ELSE "NOMINAL"

\* The three upper defined bits are critical, the three lower ones a warning.
classify_faults(flags) ==
    IF flags \div 8 # 0 THEN "CRITICAL"
    ELSE IF flags # 0 THEN "WARNING" ELSE "NOMINAL"

IsStale(timestamp_us, received_at) == received_at - timestamp_us > StaleAfter

\* max over the severity rank.
MostSevere(S) ==
    Severities[Max({i \in DOMAIN Severities : Severities[i] \in S})]

assess_health(frame, received_at) ==
    [classification |-> MostSevere({classify_temperature(frame.temperature_centi_c),
                                    classify_voltage(frame.voltage_mv),
                                    classify_faults(frame.fault_flags)}),
     is_stale |-> IsStale(frame.timestamp_us, received_at)]
=============================================================================
