---------------------------- MODULE MCFrameJourney ----------------------------
(* FrameJourney at the limits of every field: each measurement varies one  *)
(* or two fields, each foreign frame may be wrong in several at once.      *)
EXTENDS FrameJourney, TLC

Nominal == [temperature |-> 284000 \div 10, voltage |-> 281000, mode |-> 2,
            faults |-> 0, boot |-> 1, sequence |-> 0]

\* In tenths of a centidegree and of a millivolt.
MCMeasurements ==
    {[Nominal EXCEPT !.temperature = t] :
        t \in {-100000, -40005, -40004, -20005, -20004, -5, -4, 61994, 61995,
               84994, 84995, 150000}}
    \cup {[Nominal EXCEPT !.voltage = v] :
            v \in {0, 219994, 219995, 259995, 300004, 300005, 340005, 500000}}
    \cup {[Nominal EXCEPT !.temperature = t, !.voltage = v, !.faults = f] :
            t \in {62000, 85000}, v \in {210000, 250000}, f \in {0, 2, 16}}
    \cup {[Nominal EXCEPT !.faults = f, !.mode = m] :
            f \in {1, 7, 8, 63}, m \in {0, 3}}
    \cup {[Nominal EXCEPT !.boot = 255, !.sequence = q] : q \in {0, 1, 255}}

MCForeignFrames ==
    [protocol_version : {1}, payload_id : {0, 1}, boot_id : {0, 1},
     sequence_number : {7}, timestamp_us : {99, 162, 400},
     temperature_centi_c : {-10001, -10000, 15001},
     voltage_mv : {50000, 50001}, operating_mode : {3, 4},
     fault_flags : {63, 64, 200}]

MCSampleTimes == {99, 100, 135, 136, 165, 166, 168}
MCGroundTimes == {160, 162}
=============================================================================
