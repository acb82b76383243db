---------------------------- MODULE HealthStream ----------------------------
(***************************************************************************)
(* The legacy telemetry path: the spacecraft sends health samples over     *)
(* UDP, telemetry-ingest counts sequence gaps and publishes the samples,   *)
(* telemetry-processor stores them, checks their limits and raises alerts, *)
(* and ai-advisor comments on the alerts.                                  *)
(*                                                                         *)
(* Samples are numbered by Emit; their spacecraft numbers are 0 ..         *)
(* Modulus - 1 and start again after a restart.  A JetStream subject with  *)
(* its durable consumer is a sequence, as in CommandPath.  UDP may lose,   *)
(* double and reorder.  Rows and messages that repeat are kept once.       *)
(***************************************************************************)
EXTENDS Integers, Sequences

CONSTANTS
    Modulus,       \* size of the 14-bit number space
    AnomalyEvery,  \* SIM_ANOMALY_EVERY
    WheelSpeeds,   \* arguments of SET_WHEEL_RPM
    MaxSamples,    \* bound: samples sent in a behaviour
    MaxCommands,   \* bound: commands applied
    MaxFaults,     \* bound: failed calls, restarts, datagrams lost or doubled
    None           \* nothing observed yet

ASSUME HealthAssumption ==
    /\ Modulus \in Nat \ {0} /\ AnomalyEvery \in Nat /\ WheelSpeeds \subseteq Int
    /\ MaxSamples \in Nat /\ MaxCommands \in Nat /\ MaxFaults \in Nat
    /\ None \notin Int

VARIABLES
    craft,      \* SpacecraftState and tick; run and era number its restarts
                \* and its restarts and fault resets
    sent,       \* history: samples sent, in order
    flying,     \* flying[n]: datagrams of sample n in flight
    last,       \* SequenceTracker._last[APID_HEALTH]
    gaps,       \* counter GAPS of this run of the ingest
    observed,   \* history: samples this run of the ingest has observed
    healthQ,    \* telemetry.health
    published,  \* history: samples ever published there
    processor,  \* the callback process_health
    rows,       \* telemetry_health: samples stored
    alerts,     \* alerts: [n, parameter]
    alertQ,     \* alerts.limit
    processed,  \* telemetry.processed: samples published
    advisories, \* advisories.alert: alerts commented on
    commands, faults

spaceVars == <<craft, sent, commands>>
ingestVars == <<last, gaps, observed, published>>
processorVars == <<processor, rows, alerts, processed>>
healthVars == <<spaceVars, flying, ingestVars, healthQ, processorVars, alertQ,
                advisories, faults>>

Samples == 1 .. MaxSamples

ProcessorIdle == [pc |-> "idle"]

PoweredOn(run, era) ==
    [tick |-> 0, health_sequence |-> 0, wheel_rpm |-> 1200, fault_flags |-> 0,
     run |-> run, era |-> era]

HealthInit ==
    /\ craft = PoweredOn(0, 0)
    /\ sent = <<>>
    /\ flying = [n \in Samples |-> 0]
    /\ last = None
    /\ gaps = 0
    /\ observed = <<>>
    /\ healthQ = <<>>
    /\ published = {}
    /\ processor = ProcessorIdle
    /\ rows = {}
    /\ alerts = {}
    /\ alertQ = <<>>
    /\ processed = {}
    /\ advisories = {}
    /\ commands = 0
    /\ faults = 0

Fault == faults < MaxFaults /\ faults' = faults + 1
-----------------------------------------------------------------------------
(* The spacecraft: telemetry_loop, and what commands change of it.         *)

Anomaly == AnomalyEvery > 0 /\ (craft.tick + 1) % AnomalyEvery = 0

\* Mutant: the flag would show the anomaly of this sample only.
FlagsUnlatched == IF Anomaly THEN 1 ELSE 0

FlagsNow == IF Anomaly THEN 1 ELSE craft.fault_flags

NextSequence == (craft.health_sequence + 1) % Modulus

\* encode_health: tenths of volts and degrees become millivolts and hundredths.
EncodeHealth(volts, degrees) ==
    [sequence |-> craft.health_sequence, bus_mv |-> 100 * volts,
     battery_cc |-> 10 * degrees, wheel_rpm |-> craft.wheel_rpm,
     fault_flags |-> FlagsNow, run |-> craft.run, era |-> craft.era]

\* One round of the loop.  A nominal sample stands for the sine and the noise
\* around it.
Emit ==
    /\ Len(sent) < MaxSamples
    /\ sent' = Append(sent, IF Anomaly THEN EncodeHealth(228, 690)
                            ELSE EncodeHealth(284, 310))
    /\ flying' = [flying EXCEPT ![Len(sent) + 1] = 1]
    /\ craft' = [craft EXCEPT !.tick = @ + 1, !.fault_flags = FlagsNow,
                              !.health_sequence = NextSequence]
    /\ UNCHANGED <<commands, ingestVars, healthQ, processorVars, alertQ,
                   advisories, faults>>

\* SpacecraftState.apply between two rounds (SET_MODE leaves limits alone).
Commanded ==
    /\ commands < MaxCommands
    /\ commands' = commands + 1
    /\ \/ \E w \in WheelSpeeds : craft' = [craft EXCEPT !.wheel_rpm = w]
       \/ craft' = [craft EXCEPT !.fault_flags = 0, !.era = @ + 1]
    /\ UNCHANGED <<sent, flying, ingestVars, healthQ, processorVars, alertQ,
                   advisories, faults>>

\* A restart of the spacecraft, or a datagram lost or doubled.
SpaceFault ==
    /\ Fault
    /\ \/ craft' = PoweredOn(craft.run + 1, craft.era + 1) /\ UNCHANGED flying
       \/ \E n \in Samples : /\ flying[n] > 0
                             /\ flying' = [flying EXCEPT ![n] = @ - 1]
                             /\ UNCHANGED craft
       \/ \E n \in Samples : /\ flying[n] > 0
                             /\ flying' = [flying EXCEPT ![n] = @ + 1]
                             /\ UNCHANGED craft
    /\ UNCHANGED <<sent, commands, ingestVars, healthQ, processorVars, alertQ,
                   advisories>>
-----------------------------------------------------------------------------
(* telemetry-ingest.                                                       *)

\* Mutant: the number space would not wrap.
ObserveUnwrapped(current) ==
    IF last = None \/ current <= last THEN 0 ELSE current - (last + 1)

\* SequenceTracker.observe: numbers missing before current.
Observe(current) ==
    IF last = None THEN 0 ELSE (current - (last + 1)) % Modulus

\* _process: the tracker first, then the publish; if that fails the sample is
\* gone, or it is stored although the call failed.
Ingest(n) ==
    /\ flying[n] > 0
    /\ flying' = [flying EXCEPT ![n] = @ - 1]
    /\ gaps' = gaps + Observe(sent[n].sequence)
    /\ last' = sent[n].sequence
    /\ observed' = Append(observed, n)
    /\ \/ /\ healthQ' = Append(healthQ, n)
          /\ published' = published \cup {n}
          /\ UNCHANGED faults
       \/ Fault /\ UNCHANGED <<healthQ, published>>
    /\ UNCHANGED <<spaceVars, processorVars, alertQ, advisories>>

\* A restart forgets the tracker and the counter.
IngestRestarts ==
    /\ Fault
    /\ last' = None
    /\ gaps' = 0
    /\ observed' = <<>>
    /\ UNCHANGED <<spaceVars, flying, healthQ, published, processorVars, alertQ,
                   advisories>>
-----------------------------------------------------------------------------
(* telemetry-processor: process_health.                                    *)

\* One violation, if its test holds.
Violation(holds, parameter, severity) ==
    IF holds THEN <<[parameter |-> parameter, severity |-> severity]>> ELSE <<>>

\* evaluate_health: the violations of a sample, in the order of its tests.
evaluate_health(s) ==
    Violation(s.bus_mv < 24000, "bus_voltage_v", "CRITICAL")
    \o Violation(24000 <= s.bus_mv /\ s.bus_mv < 26000, "bus_voltage_v", "WARNING")
    \o Violation(s.battery_cc > 6500, "battery_temp_c", "CRITICAL")
    \o Violation(5500 < s.battery_cc /\ s.battery_cc <= 6500, "battery_temp_c", "WARNING")
    \o Violation(s.wheel_rpm > 5500 \/ -s.wheel_rpm > 5500, "wheel_rpm", "CRITICAL")
    \o Violation(s.fault_flags # 0, "fault_flags", "CRITICAL")

Found == evaluate_health(sent[processor.n])

\* The alert the loop over the violations is at.
Current == [n |-> processor.n, violation |-> Found[processor.i]]

\* After violation i: the next one, or the processed sample.
Following(i) ==
    [processor EXCEPT !.pc = IF i < Len(Found) THEN "alert" ELSE "publish",
                      !.i = i + 1]

Take ==
    /\ processor = ProcessorIdle
    /\ healthQ # <<>>
    /\ processor' = [pc |-> "insert", n |-> Head(healthQ), i |-> 0]
    /\ healthQ' = Tail(healthQ)
    /\ UNCHANGED <<spaceVars, flying, ingestVars, rows, alerts, alertQ, processed,
                   advisories, faults>>

InsertHealth ==
    /\ processor.pc = "insert"
    /\ rows' = rows \cup {processor.n}
    /\ processor' = Following(0)
    /\ UNCHANGED <<spaceVars, flying, ingestVars, healthQ, alerts, alertQ,
                   processed, advisories, faults>>

\* Mutant: an alert would be published before its row is written.
PublishAlertFirst ==
    /\ processor.pc = "alert"
    /\ alertQ' = Append(alertQ, Current)
    /\ processor' = [processor EXCEPT !.pc = "announce"]
    /\ UNCHANGED <<spaceVars, flying, ingestVars, healthQ, rows, alerts,
                   processed, advisories, faults>>

InsertAlert ==
    /\ processor.pc = "alert"
    /\ alerts' = alerts \cup {Current}
    /\ processor' = [processor EXCEPT !.pc = "announce"]
    /\ UNCHANGED <<spaceVars, flying, ingestVars, healthQ, rows, alertQ,
                   processed, advisories, faults>>

\* Mutant: an alert would wait until the advisor has taken the one before.
PublishAlertInStep ==
    /\ processor.pc = "announce"
    /\ alertQ = <<>>
    /\ alertQ' = <<Current>>
    /\ processor' = Following(processor.i)
    /\ UNCHANGED <<spaceVars, flying, ingestVars, healthQ, rows, alerts,
                   processed, advisories, faults>>

PublishAlert ==
    /\ processor.pc = "announce"
    /\ alertQ' = Append(alertQ, Current)
    /\ processor' = Following(processor.i)
    /\ UNCHANGED <<spaceVars, flying, ingestVars, healthQ, rows, alerts,
                   processed, advisories, faults>>

PublishProcessed ==
    /\ processor.pc = "publish"
    /\ processed' = processed \cup {processor.n}
    /\ processor' = [processor EXCEPT !.pc = "ack"]
    /\ UNCHANGED <<spaceVars, flying, ingestVars, healthQ, rows, alerts, alertQ,
                   advisories, faults>>

AckHealth ==
    /\ processor.pc = "ack"
    /\ processor' = ProcessorIdle
    /\ UNCHANGED <<spaceVars, flying, ingestVars, healthQ, rows, alerts, alertQ,
                   processed, advisories, faults>>

\* Mutant: a sample whose row is stored would not be delivered again.
FailKeepsStored ==
    /\ processor # ProcessorIdle
    /\ Fault
    /\ healthQ' = IF processor.n \in rows THEN healthQ
                  ELSE Append(healthQ, processor.n)
    /\ processor' = ProcessorIdle
    /\ UNCHANGED <<spaceVars, flying, ingestVars, rows, alerts, alertQ,
                   processed, advisories>>

\* A call raises and the handler naks, or the processor stops: the sample is
\* delivered again from the start.  A call that raised may have had its
\* effect; the steps above followed by this one are that case.
ProcessorFails ==
    /\ processor # ProcessorIdle
    /\ Fault
    /\ healthQ' = Append(healthQ, processor.n)
    /\ processor' = ProcessorIdle
    /\ UNCHANGED <<spaceVars, flying, ingestVars, rows, alerts, alertQ,
                   processed, advisories>>
-----------------------------------------------------------------------------
\* ai-advisor: advise.  The model answers and the advisory is published, or
\* some call fails, the publish perhaps done, and the alert comes again.
Advise ==
    /\ alertQ # <<>>
    /\ \/ /\ advisories' = advisories \cup {Head(alertQ)}
          /\ alertQ' = Tail(alertQ)
          /\ UNCHANGED faults
       \/ /\ Fault
          /\ advisories' \in {advisories, advisories \cup {Head(alertQ)}}
          /\ alertQ' = Append(Tail(alertQ), Head(alertQ))
    /\ UNCHANGED <<spaceVars, flying, ingestVars, healthQ, processorVars>>
-----------------------------------------------------------------------------
Process ==
    \/ Take \/ InsertHealth \/ InsertAlert \/ PublishAlert
    \/ PublishProcessed \/ AckHealth

HealthNext ==
    \/ Emit \/ Commanded \/ SpaceFault
    \/ \E n \in Samples : Ingest(n)
    \/ IngestRestarts
    \/ Process \/ ProcessorFails
    \/ Advise

\* The processor goes on with what it has; its container restarts by itself.
\* Nothing is assumed of the spacecraft, the link, the ingest and the advisor.
FairHealth == HealthInit /\ [][HealthNext]_healthVars /\ WF_healthVars(Process)
-----------------------------------------------------------------------------
(* Properties.                                                             *)

Violations(s) == {evaluate_health(s)[i] : i \in 1 .. Len(evaluate_health(s))}

AlertRecords ==
    [n : Samples,
     violation : [parameter : {"bus_voltage_v", "battery_temp_c", "wheel_rpm",
                               "fault_flags"},
                  severity : {"WARNING", "CRITICAL"}]]

HealthTypeOK ==
    /\ craft.health_sequence \in 0 .. Modulus - 1
    /\ craft.fault_flags \in {0, 1}
    /\ Len(sent) <= MaxSamples
    /\ flying \in [Samples -> Nat]
    /\ last \in (0 .. Modulus - 1) \cup {None}
    /\ gaps \in Nat
    /\ healthQ \in Seq(Samples)
    /\ processor = ProcessorIdle
       \/ processor \in [pc : {"insert", "alert", "announce", "publish", "ack"},
                         n : Samples, i : 0 .. 5]
    /\ rows \subseteq Samples /\ processed \subseteq Samples
    /\ alerts \subseteq AlertRecords /\ advisories \subseteq AlertRecords
    /\ alertQ \in Seq(AlertRecords)

\* While samples of one run of the spacecraft arrive in order, and fewer of them
\* than a number space are lost at once, the counter is the number of samples
\* between the first and the last observed one that did not arrive, across
\* wraparounds of the sequence number (observe).
GapsAreExact ==
    LET k == Len(observed)
    IN  /\ k > 0
        /\ \A i \in 1 .. k - 1 :
              /\ observed[i] < observed[i + 1]
              /\ observed[i + 1] - observed[i] <= Modulus
              /\ sent[observed[i]].run = sent[observed[i + 1]].run
        => gaps = observed[k] - observed[1] + 1 - k

\* A sample the ingest has published is waiting, in the processor's hands, or
\* stored with an alert for each violated limit and published as processed:
\* no failed call and no restart loses part of it (process_health acks last).
PublishedIsHandled ==
    \A n \in published :
        \/ \E i \in 1 .. Len(healthQ) : healthQ[i] = n
        \/ processor # ProcessorIdle /\ processor.n = n
        \/ /\ n \in rows \cap processed
           /\ \A v \in Violations(sent[n]) : [n |-> n, violation |-> v] \in alerts

\* An alert row has its sample stored and really broken, and what is announced
\* or commented on is an alert row: operators can look up every alert they
\* hear of, at any moment (process_health, advise).
AlertsAreBacked ==
    /\ \A a \in alerts : a.n \in rows /\ a.violation \in Violations(sent[a.n])
    /\ \A i \in 1 .. Len(alertQ) : alertQ[i] \in alerts
    /\ advisories \subseteq alerts

\* An anomaly shows in every later sample until a reset or a restart, so it is
\* alerted even when the datagrams of the anomaly itself are lost; a wheel
\* beyond 5500 rpm is alerted in either direction.
HazardsAreAlerted ==
    \A m \in processed :
        /\ (\E n \in 1 .. m : /\ sent[n].bus_mv = 22800
                              /\ sent[n].era = sent[m].era)
           => \E a \in alerts : a.n = m /\ a.violation.parameter = "fault_flags"
        /\ sent[m].wheel_rpm > 5500 \/ sent[m].wheel_rpm < -5500
           => \E a \in alerts : a.n = m /\ a.violation.parameter = "wheel_rpm"

\* Every published sample is processed, whatever the advisor does (it may be
\* down for good): deterministic telemetry and alerts go on.
ProcessedWithoutAdvisor ==
    \A n \in Samples : n \in published ~> n \in processed
=============================================================================
