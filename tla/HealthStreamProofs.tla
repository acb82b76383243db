-------------------------- MODULE HealthStreamProofs --------------------------
(***************************************************************************)
(* The legacy telemetry path for any number space, any number of samples   *)
(* and commands, and any number of faults.  The inductive invariant,       *)
(* HealthInv, has one part per process: what the spacecraft has sent and   *)
(* will send next, what the ingest's tracker stands for, and how far the   *)
(* processor is with its sample.                                           *)
(***************************************************************************)
EXTENDS HealthStream, TLAPS

USE HealthAssumption

Numbers == 0 .. (Modulus - 1)

Craft == [tick : Nat, health_sequence : Numbers, wheel_rpm : Int,
          fault_flags : {0, 1}, run : Nat, era : Nat]

SampleRecords == [sequence : Numbers, bus_mv : Nat, battery_cc : Nat, wheel_rpm : Int,
                  fault_flags : {0, 1}, run : Nat, era : Nat]

\* The sequence number k samples after one with number q, for k up to Modulus.
Wrapped(q, k) == IF q + k < Modulus THEN q + k ELSE q + k - Modulus

\* A flag is latched and numbers follow each other, in what was sent and between
\* that and the spacecraft.
CraftOK ==
    /\ craft \in Craft /\ sent \in Seq(SampleRecords) /\ Len(sent) <= MaxSamples
    /\ \A n \in 1 .. Len(sent) :
          /\ sent[n].run <= craft.run /\ sent[n].era <= craft.era
          /\ sent[n].bus_mv = 22800 /\ sent[n].era = craft.era
                => craft.fault_flags = 1
          /\ sent[n].run = craft.run /\ Len(sent) + 1 - n <= Modulus
                => craft.health_sequence = Wrapped(sent[n].sequence, Len(sent) + 1 - n)
    /\ \A m \in 1 .. Len(sent) : \A n \in 1 .. m :
          /\ sent[n].bus_mv = 22800 /\ sent[n].era = sent[m].era
                => sent[m].fault_flags = 1
          /\ n < m /\ sent[n].run = sent[m].run /\ m - n <= Modulus
                => sent[m].sequence = Wrapped(sent[n].sequence, m - n)

\* Only what was sent is in flight or observed, and the tracker holds the number
\* of the last sample observed.
IngestOK ==
    /\ flying \in [Samples -> Nat]
    /\ \A n \in Samples : flying[n] > 0 => n <= Len(sent)
    /\ observed \in Seq(Nat)
    /\ \A i \in 1 .. Len(observed) : observed[i] \in 1 .. Len(sent)
    /\ gaps \in Nat
    /\ Len(observed) = 0 => last = None /\ gaps = 0
    /\ Len(observed) > 0 => last = sent[observed[Len(observed)]].sequence
    /\ GapsAreExact

\* The violations of sample n, and the first k of them raised as alerts.
Violated(n) == evaluate_health(sent[n])

Raised(n, k) ==
    \A j \in 1 .. k : [n |-> n, violation |-> Violated(n)[j]] \in alerts

Stages == {"insert", "alert", "announce", "publish", "ack"}

Hands == [pc : Stages, n : Nat, i : Nat]

\* How far the processor is with its sample.
Progress(p) ==
    /\ p \in Hands /\ p.n \in published
    /\ p.pc # "insert" => p.n \in rows
    /\ p.pc = "alert" => p.i \in 1 .. Len(Violated(p.n)) /\ Raised(p.n, p.i - 1)
    /\ p.pc = "announce" => p.i \in 1 .. Len(Violated(p.n)) /\ Raised(p.n, p.i)
    /\ p.pc \in {"publish", "ack"} => Raised(p.n, Len(Violated(p.n)))
    /\ p.pc = "ack" => p.n \in processed

Waiting(n) == \E i \in 1 .. Len(healthQ) : healthQ[i] = n

InHand(n) == processor # ProcessorIdle /\ processor.n = n

\* Stored, alerted and published.
Complete(n) == n \in rows /\ n \in processed /\ Raised(n, Len(Violated(n)))

ProcessorOK ==
    /\ published \subseteq 1 .. Len(sent) /\ rows \subseteq published
    /\ healthQ \in Seq(Nat)
    /\ \A i \in 1 .. Len(healthQ) : healthQ[i] \in published
    /\ processor = ProcessorIdle \/ Progress(processor)
    /\ \A n \in processed : Complete(n)
    /\ \A n \in published : Waiting(n) \/ InHand(n) \/ Complete(n)

\* The alert rows and what became of them.
AlertsOK ==
    /\ \A a \in alerts : /\ a.n \in rows
                         /\ \E j \in 1 .. Len(Violated(a.n)) : a.violation = Violated(a.n)[j]
    /\ alertQ \in Seq(alerts)
    /\ advisories \subseteq alerts

\* The inductive invariant.
HealthInv == CraftOK /\ IngestOK /\ ProcessorOK /\ AlertsOK
-----------------------------------------------------------------------------
(* The spacecraft.                                                         *)

\* Sent samples stay.
Extends ==
    /\ sent' \in Seq(SampleRecords) /\ Len(sent) <= Len(sent')
    /\ \A n \in 1 .. Len(sent) : sent'[n] = sent[n]

\* A step that sends nothing.
LEMMA NothingSent ==
    ASSUME CraftOK, UNCHANGED sent
    PROVE  Extends
BY DEF CraftOK, Extends

\* A sample that was sent is a sample record.
LEMMA SentTypes ==
    ASSUME CraftOK
    PROVE  /\ sent \in Seq(SampleRecords) /\ Len(sent) \in Nat
           /\ \A n \in 1 .. Len(sent) :
                 /\ sent[n] \in SampleRecords
                 /\ sent[n].sequence \in Numbers /\ sent[n].wheel_rpm \in Int
                 /\ sent[n].fault_flags \in {0, 1}
                 /\ sent[n].run \in Nat /\ sent[n].era \in Nat
<1>1. sent \in Seq(SampleRecords)
  BY DEF CraftOK
<1>2. \A n \in 1 .. Len(sent) : sent[n] \in SampleRecords
  BY <1>1
<1>3. \A s \in SampleRecords :
         /\ s.sequence \in Numbers /\ s.wheel_rpm \in Int /\ s.fault_flags \in {0, 1}
         /\ s.run \in Nat /\ s.era \in Nat
  BY DEF SampleRecords
<1> QED BY <1>1, <1>2, <1>3

\* The fields of the spacecraft, and what a step puts into them.
LEMMA CraftFields ==
    ASSUME NEW c \in Craft
    PROVE  /\ c.tick \in Nat /\ c.health_sequence \in Numbers /\ c.wheel_rpm \in Int
           /\ c.fault_flags \in {0, 1} /\ c.run \in Nat /\ c.era \in Nat
BY DEF Craft

LEMMA CraftWrites ==
    ASSUME NEW c \in Craft, NEW t \in Nat, NEW f \in {0, 1}, NEW h \in Numbers, NEW e \in Nat
    PROVE  /\ [c EXCEPT !.tick = t, !.fault_flags = f, !.health_sequence = h] \in Craft
           /\ [c EXCEPT !.fault_flags = f, !.era = e] \in Craft
BY DEF Craft

\* What one round of telemetry_loop sends.
LEMMA EmitEffect ==
    ASSUME CraftOK, Emit
    PROVE  /\ Extends /\ Len(sent') = Len(sent) + 1 /\ Len(sent') <= MaxSamples
           /\ craft' \in Craft /\ FlagsNow \in {0, 1}
           /\ craft'.fault_flags = FlagsNow /\ craft'.health_sequence = NextSequence
           /\ craft'.run = craft.run /\ craft'.era = craft.era
           /\ LET s == sent'[Len(sent')] IN
              /\ s.sequence = craft.health_sequence /\ s.fault_flags = FlagsNow
              /\ s.run = craft.run /\ s.era = craft.era
              /\ s.bus_mv = 22800 => FlagsNow = 1
              /\ craft.fault_flags = 1 => FlagsNow = 1
<1>1. /\ craft \in Craft /\ sent \in Seq(SampleRecords) /\ Len(sent) < MaxSamples
      /\ sent' = Append(sent, IF Anomaly THEN EncodeHealth(228, 690)
                              ELSE EncodeHealth(284, 310))
      /\ craft' = [craft EXCEPT !.tick = @ + 1, !.fault_flags = FlagsNow,
                                !.health_sequence = NextSequence]
  BY DEF CraftOK, Emit
<1>2. /\ FlagsNow \in {0, 1} /\ (Anomaly => FlagsNow = 1)
      /\ craft.fault_flags = 1 => FlagsNow = 1
  BY <1>1 DEF FlagsNow, Craft
<1>3. NextSequence \in Numbers
  BY <1>1 DEF NextSequence, Numbers, Craft
<1>4. /\ craft' \in Craft /\ craft'.fault_flags = FlagsNow
      /\ craft'.health_sequence = NextSequence
      /\ craft'.run = craft.run /\ craft'.era = craft.era
  <2> craft \in Craft
    BY <1>1
  <2>1. craft.tick + 1 \in Nat /\ craft.era \in Nat
    <3>1. craft.tick \in Nat /\ craft.era \in Nat
      BY CraftFields
    <3> QED BY <3>1
  <2>2. craft' = [craft EXCEPT !.tick = craft.tick + 1, !.fault_flags = FlagsNow,
                               !.health_sequence = NextSequence]
    BY <1>1
  <2>3. craft' \in Craft
    BY <1>2, <1>3, <2>1, <2>2, CraftWrites
  <2>4. /\ craft'.fault_flags = FlagsNow /\ craft'.health_sequence = NextSequence
        /\ craft'.run = craft.run /\ craft'.era = craft.era
    BY <1>1, <2>2 DEF Craft
  <2> QED BY <2>3, <2>4
<1>5. PICK s \in SampleRecords :
         /\ sent' = Append(sent, s)
         /\ s.sequence = craft.health_sequence /\ s.fault_flags = FlagsNow
         /\ s.run = craft.run /\ s.era = craft.era
         /\ s.bus_mv = 22800 => Anomaly
  <2>1. CASE Anomaly
    <3>1. sent' = Append(sent, EncodeHealth(228, 690))
      BY <1>1, <2>1
    <3>2. EncodeHealth(228, 690) \in SampleRecords
      BY <1>1, <1>2 DEF EncodeHealth, SampleRecords, Craft
    <3> QED BY <2>1, <3>1, <3>2 DEF EncodeHealth
  <2>2. CASE ~ Anomaly
    <3>1. sent' = Append(sent, EncodeHealth(284, 310))
      BY <1>1, <2>2
    <3>2. EncodeHealth(284, 310) \in SampleRecords
      BY <1>1, <1>2 DEF EncodeHealth, SampleRecords, Craft
    <3>3. EncodeHealth(284, 310).bus_mv # 22800
      BY DEF EncodeHealth
    <3> QED BY <2>2, <3>1, <3>2, <3>3 DEF EncodeHealth
  <2> QED BY <2>1, <2>2
<1>6. /\ sent' \in Seq(SampleRecords) /\ Len(sent') = Len(sent) + 1
      /\ sent'[Len(sent')] = s
      /\ \A n \in 1 .. Len(sent) : sent'[n] = sent[n]
  BY <1>1, <1>5
<1> QED BY <1>1, <1>2, <1>4, <1>5, <1>6 DEF Extends

\* It keeps the flag latched and the numbers in step.
LEMMA EmitKeepsCraft ==
    ASSUME CraftOK, Emit
    PROVE  CraftOK'
<1>1. PICK k \in Nat : k = Len(sent)
  BY DEF CraftOK
<1>2. /\ Len(sent') = k + 1 /\ craft' \in Craft /\ sent' \in Seq(SampleRecords)
      /\ Len(sent') <= MaxSamples
      /\ \A n \in 1 .. k : sent'[n] = sent[n]
  BY <1>1, EmitEffect DEF Extends
<1>3. PICK s : s = sent'[k + 1]
  OBVIOUS
<1>4. /\ s.sequence = craft.health_sequence /\ s.fault_flags = FlagsNow
      /\ s.run = craft.run /\ s.era = craft.era
      /\ s.bus_mv = 22800 => FlagsNow = 1
      /\ craft.fault_flags = 1 => FlagsNow = 1
      /\ craft'.fault_flags = FlagsNow /\ craft'.health_sequence = NextSequence
      /\ craft'.run = craft.run /\ craft'.era = craft.era
  BY <1>2, <1>3, EmitEffect
<1>5. /\ craft.health_sequence \in Numbers /\ craft.run \in Nat /\ craft.era \in Nat
      /\ \A n \in 1 .. k : sent[n].sequence \in Numbers
  <2>1. craft \in Craft
    BY DEF CraftOK
  <2> QED BY <1>1, <2>1, CraftFields, SentTypes
<1>6. NextSequence = Wrapped(craft.health_sequence, 1)
  BY <1>5 DEF NextSequence, Wrapped, Numbers
<1>7. ASSUME NEW q \in Numbers, NEW j \in 1 .. (Modulus - 1)
      PROVE  Wrapped(Wrapped(q, j), 1) = Wrapped(q, j + 1)
  BY DEF Wrapped, Numbers
<1>8. ASSUME NEW n \in 1 .. (k + 1)
      PROVE  /\ sent'[n].run <= craft'.run /\ sent'[n].era <= craft'.era
             /\ sent'[n].bus_mv = 22800 /\ sent'[n].era = craft'.era
                   => craft'.fault_flags = 1
             /\ sent'[n].run = craft'.run /\ (k + 1) + 1 - n <= Modulus
                   => craft'.health_sequence = Wrapped(sent'[n].sequence, (k + 1) + 1 - n)
  <2>1. CASE n = k + 1
    <3>1. sent'[n] = s /\ (k + 1) + 1 - n = 1
      BY <1>1, <1>3, <2>1
    <3> QED BY <1>4, <1>5, <1>6, <3>1
  <2>2. CASE n # k + 1
    <3>1. n \in 1 .. k /\ sent'[n] = sent[n]
      BY <1>1, <1>2, <2>2
    <3>2. /\ sent[n].run <= craft.run /\ sent[n].era <= craft.era
          /\ sent[n].bus_mv = 22800 /\ sent[n].era = craft.era => craft.fault_flags = 1
          /\ sent[n].run = craft.run /\ k + 1 - n <= Modulus
                => craft.health_sequence = Wrapped(sent[n].sequence, k + 1 - n)
      BY <1>1, <3>1 DEF CraftOK
    <3>3. ASSUME sent[n].run = craft.run, (k + 1) + 1 - n <= Modulus
          PROVE  NextSequence = Wrapped(sent[n].sequence, (k + 1) + 1 - n)
      <4>1. PICK j \in 1 .. (Modulus - 1) : j = k + 1 - n
        BY <1>1, <3>1, <3>3
      <4>2. craft.health_sequence = Wrapped(sent[n].sequence, j)
        BY <1>1, <3>1, <3>2, <3>3, <4>1
      <4>3. (k + 1) + 1 - n = j + 1
        BY <1>1, <3>1, <4>1
      <4>4. sent[n].sequence \in Numbers
        BY <1>5, <3>1
      <4> QED BY <1>6, <1>7, <4>2, <4>3, <4>4
    <3> QED BY <1>4, <3>1, <3>2, <3>3
  <2> QED BY <2>1, <2>2
<1>9. ASSUME NEW m \in 1 .. (k + 1), NEW n \in 1 .. m
      PROVE  /\ sent'[n].bus_mv = 22800 /\ sent'[n].era = sent'[m].era
                   => sent'[m].fault_flags = 1
             /\ n < m /\ sent'[n].run = sent'[m].run /\ m - n <= Modulus
                   => sent'[m].sequence = Wrapped(sent'[n].sequence, m - n)
  <2>1. CASE m # k + 1
    <3>1. m \in 1 .. k /\ n \in 1 .. k /\ sent'[m] = sent[m] /\ sent'[n] = sent[n]
      BY <1>1, <1>2, <2>1
    <3> QED BY <1>1, <3>1 DEF CraftOK
  <2>2. CASE m = k + 1 /\ n = k + 1
    <3>1. sent'[m] = s /\ sent'[n] = s /\ ~ (n < m)
      BY <1>1, <1>3, <2>2
    <3> QED BY <1>4, <3>1
  <2>3. CASE m = k + 1 /\ n # k + 1
    <3>1. n \in 1 .. k /\ sent'[m] = s /\ sent'[n] = sent[n] /\ m - n = k + 1 - n
      BY <1>1, <1>2, <1>3, <2>3
    <3>2. /\ sent[n].bus_mv = 22800 /\ sent[n].era = craft.era => craft.fault_flags = 1
          /\ sent[n].run = craft.run /\ k + 1 - n <= Modulus
                => craft.health_sequence = Wrapped(sent[n].sequence, k + 1 - n)
      BY <1>1, <3>1 DEF CraftOK
    <3> QED BY <1>4, <3>1, <3>2
  <2> QED BY <2>1, <2>2, <2>3
<1> QED BY <1>1, <1>2, <1>8, <1>9 DEF CraftOK

\* A command or a restart between two rounds.
LEMMA CommandsKeepCraft ==
    ASSUME CraftOK, UNCHANGED sent,
           \/ \E w \in Int : craft' = [craft EXCEPT !.wheel_rpm = w]
           \/ craft' = [craft EXCEPT !.fault_flags = 0, !.era = @ + 1]
           \/ craft' = PoweredOn(craft.run + 1, craft.era + 1)
           \/ UNCHANGED craft
    PROVE  CraftOK'
<1>1. /\ craft \in Craft /\ sent \in Seq(SampleRecords)
      /\ \A n \in 1 .. Len(sent) : sent[n].run \in Nat /\ sent[n].era \in Nat
  BY SentTypes DEF CraftOK
<1>2. /\ craft' \in Craft /\ craft'.run >= craft.run /\ craft'.era >= craft.era
      /\ \/ craft'.era = craft.era /\ craft'.fault_flags = craft.fault_flags
         \/ craft'.era = craft.era + 1
      /\ \/ craft'.run = craft.run /\ craft'.health_sequence = craft.health_sequence
         \/ craft'.run = craft.run + 1
  <2>1. ASSUME NEW w \in Int, craft' = [craft EXCEPT !.wheel_rpm = w]
        PROVE  /\ craft' \in Craft /\ craft'.run = craft.run /\ craft'.era = craft.era
               /\ craft'.fault_flags = craft.fault_flags
               /\ craft'.health_sequence = craft.health_sequence
    BY <1>1, <2>1 DEF Craft
  <2>2. ASSUME craft' = [craft EXCEPT !.fault_flags = 0, !.era = @ + 1]
        PROVE  /\ craft' \in Craft /\ craft'.run = craft.run /\ craft'.era = craft.era + 1
               /\ craft'.health_sequence = craft.health_sequence
    <3> craft \in Craft
      BY <1>1
    <3>1. craft.era + 1 \in Nat /\ craft.tick \in Nat /\ craft.health_sequence \in Numbers
      <4>1. craft.era \in Nat /\ craft.tick \in Nat /\ craft.health_sequence \in Numbers
        BY CraftFields
      <4> QED BY <4>1
    <3>2. craft' = [craft EXCEPT !.fault_flags = 0, !.era = craft.era + 1]
      BY <2>2
    <3>3. craft' \in Craft
      BY <3>1, <3>2, CraftWrites
    <3> QED BY <1>1, <3>2, <3>3 DEF Craft
  <2>3. ASSUME craft' = PoweredOn(craft.run + 1, craft.era + 1)
        PROVE  craft' \in Craft /\ craft'.run = craft.run + 1 /\ craft'.era = craft.era + 1
    BY <1>1, <2>3 DEF Craft, PoweredOn, Numbers
  <2>4. craft.run \in Nat /\ craft.era \in Nat
    BY <1>1 DEF Craft
  <2> QED BY <1>1, <2>1, <2>2, <2>3, <2>4
<1>3. craft.run \in Nat /\ craft.era \in Nat /\ craft'.run \in Nat /\ craft'.era \in Nat
  BY <1>1, <1>2 DEF Craft
<1>4. \A n \in 1 .. Len(sent) : sent[n].run <= craft.run /\ sent[n].era <= craft.era
  BY DEF CraftOK
<1>5. \A n \in 1 .. Len(sent) :
         /\ sent[n].run <= craft'.run /\ sent[n].era <= craft'.era
         /\ sent[n].era = craft'.era
               => sent[n].era = craft.era /\ craft'.fault_flags = craft.fault_flags
         /\ sent[n].run = craft'.run
               => sent[n].run = craft.run /\ craft'.health_sequence = craft.health_sequence
  BY <1>1, <1>2, <1>3, <1>4
<1> QED BY <1>2, <1>5 DEF CraftOK
-----------------------------------------------------------------------------
(* telemetry-ingest.                                                       *)

\* Samples of one run observed in order, with no jump over the number space.
InOrder ==
    \A i \in 1 .. Len(observed) - 1 :
        /\ observed[i] < observed[i + 1]
        /\ observed[i + 1] - observed[i] <= Modulus
        /\ sent[observed[i]].run = sent[observed[i + 1]].run

LEMMA GapsInOrder ==
    GapsAreExact <=> (Len(observed) > 0 /\ InOrder
                        => gaps = observed[Len(observed)] - observed[1] + 1 - Len(observed))
BY DEF GapsAreExact, InOrder

LEMMA GapsInOrderNext ==
    GapsAreExact' <=> (Len(observed') > 0 /\ InOrder'
                        => gaps' = observed'[Len(observed')] - observed'[1] + 1 - Len(observed'))
BY DEF GapsAreExact, InOrder

\* observe counts what lies between two samples, across the wraparound.
LEMMA WrappedDistance ==
    ASSUME NEW q \in Numbers, NEW d \in 1 .. Modulus
    PROVE  (Wrapped(q, d) - (q + 1)) % Modulus = d - 1
<1>1. CASE q + d < Modulus
  <2>1. Wrapped(q, d) - (q + 1) = d - 1
    BY <1>1 DEF Wrapped, Numbers
  <2>2. (d - 1) % Modulus = d - 1
    OBVIOUS
  <2> QED BY <2>1, <2>2
<1>2. CASE ~ (q + d < Modulus)
  <2>1. Wrapped(q, d) - (q + 1) = (d - 1) - Modulus
    BY <1>2 DEF Wrapped, Numbers
  <2>2. ((d - 1) - Modulus) % Modulus = d - 1
    OBVIOUS
  <2> QED BY <2>1, <2>2
<1> QED BY <1>1, <1>2

\* Whatever the tracker holds, it counts a natural number.
LEMMA ObserveIsNat ==
    ASSUME NEW q \in Numbers, last = None \/ last \in Numbers
    PROVE  Observe(q) \in Nat
<1>1. ASSUME NEW a \in Int
      PROVE  a % Modulus \in Nat
  OBVIOUS
<1>2. CASE last = None
  BY <1>2 DEF Observe
<1>3. CASE last # None
  <2>1. Observe(q) = (q - (last + 1)) % Modulus
    BY <1>3 DEF Observe
  <2>2. q - (last + 1) \in Int
    BY <1>3 DEF Numbers
  <2> QED BY <1>1, <2>1, <2>2
<1> QED BY <1>2, <1>3

\* The ingest does not notice what is sent or what flies.
LEMMA IngestFrame ==
    ASSUME CraftOK, IngestOK, Extends, UNCHANGED <<last, gaps, observed>>,
           flying' \in [Samples -> Nat],
           \A n \in Samples : flying'[n] > 0 => n <= Len(sent')
    PROVE  IngestOK'
<1>1. \A i \in 1 .. Len(observed) : observed[i] \in 1 .. Len(sent)
  BY DEF IngestOK
<1>2. /\ Len(sent) \in Nat /\ Len(sent') \in Nat /\ Len(sent) <= Len(sent')
      /\ \A n \in 1 .. Len(sent) : sent'[n] = sent[n]
  BY DEF CraftOK, Extends
<1>3. \A i \in 1 .. Len(observed) :
         observed[i] \in 1 .. Len(sent') /\ sent'[observed[i]] = sent[observed[i]]
  BY <1>1, <1>2
<1>4. observed \in Seq(Nat)
  BY DEF IngestOK
<1>5. InOrder' => InOrder
  <2>1. \A i \in 1 .. Len(observed) - 1 : i \in 1 .. Len(observed) /\ i + 1 \in 1 .. Len(observed)
    BY <1>4
  <2>2. observed' = observed
    OBVIOUS
  <2> QED BY <1>3, <2>1, <2>2 DEF InOrder
<1>6. GapsAreExact'
  BY <1>5, GapsInOrder, GapsInOrderNext DEF IngestOK
<1>7. Len(observed) > 0 => last = sent'[observed[Len(observed)]].sequence
  BY <1>3, <1>4 DEF IngestOK
<1> QED BY <1>3, <1>6, <1>7 DEF IngestOK

\* One sample observed.
LEMMA IngestKeepsIngest ==
    ASSUME CraftOK, IngestOK, NEW n \in Samples, Ingest(n)
    PROVE  IngestOK' /\ n \in 1 .. Len(sent)
<1>1. PICK k \in Nat : k = Len(observed)
  BY DEF IngestOK
<1>2. /\ observed \in Seq(Nat) /\ gaps \in Nat /\ flying \in [Samples -> Nat]
      /\ \A i \in 1 .. k : observed[i] \in 1 .. Len(sent)
      /\ k = 0 => last = None /\ gaps = 0
      /\ k > 0 => last = sent[observed[k]].sequence
      /\ GapsAreExact
  BY <1>1 DEF IngestOK
<1>3. /\ flying[n] > 0 /\ flying' = [flying EXCEPT ![n] = @ - 1]
      /\ gaps' = gaps + Observe(sent[n].sequence) /\ last' = sent[n].sequence
      /\ observed' = Append(observed, n) /\ sent' = sent
  BY DEF Ingest, spaceVars
<1>4. n \in 1 .. Len(sent)
  <2>1. n \in Nat /\ n >= 1 /\ n <= Len(sent) /\ Len(sent) \in Nat
    BY <1>3, SentTypes DEF IngestOK, Samples
  <2> QED BY <2>1
<1>5. /\ flying' \in [Samples -> Nat]
      /\ \A m \in Samples : flying'[m] > 0 => m <= Len(sent')
  <2>1. flying[n] - 1 \in Nat
    BY <1>2, <1>3
  <2>2. flying' \in [Samples -> Nat] /\ \A m \in Samples : flying'[m] <= flying[m]
    BY <1>2, <1>3, <2>1
  <2>3. \A m \in Samples : flying'[m] > 0 => flying[m] > 0
    BY <1>2, <2>2
  <2> QED BY <1>3, <2>2, <2>3 DEF IngestOK
<1>6. /\ observed' \in Seq(Nat) /\ Len(observed') = k + 1 /\ observed'[k + 1] = n
      /\ \A i \in 1 .. k : observed'[i] = observed[i]
  BY <1>1, <1>2, <1>3, <1>4
<1>7. \A i \in 1 .. Len(observed') : observed'[i] \in 1 .. Len(sent')
  BY <1>2, <1>3, <1>4, <1>6
<1>8. last' = sent'[observed'[Len(observed')]].sequence
  BY <1>3, <1>6
<1>9. sent[n].sequence \in Numbers /\ (last = None \/ last \in Numbers)
  <2>1. CASE k = 0
    BY <1>2, <1>4, <2>1, SentTypes
  <2>2. CASE k > 0
    <3>1. observed[k] \in 1 .. Len(sent)
      BY <1>2, <2>2
    <3> QED BY <1>2, <1>4, <2>2, <3>1, SentTypes
  <2> QED BY <2>1, <2>2
<1>10. gaps' \in Nat
  <2>1. Observe(sent[n].sequence) \in Nat
    BY <1>9, ObserveIsNat
  <2> QED BY <1>2, <1>3, <2>1
<1>11. ASSUME InOrder'
       PROVE  gaps' = n - observed'[1] + 1 - (k + 1)
  <2>1. CASE k = 0
    <3>1. Observe(sent[n].sequence) = 0
      BY <1>2, <2>1 DEF Observe
    <3> QED BY <1>2, <1>3, <1>4, <1>6, <2>1, <3>1
  <2>2. CASE k > 0
    <3>1. PICK p \in 1 .. Len(sent) : p = observed[k]
      BY <1>2, <2>2
    <3>2. p < n /\ n - p <= Modulus /\ sent[p].run = sent[n].run
      <4>1. k \in 1 .. Len(observed') - 1 /\ observed'[k] = p
        BY <1>6, <2>2, <3>1
      <4> QED BY <1>3, <1>6, <1>11, <4>1 DEF InOrder
    <3>3. sent[n].sequence = Wrapped(sent[p].sequence, n - p)
      <4>1. p \in 1 .. n
        BY <1>4, <3>1, <3>2
      <4> QED BY <1>4, <3>2, <4>1 DEF CraftOK
    <3>4. sent[p].sequence \in Numbers /\ n - p \in 1 .. Modulus
      <4>1. sent[p].sequence \in Numbers
        BY <3>1, SentTypes
      <4> QED BY <1>4, <3>1, <3>2, <4>1
    <3>5. last = sent[p].sequence /\ last # None
      <4>1. sent[p].sequence # None
        BY <3>4 DEF Numbers
      <4> QED BY <1>2, <2>2, <3>1, <4>1
    <3>6. Observe(sent[n].sequence) = n - p - 1
      BY <3>3, <3>4, <3>5, WrappedDistance DEF Observe
    <3>7. InOrder
      <4>1. \A i \in 1 .. k - 1 : /\ i \in 1 .. (k + 1) - 1 /\ i \in 1 .. k /\ i + 1 \in 1 .. k
                                  /\ observed'[i] = observed[i]
                                  /\ observed'[i + 1] = observed[i + 1]
        <5>1. \A i \in 1 .. k - 1 : i \in 1 .. (k + 1) - 1 /\ i \in 1 .. k /\ i + 1 \in 1 .. k
          OBVIOUS
        <5> QED BY <1>6, <5>1
      <4> QED BY <1>1, <1>3, <1>6, <1>11, <4>1 DEF InOrder
    <3>8. gaps = p - observed[1] + 1 - k
      BY <1>1, <1>2, <2>2, <3>1, <3>7, GapsInOrder
    <3>9. /\ observed'[1] = observed[1] /\ observed[1] \in Nat
          /\ p \in Nat /\ n \in Nat
      <4>1. 1 \in 1 .. k /\ Len(sent) \in Nat
        BY <2>2, SentTypes
      <4>2. observed[1] \in 1 .. Len(sent) /\ observed'[1] = observed[1]
        BY <1>2, <1>6, <4>1
      <4> QED BY <1>4, <3>1, <4>1, <4>2
    <3>10. PICK o \in Nat : o = observed[1]
      BY <3>9
    <3>11. (p - o + 1 - k) + (n - p - 1) = n - o + 1 - (k + 1)
      BY <3>9
    <3> QED BY <1>3, <3>6, <3>8, <3>9, <3>10, <3>11
  <2> QED BY <2>1, <2>2
<1>12. GapsAreExact'
  BY <1>6, <1>11, GapsInOrderNext
<1> QED BY <1>4, <1>5, <1>6, <1>7, <1>8, <1>10, <1>12 DEF IngestOK

\* A restart of the ingest, a round of the spacecraft, a fault of the link.
LEMMA OthersKeepIngest ==
    ASSUME CraftOK, IngestOK, IngestRestarts \/ Emit \/ Commanded \/ SpaceFault
    PROVE  IngestOK'
<1>1. /\ flying \in [Samples -> Nat] /\ Len(sent) \in Nat
      /\ \A n \in Samples : flying[n] > 0 => n <= Len(sent)
  BY SentTypes DEF IngestOK
<1>2. CASE IngestRestarts
  <2>1. /\ flying' = flying /\ sent' = sent
        /\ last' = None /\ gaps' = 0 /\ observed' = <<>>
    BY <1>2 DEF IngestRestarts, spaceVars
  <2>2. Len(observed') = 0 /\ observed' \in Seq(Nat)
    BY <2>1
  <2>3. GapsAreExact'
    BY <2>2, GapsInOrderNext
  <2> QED BY <1>1, <2>1, <2>2, <2>3 DEF IngestOK
<1>3. CASE Emit
  <2>1. /\ flying' = [flying EXCEPT ![Len(sent) + 1] = 1]
        /\ UNCHANGED <<last, gaps, observed>>
    BY <1>3 DEF Emit, ingestVars
  <2>2. Extends /\ Len(sent') = Len(sent) + 1
    BY <1>3, EmitEffect
  <2>3. flying' \in [Samples -> Nat]
    BY <1>1, <2>1
  <2>4. \A n \in Samples : n # Len(sent) + 1 => flying'[n] = flying[n]
    BY <1>1, <2>1
  <2>5. \A n \in Samples : flying'[n] > 0 => n <= Len(sent')
    <3> SUFFICES ASSUME NEW n \in Samples, flying'[n] > 0
                 PROVE  n <= Len(sent')
      OBVIOUS
    <3>1. CASE n = Len(sent) + 1
      BY <1>1, <2>2, <3>1
    <3>2. CASE n # Len(sent) + 1
      <4>1. n <= Len(sent) /\ n \in Nat
        BY <1>1, <2>4, <3>2 DEF Samples
      <4> QED BY <1>1, <2>2, <4>1
    <3> QED BY <3>1, <3>2
  <2> QED BY <2>1, <2>2, <2>3, <2>5, IngestFrame
<1>4. CASE Commanded
  <2>1. flying' = flying /\ sent' = sent /\ UNCHANGED <<last, gaps, observed>>
    BY <1>4 DEF Commanded, ingestVars
  <2>2. Extends
    BY <2>1, NothingSent
  <2> QED BY <1>1, <2>1, <2>2, IngestFrame
<1>5. CASE SpaceFault
  <2>1. sent' = sent /\ UNCHANGED <<last, gaps, observed>>
    BY <1>5 DEF SpaceFault, ingestVars
  <2>2. Extends
    BY <2>1, NothingSent
  <2>3. /\ flying' \in [Samples -> Nat]
        /\ \A n \in Samples : flying'[n] > 0 => flying[n] > 0
    <3>1. CASE flying' = flying
      BY <1>1, <3>1
    <3>2. ASSUME NEW m \in Samples, flying[m] > 0, flying' = [flying EXCEPT ![m] = @ - 1]
          PROVE  <2>3!1 /\ <2>3!2
      <4>1. flying[m] - 1 \in Nat
        BY <1>1, <3>2
      <4> QED BY <1>1, <3>2, <4>1
    <3>3. ASSUME NEW m \in Samples, flying[m] > 0, flying' = [flying EXCEPT ![m] = @ + 1]
          PROVE  <2>3!1 /\ <2>3!2
      BY <1>1, <3>3
    <3> QED BY <1>5, <3>1, <3>2, <3>3 DEF SpaceFault
  <2>4. \A n \in Samples : flying'[n] > 0 => n <= Len(sent')
    BY <1>1, <2>1, <2>3
  <2> QED BY <2>1, <2>2, <2>3, <2>4, IngestFrame
<1> QED BY <1>2, <1>3, <1>4, <1>5
-----------------------------------------------------------------------------
(* The limits.                                                             *)

\* One part of evaluate_health found at the end or within what follows it.
LEMMA Joined ==
    ASSUME NEW a, NEW b, NEW S, a \in Seq(S), b \in Seq(S)
    PROVE  /\ a \o b \in Seq(S)
           /\ \A i \in 1 .. Len(a) : i \in 1 .. Len(a \o b) /\ (a \o b)[i] = a[i]
           /\ \A i \in 1 .. Len(b) :
                 Len(a) + i \in 1 .. Len(a \o b) /\ (a \o b)[Len(a) + i] = b[i]
<1>1. Len(a \o b) = Len(a) + Len(b) /\ a \o b \in Seq(S) /\ Len(a) \in Nat /\ Len(b) \in Nat
  OBVIOUS
<1>2. \A i \in 1 .. Len(a) : (a \o b)[i] = a[i]
  OBVIOUS
<1>3. \A i \in 1 .. Len(b) : (a \o b)[Len(a) + i] = b[i]
  OBVIOUS
<1> QED BY <1>1, <1>2, <1>3

Parameters == {"bus_voltage_v", "battery_temp_c", "wheel_rpm", "fault_flags"}

Severities == {"WARNING", "CRITICAL"}

Findings == [parameter : Parameters, severity : Severities]

\* Some element of q is about the parameter.
Finds(q, parameter) == \E i \in 1 .. Len(q) : q[i].parameter = parameter

LEMMA JoinedFinds ==
    ASSUME NEW a \in Seq(Findings), NEW b \in Seq(Findings), NEW parameter,
           Finds(a, parameter) \/ Finds(b, parameter)
    PROVE  Finds(a \o b, parameter)
<1>1. /\ \A i \in 1 .. Len(a) : i \in 1 .. Len(a \o b) /\ (a \o b)[i] = a[i]
      /\ \A i \in 1 .. Len(b) :
            Len(a) + i \in 1 .. Len(a \o b) /\ (a \o b)[Len(a) + i] = b[i]
  BY Joined
<1>2. CASE Finds(a, parameter)
  <2>1. PICK i \in 1 .. Len(a) : a[i].parameter = parameter
    BY <1>2 DEF Finds
  <2> QED BY <1>1, <2>1 DEF Finds
<1>3. CASE Finds(b, parameter)
  <2>1. PICK i \in 1 .. Len(b) : b[i].parameter = parameter
    BY <1>3 DEF Finds
  <2> QED BY <1>1, <2>1 DEF Finds
<1> QED BY <1>2, <1>3

LEMMA OneFinding ==
    ASSUME NEW parameter \in Parameters, NEW severity \in Severities
    PROVE  /\ <<[parameter |-> parameter, severity |-> severity]>> \in Seq(Findings)
           /\ Finds(<<[parameter |-> parameter, severity |-> severity]>>, parameter)
<1>1. PICK v : v = [parameter |-> parameter, severity |-> severity]
  OBVIOUS
<1>2. v \in Findings /\ v.parameter = parameter
  BY <1>1 DEF Findings
<1>3. <<v>> \in Seq(Findings) /\ Len(<<v>>) = 1 /\ <<v>>[1] = v
  BY <1>2
<1>4. Finds(<<v>>, parameter)
  BY <1>2, <1>3 DEF Finds
<1> QED BY <1>1, <1>3, <1>4

\* evaluate_health returns a sequence, and misses neither a flag nor a wheel.
LEMMA EvaluateFinds ==
    ASSUME NEW s
    PROVE  /\ evaluate_health(s) \in Seq(Findings) /\ Len(evaluate_health(s)) \in Nat
           /\ s.fault_flags # 0 => Finds(evaluate_health(s), "fault_flags")
           /\ s.wheel_rpm > 5500 \/ -s.wheel_rpm > 5500
                => Finds(evaluate_health(s), "wheel_rpm")
<1> DEFINE a == Violation(s.bus_mv < 24000, "bus_voltage_v", "CRITICAL")
           b == Violation(24000 <= s.bus_mv /\ s.bus_mv < 26000, "bus_voltage_v", "WARNING")
           c == Violation(s.battery_cc > 6500, "battery_temp_c", "CRITICAL")
           d == Violation(5500 < s.battery_cc /\ s.battery_cc <= 6500,
                          "battery_temp_c", "WARNING")
           w == Violation(s.wheel_rpm > 5500 \/ -s.wheel_rpm > 5500, "wheel_rpm", "CRITICAL")
           f == Violation(s.fault_flags # 0, "fault_flags", "CRITICAL")
<1>1. evaluate_health(s) = a \o b \o c \o d \o w \o f
  BY DEF evaluate_health
<1> /\ "bus_voltage_v" \in Parameters /\ "battery_temp_c" \in Parameters
    /\ "wheel_rpm" \in Parameters /\ "fault_flags" \in Parameters
    /\ "WARNING" \in Severities /\ "CRITICAL" \in Severities
  BY DEF Parameters, Severities
<1>2. /\ a \in Seq(Findings) /\ b \in Seq(Findings) /\ c \in Seq(Findings)
      /\ d \in Seq(Findings) /\ w \in Seq(Findings) /\ f \in Seq(Findings)
  <2>1. <<>> \in Seq(Findings)
    OBVIOUS
  <2>2. \A p \in Parameters, v \in Severities :
           <<[parameter |-> p, severity |-> v]>> \in Seq(Findings)
    BY OneFinding
  <2> QED BY <2>1, <2>2 DEF Violation
<1>3. s.fault_flags # 0 => Finds(f, "fault_flags")
  BY OneFinding DEF Violation
<1>4. s.wheel_rpm > 5500 \/ -s.wheel_rpm > 5500 => Finds(w, "wheel_rpm")
  BY OneFinding DEF Violation
<1> HIDE DEF a, b, c, d, w, f
<1>5. /\ a \o b \in Seq(Findings) /\ a \o b \o c \in Seq(Findings)
      /\ a \o b \o c \o d \in Seq(Findings) /\ a \o b \o c \o d \o w \in Seq(Findings)
      /\ a \o b \o c \o d \o w \o f \in Seq(Findings)
  BY <1>2
<1>6. Finds(f, "fault_flags") => Finds(a \o b \o c \o d \o w \o f, "fault_flags")
  BY <1>2, <1>5, JoinedFinds
<1>7. Finds(w, "wheel_rpm") => Finds(a \o b \o c \o d \o w, "wheel_rpm")
  BY <1>2, <1>5, JoinedFinds
<1>8. Finds(a \o b \o c \o d \o w, "wheel_rpm")
        => Finds(a \o b \o c \o d \o w \o f, "wheel_rpm")
  BY <1>2, <1>5, JoinedFinds
<1> QED BY <1>1, <1>3, <1>4, <1>5, <1>6, <1>7, <1>8
-----------------------------------------------------------------------------
(* telemetry-processor.                                                    *)

\* What every step does to the history and the tables: they grow.
Grows ==
    /\ Extends
    /\ published \subseteq published' /\ published' \subseteq 1 .. Len(sent')
    /\ rows \subseteq rows' /\ rows' \subseteq published'
    /\ alerts \subseteq alerts' /\ processed \subseteq processed'

LEMMA ViolatedLength ==
    ASSUME NEW n
    PROVE  Len(Violated(n)) \in Nat
BY EvaluateFinds DEF Violated

\* What is known of a published sample stays true.
LEMMA SampleFactsStay ==
    ASSUME ProcessorOK, Grows, NEW n \in published
    PROVE  /\ Violated(n)' = Violated(n)
           /\ \A k : Raised(n, k) => Raised(n, k)'
           /\ Complete(n) => Complete(n)'
<1>1. n \in 1 .. Len(sent) /\ sent'[n] = sent[n]
  BY DEF ProcessorOK, Grows, Extends
<1>2. Violated(n)' = Violated(n)
  BY <1>1 DEF Violated
<1>3. ASSUME NEW k, Raised(n, k)
      PROVE  Raised(n, k)'
  BY <1>2, <1>3 DEF Raised, Grows
<1>4. ASSUME Complete(n)
      PROVE  Complete(n)'
  <2>1. PICK k : k = Len(Violated(n))
    OBVIOUS
  <2>2. Raised(n, k)'
    BY <1>3, <1>4, <2>1 DEF Complete
  <2>3. Len(Violated(n)') = k
    BY <1>2, <2>1
  <2>4. Raised(n, Len(Violated(n)))'
    BY <2>2, <2>3 DEF Raised
  <2> QED BY <1>4, <2>4 DEF Complete, Grows
<1> QED BY <1>2, <1>3, <1>4

\* A processor that does nothing is where it was.
LEMMA ProgressStays ==
    ASSUME ProcessorOK, Grows, UNCHANGED processor, Progress(processor)
    PROVE  Progress(processor)'
<1>1. PICK p : p = processor
  OBVIOUS
<1>2. p \in Hands /\ p.n \in published /\ Progress(p)
  BY <1>1 DEF Progress
<1>3. /\ Violated(p.n)' = Violated(p.n)
      /\ \A k : Raised(p.n, k) => Raised(p.n, k)'
  BY <1>2, SampleFactsStay
<1>4. Len(Violated(p.n))' = Len(Violated(p.n))
  BY <1>3
<1>5. Raised(p.n, Len(Violated(p.n))) => Raised(p.n, Len(Violated(p.n)))'
  <2>1. PICK k : k = Len(Violated(p.n))
    OBVIOUS
  <2> QED BY <1>3, <1>4, <2>1 DEF Raised
<1>6. Raised(p.n, p.i - 1) => Raised(p.n, p.i - 1)'
  BY <1>3
<1>7. Raised(p.n, p.i) => Raised(p.n, p.i)'
  BY <1>3
<1>8. Progress(p)'
  <2>1. p.n \in published' /\ (p.n \in rows => p.n \in rows')
        /\ (p.n \in processed => p.n \in processed')
    BY <1>2 DEF Grows
  <2> QED BY <1>2, <1>3, <1>4, <1>5, <1>6, <1>7, <2>1 DEF Progress
<1>9. processor' = p
  BY <1>1
<1> QED BY <1>8, <1>9 DEF Progress, Raised

\* The parts of ProcessorOK that a step has to show when the tables only grow.
LEMMA ProcessorStep ==
    ASSUME ProcessorOK, Grows,
           healthQ' \in Seq(Nat), \A i \in 1 .. Len(healthQ') : healthQ'[i] \in published',
           processor' = ProcessorIdle \/ Progress(processor)',
           \A n \in processed' : n \in processed \/ Complete(n)',
           \A n \in published' :
              \/ Waiting(n)' \/ InHand(n)' \/ Complete(n)'
              \/ n \in published /\ Complete(n)
    PROVE  ProcessorOK'
<1>1. \A n \in processed : n \in published /\ Complete(n)
  BY DEF ProcessorOK, Complete
<1>2. \A n \in published : Complete(n) => Complete(n)'
  BY SampleFactsStay
<1>3. \A n \in processed' : Complete(n)'
  BY <1>1, <1>2
<1>4. \A n \in published' : Waiting(n)' \/ InHand(n)' \/ Complete(n)'
  BY <1>2
<1>5. published' \subseteq 1 .. Len(sent') /\ rows' \subseteq published'
  BY DEF Grows
<1> QED BY <1>3, <1>4, <1>5 DEF ProcessorOK

\* The alerts a step leaves alone stay backed.
LEMMA AlertsStep ==
    ASSUME ProcessorOK, AlertsOK, Grows, alertQ' \in Seq(alerts'), advisories' \subseteq alerts',
           \A a \in alerts' :
              \/ a \in alerts
              \/ /\ a.n \in rows'
                 /\ \E j \in 1 .. Len(Violated(a.n)') : a.violation = Violated(a.n)'[j]
    PROVE  AlertsOK'
<1>1. ASSUME NEW a \in alerts
      PROVE  /\ a.n \in rows'
             /\ \E j \in 1 .. Len(Violated(a.n)') : a.violation = Violated(a.n)'[j]
  <2>1. /\ a.n \in rows /\ a.n \in published
        /\ \E j \in 1 .. Len(Violated(a.n)) : a.violation = Violated(a.n)[j]
    BY DEF AlertsOK, ProcessorOK
  <2>2. Violated(a.n)' = Violated(a.n)
    BY <2>1, SampleFactsStay
  <2> QED BY <2>1, <2>2 DEF Grows
<1> QED BY <1>1 DEF AlertsOK

\* Steps that neither take from the queue nor touch the processor.
LEMMA ProcessorFrame ==
    ASSUME CraftOK, ProcessorOK, AlertsOK, Extends,
           UNCHANGED <<healthQ, published, processorVars, alertQ, advisories>>
    PROVE  ProcessorOK' /\ AlertsOK'
<1>1. UNCHANGED <<healthQ, published, processor, rows, alerts, processed, alertQ, advisories>>
  BY DEF processorVars
<1>2. Grows
  <2>1. /\ published \subseteq 1 .. Len(sent) /\ rows \subseteq published
        /\ Len(sent) \in Nat /\ Len(sent') \in Nat /\ Len(sent) <= Len(sent')
    BY SentTypes DEF ProcessorOK, Extends
  <2>2. published \subseteq 1 .. Len(sent')
    BY <2>1
  <2> QED BY <1>1, <2>1, <2>2 DEF Grows
<1>3. processor' = ProcessorIdle \/ Progress(processor)'
  BY <1>1, <1>2, ProgressStays DEF ProcessorOK
<1>4. \A n \in published : (Waiting(n) => Waiting(n)') /\ (InHand(n) => InHand(n)')
  BY <1>1 DEF Waiting, InHand
<1>5. ProcessorOK'
  <2>1. healthQ' \in Seq(Nat) /\ \A i \in 1 .. Len(healthQ') : healthQ'[i] \in published'
    BY <1>1 DEF ProcessorOK
  <2>2. \A n \in published' :
              \/ Waiting(n)' \/ InHand(n)' \/ Complete(n)'
              \/ n \in published /\ Complete(n)
    BY <1>1, <1>4 DEF ProcessorOK
  <2> QED BY <1>1, <1>2, <1>3, <2>1, <2>2, ProcessorStep
<1>6. AlertsOK'
  BY <1>1, <1>2, AlertsStep DEF AlertsOK
<1> QED BY <1>5, <1>6

\* A sample put at the end of telemetry.health waits there, with the others.
LEMMA Enqueued ==
    ASSUME ProcessorOK, Grows, NEW n \in published', n \in Nat,
           healthQ' = Append(healthQ, n)
    PROVE  /\ healthQ' \in Seq(Nat) /\ \A i \in 1 .. Len(healthQ') : healthQ'[i] \in published'
           /\ Waiting(n)' /\ \A m : Waiting(m) => Waiting(m)'
<1>1. healthQ \in Seq(Nat) /\ \A i \in 1 .. Len(healthQ) : healthQ[i] \in published'
  BY DEF ProcessorOK, Grows
<1>2. /\ healthQ' \in Seq(Nat) /\ Len(healthQ') = Len(healthQ) + 1 /\ Len(healthQ) \in Nat
      /\ healthQ'[Len(healthQ) + 1] = n
      /\ \A i \in 1 .. Len(healthQ) : healthQ'[i] = healthQ[i]
  BY <1>1
<1>3. \A i \in 1 .. Len(healthQ') : i = Len(healthQ) + 1 \/ i \in 1 .. Len(healthQ)
  BY <1>2
<1>4. Len(healthQ) + 1 \in 1 .. Len(healthQ')
      /\ \A i \in 1 .. Len(healthQ) : i \in 1 .. Len(healthQ')
  BY <1>2
<1> QED BY <1>1, <1>2, <1>3, <1>4 DEF Waiting

\* A sample published: it waits.
LEMMA IngestKeepsProcessor ==
    ASSUME CraftOK, IngestOK, ProcessorOK, AlertsOK, NEW n \in Samples, Ingest(n)
    PROVE  ProcessorOK' /\ AlertsOK'
<1>1. /\ sent' = sent
      /\ UNCHANGED <<processor, rows, alerts, processed, alertQ, advisories>>
  BY DEF Ingest, spaceVars, processorVars
<1>2. Extends
  BY <1>1, NothingSent
<1>3. CASE UNCHANGED <<healthQ, published>>
  BY <1>1, <1>2, <1>3, ProcessorFrame DEF processorVars
<1>4. CASE healthQ' = Append(healthQ, n) /\ published' = published \cup {n}
  <2>1. n \in 1 .. Len(sent) /\ n \in Nat
    BY IngestKeepsIngest, SentTypes
  <2>2. Grows
    <3>1. published \subseteq 1 .. Len(sent) /\ rows \subseteq published
      BY DEF ProcessorOK
    <3> QED BY <1>1, <1>2, <1>4, <2>1, <3>1 DEF Grows
  <2>3. /\ healthQ' \in Seq(Nat) /\ \A i \in 1 .. Len(healthQ') : healthQ'[i] \in published'
        /\ Waiting(n)' /\ \A m : Waiting(m) => Waiting(m)'
    BY <1>4, <2>1, <2>2, Enqueued
  <2>4. processor' = ProcessorIdle \/ Progress(processor)'
    BY <1>1, <2>2, ProgressStays DEF ProcessorOK
  <2>5. \A m : InHand(m) => InHand(m)'
    BY <1>1 DEF InHand
  <2>6. \A m \in published' :
              \/ Waiting(m)' \/ InHand(m)' \/ Complete(m)'
              \/ m \in published /\ Complete(m)
    BY <1>4, <2>3, <2>5 DEF ProcessorOK
  <2>7. ProcessorOK'
    BY <1>1, <2>2, <2>3, <2>4, <2>6, ProcessorStep
  <2>8. AlertsOK'
    BY <1>1, <2>2, AlertsStep DEF AlertsOK
  <2> QED BY <2>7, <2>8
<1> QED BY <1>3, <1>4 DEF Ingest

\* The sample the processor has in hand.
LEMMA InTheHand ==
    ASSUME CraftOK, ProcessorOK, processor # ProcessorIdle
    PROVE  /\ Progress(processor) /\ processor \in Hands
           /\ processor.n \in published /\ processor.n \in 1 .. Len(sent)
           /\ processor.n \in Nat /\ processor.i \in Nat
           /\ Found = Violated(processor.n) /\ Len(Found) \in Nat
<1>1. Progress(processor)
  BY DEF ProcessorOK
<1>2. processor \in Hands /\ processor.n \in published
  BY <1>1 DEF Progress
<1>3. processor.n \in 1 .. Len(sent)
  BY <1>2 DEF ProcessorOK
<1>4. processor.n \in Nat /\ processor.i \in Nat
  BY <1>2 DEF Hands
<1>5. Found = Violated(processor.n)
  BY DEF Found, Violated
<1>6. Len(Violated(processor.n)) \in Nat
  BY ViolatedLength
<1> QED BY <1>1, <1>2, <1>3, <1>4, <1>5, <1>6

\* A processor at some step of its work is not idle.
LEMMA NotIdle ==
    ASSUME processor.pc \in Stages
    PROVE  processor # ProcessorIdle
BY DEF Stages, ProcessorIdle

\* Where the loop over the violations goes after violation k.
LEMMA FollowingEffect ==
    ASSUME CraftOK, ProcessorOK, processor # ProcessorIdle, NEW k \in Nat
    PROVE  /\ Following(k) \in Hands /\ Following(k).n = processor.n
           /\ Following(k).i = k + 1
           /\ k < Len(Found) => Following(k).pc = "alert"
           /\ ~ (k < Len(Found)) => Following(k).pc = "publish"
<1>1. processor \in Hands
  BY InTheHand
<1>2. PICK pc : pc = IF k < Len(Found) THEN "alert" ELSE "publish"
  OBVIOUS
<1>3. pc \in Stages
  BY <1>2 DEF Stages
<1>4. Following(k) = [processor EXCEPT !.pc = pc, !.i = k + 1]
  BY <1>2 DEF Following
<1>5. /\ Following(k) \in Hands /\ Following(k).n = processor.n
      /\ Following(k).i = k + 1 /\ Following(k).pc = pc
  <2>1. k + 1 \in Nat
    OBVIOUS
  <2>2. PICK p \in Hands : p = processor
    BY <1>1
  <2>3. PICK q : q = [p EXCEPT !.pc = pc, !.i = k + 1]
    OBVIOUS
  <2>4. q \in Hands
    BY <1>3, <2>1, <2>3 DEF Hands
  <2>5. q.n = p.n /\ q.i = k + 1 /\ q.pc = pc
    BY <2>3 DEF Hands
  <2> QED BY <1>4, <2>2, <2>3, <2>4, <2>5
<1> QED BY <1>2, <1>5

\* The next stage of a sample in hand: only the stage and the tables change.
LEMMA StageAdvances ==
    ASSUME CraftOK, ProcessorOK, AlertsOK, processor # ProcessorIdle,
           UNCHANGED <<sent, published, healthQ>>, Grows,
           Progress(processor)', processor'.n = processor.n, processor' # ProcessorIdle,
           \A m \in processed' : m \in processed \/ Complete(m)'
    PROVE  ProcessorOK'
<1>1. \A m : (Waiting(m) => Waiting(m)') /\ (InHand(m) => InHand(m)')
  BY DEF Waiting, InHand
<1>2. healthQ' \in Seq(Nat) /\ \A i \in 1 .. Len(healthQ') : healthQ'[i] \in published'
  BY DEF ProcessorOK
<1>3. \A m \in published' :
         \/ Waiting(m)' \/ InHand(m)' \/ Complete(m)'
         \/ m \in published /\ Complete(m)
  BY <1>1 DEF ProcessorOK
<1> QED BY <1>2, <1>3, ProcessorStep

LEMMA ProgressAt ==
    ASSUME NEW q, processor' = q, Progress(q)'
    PROVE  Progress(processor)'
BY DEF Progress, Raised

\* What a step of the processor may count on: nothing was sent or published.
LEMMA StepGrows ==
    ASSUME CraftOK, ProcessorOK, UNCHANGED <<sent, published>>,
           rows \subseteq rows', rows' \subseteq published,
           alerts \subseteq alerts', processed \subseteq processed'
    PROVE  Grows
<1>1. Extends
  BY NothingSent
<1> QED BY <1>1 DEF ProcessorOK, Grows

\* process_health takes a sample.
LEMMA TakeKeeps ==
    ASSUME CraftOK, ProcessorOK, AlertsOK, Take
    PROVE  ProcessorOK' /\ AlertsOK'
<1>1. /\ processor = ProcessorIdle /\ healthQ # <<>>
      /\ processor' = [pc |-> "insert", n |-> Head(healthQ), i |-> 0]
      /\ healthQ' = Tail(healthQ)
      /\ UNCHANGED <<sent, published, rows, alerts, alertQ, processed, advisories>>
  BY DEF Take, spaceVars, ingestVars
<1>2. Grows
  <2>1. rows \subseteq published
    BY DEF ProcessorOK
  <2> QED BY <1>1, <2>1, StepGrows
<1>3. healthQ \in Seq(Nat) /\ \A i \in 1 .. Len(healthQ) : healthQ[i] \in published
  BY DEF ProcessorOK
<1>4. /\ healthQ' \in Seq(Nat) /\ Head(healthQ) = healthQ[1] /\ Head(healthQ) \in Nat
      /\ Len(healthQ) \in Nat /\ Len(healthQ) >= 1 /\ Len(healthQ') = Len(healthQ) - 1
      /\ \A i \in 1 .. Len(healthQ') : healthQ'[i] = healthQ[i + 1]
  BY <1>1, <1>3
<1>5. PICK h \in Nat : h = Head(healthQ)
  BY <1>4
<1>6. h \in published /\ h = healthQ[1]
  BY <1>3, <1>4, <1>5
<1>7. \A i \in 1 .. Len(healthQ') : i + 1 \in 1 .. Len(healthQ)
  BY <1>4
<1>8. \A i \in 1 .. Len(healthQ') : healthQ'[i] \in published'
  BY <1>1, <1>3, <1>4, <1>7
<1>9. PICK q : q = [pc |-> "insert", n |-> h, i |-> 0]
  OBVIOUS
<1>10. processor' = q /\ q # ProcessorIdle /\ q.n = h /\ q.pc = "insert"
  BY <1>1, <1>5, <1>9 DEF ProcessorIdle
<1>11. q \in Hands
  BY <1>9 DEF Hands, Stages
<1>12. Progress(processor)'
  <2>1. Progress(q)'
    BY <1>1, <1>6, <1>10, <1>11 DEF Progress
  <2> QED BY <1>10, <2>1, ProgressAt
<1>13. \A m : Waiting(m) => m = h \/ Waiting(m)'
  <2> SUFFICES ASSUME NEW m, NEW i \in 1 .. Len(healthQ), healthQ[i] = m
               PROVE  m = h \/ Waiting(m)'
    BY DEF Waiting
  <2>1. CASE i = 1
    BY <1>6, <2>1
  <2>2. CASE i # 1
    <3>1. i - 1 \in 1 .. Len(healthQ') /\ (i - 1) + 1 = i
      BY <1>4, <2>2
    <3>2. healthQ'[i - 1] = m
      BY <1>4, <3>1
    <3> QED BY <3>1, <3>2 DEF Waiting
  <2> QED BY <2>1, <2>2
<1>14. InHand(h)' /\ \A m : ~ InHand(m)
  BY <1>1, <1>10 DEF InHand
<1>15. \A m \in published' :
          \/ Waiting(m)' \/ InHand(m)' \/ Complete(m)'
          \/ m \in published /\ Complete(m)
  <2> SUFFICES ASSUME NEW m \in published
               PROVE  Waiting(m)' \/ InHand(m)' \/ Complete(m)
    BY <1>1
  <2>1. CASE m = h
    BY <1>14, <2>1
  <2>2. CASE m # h
    BY <1>13, <1>14, <2>2 DEF ProcessorOK
  <2> QED BY <2>1, <2>2
<1>16. ProcessorOK'
  BY <1>1, <1>2, <1>4, <1>8, <1>12, <1>15, ProcessorStep
<1>17. AlertsOK'
  BY <1>1, <1>2, AlertsStep DEF AlertsOK
<1> QED BY <1>16, <1>17

\* Its row is stored.
LEMMA InsertHealthKeeps ==
    ASSUME CraftOK, ProcessorOK, AlertsOK, InsertHealth
    PROVE  ProcessorOK' /\ AlertsOK'
<1>1. /\ processor.pc = "insert" /\ rows' = rows \cup {processor.n}
      /\ processor' = Following(0)
      /\ UNCHANGED <<sent, published, healthQ, alerts, alertQ, processed, advisories>>
  BY DEF InsertHealth, spaceVars, ingestVars
<1> processor # ProcessorIdle
  BY <1>1, NotIdle DEF Stages
<1>2. PICK n \in published : n = processor.n
  BY InTheHand
<1>3. Grows
  <2>1. rows \subseteq published
    BY DEF ProcessorOK
  <2> QED BY <1>1, <1>2, <2>1, StepGrows
<1>4. PICK q : q = processor'
  OBVIOUS
<1>5. PICK k \in Nat : k = Len(Violated(n))
  BY ViolatedLength
<1>6. /\ q \in Hands /\ q.n = n /\ q.i = 1
      /\ 0 < k => q.pc = "alert"
      /\ ~ (0 < k) => q.pc = "publish"
  <2>1. Len(Found) = k
    BY <1>2, <1>5, InTheHand
  <2>2. q = Following(0) /\ 0 \in Nat /\ 0 + 1 = 1
    BY <1>1, <1>4
  <2>3. /\ Following(0) \in Hands /\ Following(0).n = processor.n /\ Following(0).i = 0 + 1
        /\ 0 < Len(Found) => Following(0).pc = "alert"
        /\ ~ (0 < Len(Found)) => Following(0).pc = "publish"
    BY <2>2, FollowingEffect
  <2> QED BY <1>2, <2>1, <2>2, <2>3
<1>7. Violated(n)' = Violated(n)
  BY <1>1 DEF Violated
<1>8. Progress(q)'
  <2>1. Raised(n, 0)'
    BY DEF Raised
  <2>2. CASE 0 < k
    <3>1. q.pc = "alert" /\ q.i - 1 = 0 /\ q.i \in 1 .. k
      BY <1>5, <1>6, <2>2
    <3>2. Raised(q.n, q.i - 1)'
      BY <1>6, <2>1, <3>1
    <3> QED BY <1>1, <1>2, <1>5, <1>6, <1>7, <3>1, <3>2 DEF Progress
  <2>3. CASE ~ (0 < k)
    <3>1. q.pc = "publish" /\ Len(Violated(n)') = 0
      BY <1>5, <1>6, <1>7, <2>3
    <3>2. Raised(q.n, Len(Violated(q.n)))'
      BY <1>6, <3>1 DEF Raised
    <3> QED BY <1>1, <1>2, <1>6, <3>1, <3>2 DEF Progress
  <2> QED BY <2>2, <2>3
<1>9. Progress(processor)' /\ processor'.n = processor.n /\ processor' # ProcessorIdle
  <2>1. q # ProcessorIdle
    BY <1>6 DEF ProcessorIdle
  <2> QED BY <1>2, <1>4, <1>6, <1>8, <2>1, ProgressAt
<1>10. ProcessorOK'
  BY <1>1, <1>3, <1>9, StageAdvances
<1>11. AlertsOK'
  BY <1>1, <1>3, AlertsStep DEF AlertsOK
<1> QED BY <1>10, <1>11

\* The alert the loop is at is stored.
LEMMA InsertAlertKeeps ==
    ASSUME CraftOK, ProcessorOK, AlertsOK, InsertAlert
    PROVE  ProcessorOK' /\ AlertsOK'
<1>1. /\ processor.pc = "alert" /\ alerts' = alerts \cup {Current}
      /\ processor' = [processor EXCEPT !.pc = "announce"]
      /\ UNCHANGED <<sent, published, healthQ, rows, alertQ, processed, advisories>>
  BY DEF InsertAlert, spaceVars, ingestVars
<1> processor # ProcessorIdle
  BY <1>1, NotIdle DEF Stages
<1>2. PICK p \in Hands : p = processor
  BY InTheHand
<1>3. PICK n \in published : n = p.n
  BY <1>2, InTheHand
<1>4. PICK i \in Nat : i = p.i
  BY <1>2 DEF Hands
<1>5. n \in rows /\ i \in 1 .. Len(Violated(n)) /\ Raised(n, i - 1)
  <2>1. Progress(p) /\ p.pc = "alert"
    BY <1>1, <1>2, InTheHand
  <2> QED BY <1>3, <1>4, <2>1 DEF Progress
<1>6. Current = [n |-> n, violation |-> Violated(n)[i]]
  BY <1>2, <1>3, <1>4, InTheHand DEF Current
<1>7. Grows
  <2>1. rows \subseteq published
    BY DEF ProcessorOK
  <2> QED BY <1>1, <2>1, StepGrows
<1>8. Violated(n)' = Violated(n)
  BY <1>1 DEF Violated
<1>9. Raised(n, i)'
  <2> SUFFICES ASSUME NEW j \in 1 .. i
               PROVE  [n |-> n, violation |-> Violated(n)'[j]] \in alerts'
    BY DEF Raised
  <2>1. CASE j = i
    BY <1>1, <1>6, <1>8, <2>1
  <2>2. CASE j # i
    <3>1. j \in 1 .. i - 1
      BY <2>2
    <3> QED BY <1>1, <1>5, <1>8, <3>1 DEF Raised
  <2> QED BY <2>1, <2>2
<1>10. PICK q : q = processor'
  OBVIOUS
<1>11. q \in Hands /\ q.n = n /\ q.i = i /\ q.pc = "announce"
  <2>1. q = [p EXCEPT !.pc = "announce"]
    BY <1>1, <1>2, <1>10
  <2>2. "announce" \in Stages
    BY DEF Stages
  <2>3. q \in Hands
    BY <2>1, <2>2 DEF Hands
  <2>4. q.n = p.n /\ q.i = p.i /\ q.pc = "announce"
    BY <2>1 DEF Hands
  <2> QED BY <1>3, <1>4, <2>3, <2>4
<1>12. Progress(q)'
  <2>1. Raised(q.n, q.i)'
    BY <1>9, <1>11
  <2>2. q.i \in 1 .. Len(Violated(q.n)')
    BY <1>5, <1>8, <1>11
  <2> QED BY <1>1, <1>5, <1>11, <2>1, <2>2 DEF Progress
<1>13. Progress(processor)' /\ processor'.n = processor.n /\ processor' # ProcessorIdle
  <2>1. q # ProcessorIdle
    BY <1>11 DEF ProcessorIdle
  <2> QED BY <1>2, <1>3, <1>10, <1>11, <1>12, <2>1, ProgressAt
<1>14. ProcessorOK'
  BY <1>1, <1>7, <1>13, StageAdvances
<1>15. AlertsOK'
  <2>1. PICK a : a = [n |-> n, violation |-> Violated(n)[i]]
    OBVIOUS
  <2>2. a.n = n /\ a.violation = Violated(n)[i] /\ alerts' = alerts \cup {a}
    BY <1>1, <1>6, <2>1
  <2>3. /\ a.n \in rows'
        /\ \E j \in 1 .. Len(Violated(a.n)') : a.violation = Violated(a.n)'[j]
    BY <1>1, <1>5, <1>8, <2>2
  <2>4. \A b \in alerts' :
           \/ b \in alerts
           \/ /\ b.n \in rows'
              /\ \E j \in 1 .. Len(Violated(b.n)') : b.violation = Violated(b.n)'[j]
    BY <2>2, <2>3
  <2>5. alertQ' \in Seq(alerts') /\ advisories' \subseteq alerts'
    <3>1. alertQ \in Seq(alerts) /\ alerts \subseteq alerts'
      BY <2>2 DEF AlertsOK
    <3>2. alertQ \in Seq(alerts')
      BY <3>1
    <3> QED BY <1>1, <3>1, <3>2 DEF AlertsOK
  <2> QED BY <1>7, <2>4, <2>5, AlertsStep
<1> QED BY <1>14, <1>15

\* It is announced, and the loop goes on.
LEMMA PublishAlertKeeps ==
    ASSUME CraftOK, ProcessorOK, AlertsOK, PublishAlert
    PROVE  ProcessorOK' /\ AlertsOK'
<1>1. /\ processor.pc = "announce" /\ alertQ' = Append(alertQ, Current)
      /\ processor' = Following(processor.i)
      /\ UNCHANGED <<sent, published, healthQ, rows, alerts, processed, advisories>>
  BY DEF PublishAlert, spaceVars, ingestVars
<1> processor # ProcessorIdle
  BY <1>1, NotIdle DEF Stages
<1>2. PICK p \in Hands : p = processor
  BY InTheHand
<1>3. PICK n \in published : n = p.n
  BY <1>2, InTheHand
<1>4. PICK i \in Nat : i = p.i
  BY <1>2 DEF Hands
<1>5. PICK k \in Nat : k = Len(Violated(n))
  BY ViolatedLength
<1>6. n \in rows /\ i \in 1 .. k /\ Raised(n, i)
  <2>1. Progress(p) /\ p.pc = "announce"
    BY <1>1, <1>2, InTheHand
  <2> QED BY <1>3, <1>4, <1>5, <2>1 DEF Progress
<1>7. Current = [n |-> n, violation |-> Violated(n)[i]]
  BY <1>2, <1>3, <1>4, InTheHand DEF Current
<1>8. Grows
  <2>1. rows \subseteq published
    BY DEF ProcessorOK
  <2> QED BY <1>1, <2>1, StepGrows
<1>9. Violated(n)' = Violated(n)
  BY <1>1 DEF Violated
<1>10. PICK q : q = processor'
  OBVIOUS
<1>11. /\ q \in Hands /\ q.n = n /\ q.i = i + 1
       /\ i < k => q.pc = "alert"
       /\ ~ (i < k) => q.pc = "publish"
  <2>1. Len(Found) = k
    BY <1>2, <1>3, <1>5, InTheHand
  <2>2. q = Following(i)
    BY <1>1, <1>2, <1>4, <1>10
  <2>3. /\ Following(i) \in Hands /\ Following(i).n = processor.n /\ Following(i).i = i + 1
        /\ i < Len(Found) => Following(i).pc = "alert"
        /\ ~ (i < Len(Found)) => Following(i).pc = "publish"
    BY FollowingEffect
  <2> QED BY <1>2, <1>3, <2>1, <2>2, <2>3
<1>12. Raised(n, i)'
  BY <1>6, <1>8, SampleFactsStay
<1>13. Progress(q)'
  <2>1. CASE i < k
    <3>1. q.pc = "alert" /\ q.i - 1 = i /\ q.i \in 1 .. k
      BY <1>11, <2>1
    <3>2. Raised(q.n, q.i - 1)'
      BY <1>11, <1>12, <3>1
    <3>3. Len(Violated(q.n)') = k
      BY <1>5, <1>9, <1>11
    <3> QED BY <1>1, <1>6, <1>11, <3>1, <3>2, <3>3 DEF Progress
  <2>2. CASE ~ (i < k)
    <3>1. q.pc = "publish" /\ i = k /\ Len(Violated(n)') = k
      BY <1>5, <1>6, <1>9, <1>11, <2>2
    <3>2. Raised(q.n, Len(Violated(q.n)))'
      BY <1>11, <1>12, <3>1 DEF Raised
    <3> QED BY <1>1, <1>6, <1>11, <3>1, <3>2 DEF Progress
  <2> QED BY <2>1, <2>2
<1>14. Progress(processor)' /\ processor'.n = processor.n /\ processor' # ProcessorIdle
  <2>1. q # ProcessorIdle
    BY <1>11 DEF ProcessorIdle
  <2> QED BY <1>2, <1>3, <1>10, <1>11, <1>13, <2>1, ProgressAt
<1>15. ProcessorOK'
  BY <1>1, <1>8, <1>14, StageAdvances
<1>16. AlertsOK'
  <2>1. Current \in alerts
    BY <1>6, <1>7 DEF Raised
  <2>2. alertQ \in Seq(alerts) /\ advisories \subseteq alerts
    BY DEF AlertsOK
  <2>3. alertQ' \in Seq(alerts')
    BY <1>1, <2>1, <2>2
  <2> QED BY <1>1, <1>8, <2>2, <2>3, AlertsStep
<1> QED BY <1>15, <1>16

\* The sample is published as processed.
LEMMA PublishProcessedKeeps ==
    ASSUME CraftOK, ProcessorOK, AlertsOK, PublishProcessed
    PROVE  ProcessorOK' /\ AlertsOK'
<1>1. /\ processor.pc = "publish" /\ processed' = processed \cup {processor.n}
      /\ processor' = [processor EXCEPT !.pc = "ack"]
      /\ UNCHANGED <<sent, published, healthQ, rows, alerts, alertQ, advisories>>
  BY DEF PublishProcessed, spaceVars, ingestVars
<1> processor # ProcessorIdle
  BY <1>1, NotIdle DEF Stages
<1>2. PICK p \in Hands : p = processor
  BY InTheHand
<1>3. PICK n \in published : n = p.n
  BY <1>2, InTheHand
<1>4. PICK k \in Nat : k = Len(Violated(n))
  BY ViolatedLength
<1>5. n \in rows /\ Raised(n, k)
  <2>1. Progress(p) /\ p.pc = "publish"
    BY <1>1, <1>2, InTheHand
  <2> QED BY <1>3, <1>4, <2>1 DEF Progress
<1>6. Grows
  <2>1. rows \subseteq published
    BY DEF ProcessorOK
  <2> QED BY <1>1, <2>1, StepGrows
<1>7. Len(Violated(n)') = k
  BY <1>1, <1>4 DEF Violated
<1>8. Raised(n, Len(Violated(n)))'
  <2>1. Raised(n, k)'
    BY <1>5, <1>6, SampleFactsStay
  <2> QED BY <1>7, <2>1 DEF Raised
<1>9. Complete(n)'
  BY <1>1, <1>2, <1>3, <1>5, <1>8 DEF Complete
<1>10. PICK q : q = processor'
  OBVIOUS
<1>11. q \in Hands /\ q.n = n /\ q.pc = "ack"
  <2>1. q = [p EXCEPT !.pc = "ack"]
    BY <1>1, <1>2, <1>10
  <2>2. "ack" \in Stages
    BY DEF Stages
  <2>3. q \in Hands
    BY <2>1, <2>2 DEF Hands
  <2>4. q.n = p.n /\ q.pc = "ack"
    BY <2>1 DEF Hands
  <2> QED BY <1>3, <2>3, <2>4
<1>12. Progress(q)'
  <2>1. Raised(q.n, Len(Violated(q.n)))'
    BY <1>8, <1>11
  <2>2. q.n \in published' /\ q.n \in rows' /\ q.n \in processed'
    BY <1>1, <1>2, <1>3, <1>5, <1>11
  <2> QED BY <1>11, <2>1, <2>2 DEF Progress
<1>13. Progress(processor)' /\ processor'.n = processor.n /\ processor' # ProcessorIdle
  <2>1. q # ProcessorIdle
    BY <1>11 DEF ProcessorIdle
  <2> QED BY <1>2, <1>3, <1>10, <1>11, <1>12, <2>1, ProgressAt
<1>14. \A m \in processed' : m \in processed \/ Complete(m)'
  BY <1>1, <1>2, <1>3, <1>9
<1>15. ProcessorOK'
  BY <1>1, <1>6, <1>13, <1>14, StageAdvances
<1>16. AlertsOK'
  BY <1>1, <1>6, AlertsStep DEF AlertsOK
<1> QED BY <1>15, <1>16

\* It is acknowledged when it is complete, or it waits again.
LEMMA LettingGoKeeps ==
    ASSUME CraftOK, ProcessorOK, AlertsOK, AckHealth \/ ProcessorFails
    PROVE  ProcessorOK' /\ AlertsOK'
<1>1. /\ processor' = ProcessorIdle
      /\ UNCHANGED <<sent, published, rows, alerts, alertQ, processed, advisories>>
      /\ \/ processor.pc = "ack" /\ healthQ' = healthQ
         \/ processor # ProcessorIdle /\ healthQ' = Append(healthQ, processor.n)
  BY DEF AckHealth, ProcessorFails, spaceVars, ingestVars
<1> processor # ProcessorIdle
  BY <1>1, NotIdle DEF Stages
<1>2. PICK p \in Hands : p = processor
  BY InTheHand
<1>3. PICK n \in published : n = p.n
  BY <1>2, InTheHand
<1>4. Grows
  <2>1. rows \subseteq published
    BY DEF ProcessorOK
  <2> QED BY <1>1, <2>1, StepGrows
<1>5. /\ healthQ' \in Seq(Nat) /\ \A i \in 1 .. Len(healthQ') : healthQ'[i] \in published'
      /\ \A m : Waiting(m) => Waiting(m)'
      /\ Waiting(n)' \/ Complete(n)
  <2>1. CASE processor.pc = "ack" /\ healthQ' = healthQ
    <3>1. Progress(p) /\ p.pc = "ack"
      BY <1>2, <2>1, InTheHand
    <3>2. Complete(n)
      BY <1>3, <3>1 DEF Progress, Complete
    <3>3. \A m : Waiting(m) => Waiting(m)'
      BY <2>1 DEF Waiting
    <3> QED BY <1>1, <2>1, <3>2, <3>3 DEF ProcessorOK
  <2>2. CASE healthQ' = Append(healthQ, processor.n)
    <3>1. healthQ' = Append(healthQ, n) /\ n \in published' /\ n \in Nat
      BY <1>1, <1>2, <1>3, <2>2, InTheHand
    <3> QED BY <1>4, <3>1, Enqueued
  <2> QED BY <1>1, <2>1, <2>2
<1>6. \A m : InHand(m) => m = n
  BY <1>2, <1>3 DEF InHand
<1>7. \A m \in published' :
         \/ Waiting(m)' \/ InHand(m)' \/ Complete(m)'
         \/ m \in published /\ Complete(m)
  <2> SUFFICES ASSUME NEW m \in published
               PROVE  Waiting(m)' \/ Complete(m)
    BY <1>1
  <2> QED BY <1>5, <1>6 DEF ProcessorOK
<1>8. ProcessorOK'
  BY <1>1, <1>4, <1>5, <1>7, ProcessorStep
<1>9. AlertsOK'
  BY <1>1, <1>4, AlertsStep DEF AlertsOK
<1> QED BY <1>8, <1>9

\* The advisor comments on an alert, or it comes again.
LEMMA AdviseKeeps ==
    ASSUME CraftOK, ProcessorOK, AlertsOK, Advise
    PROVE  ProcessorOK' /\ AlertsOK'
<1>1. /\ alertQ # <<>>
      /\ alertQ' = Tail(alertQ) \/ alertQ' = Append(Tail(alertQ), Head(alertQ))
      /\ advisories' = advisories \/ advisories' = advisories \cup {Head(alertQ)}
      /\ UNCHANGED <<sent, published, healthQ, processor, rows, alerts, processed>>
  BY DEF Advise, spaceVars, ingestVars, processorVars
<1>2. alertQ \in Seq(alerts) /\ advisories \subseteq alerts
  BY DEF AlertsOK
<1>3. Head(alertQ) \in alerts /\ Tail(alertQ) \in Seq(alerts)
  BY <1>1, <1>2
<1>4. alertQ' \in Seq(alerts') /\ advisories' \subseteq alerts'
  <2>1. Append(Tail(alertQ), Head(alertQ)) \in Seq(alerts)
    BY <1>3
  <2>2. alertQ' \in Seq(alerts)
    BY <1>1, <1>3, <2>1
  <2>3. advisories' \subseteq alerts
    BY <1>1, <1>2, <1>3
  <2> QED BY <1>1, <2>2, <2>3
<1>5. Grows
  <2>1. rows \subseteq published
    BY DEF ProcessorOK
  <2> QED BY <1>1, <2>1, StepGrows
<1>6. AlertsOK'
  BY <1>1, <1>4, <1>5, AlertsStep
<1>7. processor' = ProcessorIdle \/ Progress(processor)'
  BY <1>1, <1>5, ProgressStays DEF ProcessorOK
<1>8. \A m : (Waiting(m) => Waiting(m)') /\ (InHand(m) => InHand(m)')
  BY <1>1 DEF Waiting, InHand
<1>9. healthQ' \in Seq(Nat) /\ \A i \in 1 .. Len(healthQ') : healthQ'[i] \in published'
  BY <1>1 DEF ProcessorOK
<1>10. \A m \in published' :
          \/ Waiting(m)' \/ InHand(m)' \/ Complete(m)'
          \/ m \in published /\ Complete(m)
  BY <1>1, <1>8 DEF ProcessorOK
<1>11. ProcessorOK'
  BY <1>1, <1>5, <1>7, <1>9, <1>10, ProcessorStep
<1> QED BY <1>6, <1>11
-----------------------------------------------------------------------------
(* The invariant and the theorems.                                         *)

LEMMA HealthInvInitially ==
    ASSUME HealthInit
    PROVE  HealthInv
<1>1. CraftOK
  <2>1. craft = PoweredOn(0, 0) /\ sent = <<>> /\ 1200 \in Int /\ 0 \in Numbers
    BY DEF HealthInit, Numbers
  <2>2. craft \in Craft
    BY <2>1 DEF PoweredOn, Craft
  <2>3. sent \in Seq(SampleRecords) /\ Len(sent) = 0
    BY <2>1
  <2> QED BY <2>2, <2>3 DEF CraftOK
<1>2. IngestOK
  <2>1. flying \in [Samples -> Nat] /\ \A n \in Samples : ~ (flying[n] > 0)
    BY DEF HealthInit
  <2>2. observed \in Seq(Nat) /\ Len(observed) = 0 /\ gaps = 0 /\ last = None
    BY DEF HealthInit
  <2>3. GapsAreExact
    BY <2>2, GapsInOrder
  <2> QED BY <2>1, <2>2, <2>3 DEF IngestOK
<1>3. ProcessorOK
  BY DEF HealthInit, ProcessorOK
<1>4. AlertsOK
  BY DEF HealthInit, AlertsOK
<1> QED BY <1>1, <1>2, <1>3, <1>4 DEF HealthInv

LEMMA HealthInvKept ==
    ASSUME HealthInv, [HealthNext]_healthVars
    PROVE  HealthInv'
<1> CraftOK /\ IngestOK /\ ProcessorOK /\ AlertsOK
  BY DEF HealthInv
<1>1. \* What leaves the spacecraft and the ingest alone.
      ASSUME UNCHANGED <<spaceVars, flying, ingestVars>>
      PROVE  CraftOK' /\ IngestOK'
  <2>1. UNCHANGED <<craft, sent, flying, last, gaps, observed>>
    BY <1>1 DEF spaceVars, ingestVars
  <2>2. CraftOK'
    BY <2>1, CommandsKeepCraft
  <2>3. Extends
    BY <2>1, NothingSent
  <2>4. /\ flying' \in [Samples -> Nat]
        /\ \A n \in Samples : flying'[n] > 0 => n <= Len(sent')
    BY <2>1 DEF IngestOK
  <2>5. IngestOK'
    BY <2>1, <2>3, <2>4, IngestFrame
  <2> QED BY <2>2, <2>5
<1>2. CASE Emit
  <2>1. Extends /\ UNCHANGED <<healthQ, published, processorVars, alertQ, advisories>>
    BY <1>2, EmitEffect DEF Emit, ingestVars
  <2> QED BY <1>2, <2>1, EmitKeepsCraft, OthersKeepIngest, ProcessorFrame DEF HealthInv
<1>3. CASE Commanded
  <2>1. /\ UNCHANGED <<sent, healthQ, published, processorVars, alertQ, advisories>>
        /\ \/ \E w \in Int : craft' = [craft EXCEPT !.wheel_rpm = w]
           \/ craft' = [craft EXCEPT !.fault_flags = 0, !.era = @ + 1]
    BY <1>3 DEF Commanded, ingestVars
  <2>2. CraftOK' /\ Extends
    BY <2>1, CommandsKeepCraft, NothingSent
  <2> QED BY <1>3, <2>1, <2>2, OthersKeepIngest, ProcessorFrame DEF HealthInv
<1>4. CASE SpaceFault
  <2>1. /\ UNCHANGED <<sent, healthQ, published, processorVars, alertQ, advisories>>
        /\ craft' = PoweredOn(craft.run + 1, craft.era + 1) \/ UNCHANGED craft
    BY <1>4 DEF SpaceFault, ingestVars
  <2>2. CraftOK' /\ Extends
    BY <2>1, CommandsKeepCraft, NothingSent
  <2> QED BY <1>4, <2>1, <2>2, OthersKeepIngest, ProcessorFrame DEF HealthInv
<1>5. ASSUME NEW n \in Samples, Ingest(n)
      PROVE  HealthInv'
  <2>1. UNCHANGED <<craft, sent>>
    BY <1>5 DEF Ingest, spaceVars
  <2>2. CraftOK'
    BY <2>1, CommandsKeepCraft
  <2> QED BY <1>5, <2>2, IngestKeepsIngest, IngestKeepsProcessor DEF HealthInv
<1>6. CASE IngestRestarts
  <2>1. UNCHANGED <<craft, sent, healthQ, published, processorVars, alertQ, advisories>>
    BY <1>6 DEF IngestRestarts, spaceVars
  <2>2. CraftOK' /\ Extends
    BY <2>1, CommandsKeepCraft, NothingSent
  <2> QED BY <1>6, <2>1, <2>2, OthersKeepIngest, ProcessorFrame DEF HealthInv
<1>7. CASE Take
  BY <1>1, <1>7, TakeKeeps DEF Take, HealthInv
<1>8. CASE InsertHealth
  BY <1>1, <1>8, InsertHealthKeeps DEF InsertHealth, HealthInv
<1>9. CASE InsertAlert
  BY <1>1, <1>9, InsertAlertKeeps DEF InsertAlert, HealthInv
<1>10. CASE PublishAlert
  BY <1>1, <1>10, PublishAlertKeeps DEF PublishAlert, HealthInv
<1>11. CASE PublishProcessed
  BY <1>1, <1>11, PublishProcessedKeeps DEF PublishProcessed, HealthInv
<1>12. CASE AckHealth
  BY <1>1, <1>12, LettingGoKeeps DEF AckHealth, HealthInv
<1>13. CASE ProcessorFails
  BY <1>1, <1>13, LettingGoKeeps DEF ProcessorFails, HealthInv
<1>14. CASE Advise
  BY <1>1, <1>14, AdviseKeeps DEF Advise, HealthInv
<1>15. CASE UNCHANGED healthVars
  <2>1. /\ UNCHANGED <<spaceVars, flying, ingestVars>> /\ UNCHANGED sent
        /\ UNCHANGED <<healthQ, published, processorVars, alertQ, advisories>>
    BY <1>15 DEF healthVars, ingestVars, spaceVars
  <2>2. Extends
    BY <2>1, NothingSent
  <2> QED BY <1>1, <2>1, <2>2, ProcessorFrame DEF HealthInv
<1> QED BY <1>2, <1>3, <1>4, <1>5, <1>6, <1>7, <1>8, <1>9, <1>10, <1>11, <1>12,
           <1>13, <1>14, <1>15 DEF HealthNext, Process

LEMMA HealthInvariant == FairHealth => []HealthInv
BY HealthInvInitially, HealthInvKept, PTL DEF FairHealth

\* While samples of one run of the spacecraft arrive in order, and fewer of them
\* than a number space are lost at once, the gap counter is the number of samples
\* that did not arrive, for every size of the number space and however often it
\* wraps (SequenceTracker.observe, _process).
THEOREM CounterIsExact == FairHealth => []GapsAreExact
<1>1. HealthInv => GapsAreExact
  BY DEF HealthInv, IngestOK
<1> QED BY <1>1, HealthInvariant, PTL

\* A published sample waits, is in hand, or is stored, alerted and published as
\* processed, whatever fails and whatever restarts (process_health).
THEOREM NoPublishedSampleIsLost == FairHealth => []PublishedIsHandled
<1>1. ASSUME HealthInv
      PROVE  PublishedIsHandled
  <2>1. \A n \in published : Waiting(n) \/ InHand(n) \/ Complete(n)
    BY <1>1 DEF HealthInv, ProcessorOK
  <2>2. ASSUME NEW n, Complete(n)
        PROVE  \A v \in Violations(sent[n]) : [n |-> n, violation |-> v] \in alerts
    BY <2>2 DEF Complete, Raised, Violated, Violations
  <2> QED BY <2>1, <2>2 DEF PublishedIsHandled, Waiting, InHand, Complete
<1> QED BY <1>1, HealthInvariant, PTL

\* Every alert has its sample stored and really broken, and only stored alerts are
\* announced or commented on (process_health, advise).
THEOREM EveryAlertIsBacked == FairHealth => []AlertsAreBacked
<1>1. ASSUME HealthInv
      PROVE  AlertsAreBacked
  <2>1. /\ \A a \in alerts : /\ a.n \in rows
                             /\ \E j \in 1 .. Len(Violated(a.n)) :
                                   a.violation = Violated(a.n)[j]
        /\ alertQ \in Seq(alerts) /\ advisories \subseteq alerts
    BY <1>1 DEF HealthInv, AlertsOK
  <2>2. \A a \in alerts : a.violation \in Violations(sent[a.n])
    BY <2>1 DEF Violations, Violated
  <2>3. \A i \in 1 .. Len(alertQ) : alertQ[i] \in alerts
    BY <2>1
  <2> QED BY <2>1, <2>2, <2>3 DEF AlertsAreBacked
<1> QED BY <1>1, HealthInvariant, PTL

\* A processed sample of an era in which an anomaly was sent has its fault alert,
\* and one with the wheel beyond 5500 rpm in either direction its wheel alert
\* (telemetry_loop, evaluate_health, process_health).
THEOREM EveryHazardIsAlerted == FairHealth => []HazardsAreAlerted
<1>1. ASSUME HealthInv
      PROVE  HazardsAreAlerted
  <2> CraftOK /\ ProcessorOK
    BY <1>1 DEF HealthInv
  <2>1. ASSUME NEW m \in processed
        PROVE  Complete(m) /\ m \in 1 .. Len(sent)
    BY DEF ProcessorOK, Complete
  <2>2. ASSUME NEW m \in processed, NEW parameter, Finds(Violated(m), parameter)
        PROVE  \E a \in alerts : a.n = m /\ a.violation.parameter = parameter
    <3>1. PICK i \in 1 .. Len(Violated(m)) : Violated(m)[i].parameter = parameter
      BY <2>2 DEF Finds
    <3>2. PICK a : a = [n |-> m, violation |-> Violated(m)[i]]
      OBVIOUS
    <3>3. a \in alerts
      BY <2>1, <3>2 DEF Complete, Raised
    <3> QED BY <3>1, <3>2, <3>3
  <2>3. ASSUME NEW m \in processed, NEW n \in 1 .. m, sent[n].bus_mv = 22800,
               sent[n].era = sent[m].era
        PROVE  \E a \in alerts : a.n = m /\ a.violation.parameter = "fault_flags"
    <3>1. sent[m].fault_flags = 1
      BY <2>1, <2>3 DEF CraftOK
    <3>2. Finds(Violated(m), "fault_flags")
      BY <3>1, EvaluateFinds DEF Violated
    <3> QED BY <2>2, <3>2
  <2>4. ASSUME NEW m \in processed, sent[m].wheel_rpm > 5500 \/ sent[m].wheel_rpm < -5500
        PROVE  \E a \in alerts : a.n = m /\ a.violation.parameter = "wheel_rpm"
    <3>1. sent[m].wheel_rpm \in Int
      BY <2>1, SentTypes
    <3>2. sent[m].wheel_rpm > 5500 \/ -sent[m].wheel_rpm > 5500
      BY <2>4, <3>1
    <3>3. Finds(Violated(m), "wheel_rpm")
      BY <3>2, EvaluateFinds DEF Violated
    <3> QED BY <2>2, <3>3
  <2> QED BY <2>3, <2>4 DEF HazardsAreAlerted
<1> QED BY <1>1, HealthInvariant, PTL
=============================================================================
