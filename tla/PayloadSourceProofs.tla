------------------------- MODULE PayloadSourceProofs -------------------------
(***************************************************************************)
(* For any number of sessions, numbers, requests, stops and failed writes: *)
(* the payload source hands out packet keys in increasing order, so that   *)
(* none names two frames, and retries are exact.                           *)
(***************************************************************************)
EXTENDS PayloadSource, TLAPS

\* The wire failures of the making modes.
LEMMA WireFailureTyped ==
    ASSUME NEW mode \in MakingModes
    PROVE  WireFailure(mode) \in {"intact", "crc", "version"}
BY DEF WireFailure

\* The number a frame would get is a natural number, not before the next one.
LEMMA SkippedTyped ==
    ASSUME SourceTypeOK, NEW mode
    PROVE  Skipped(mode) \in Nat /\ Skipped(mode) >= next_sequence
BY DEF Skipped, SourceTypeOK

\* Making a frame whose key is new, and sending it: the common part of
\* MakeInSession and MakeAfterRoll.
LEMMA MakeEffect ==
    ASSUME SourceInv, NEW s \in Submitters, NEW mode \in MakingModes,
           NEW b \in 1 .. MaxBoot, NEW q \in 0 .. MaxSequence,
           Begin(s), MakeAndForward(s, mode, b, q),
           Issuer!Before(newest, <<b, q>>)
    PROVE  /\ last_raw' \in IntactFrames \cup {NoFrame}
           /\ submission' \in [Submitters -> {Idle} \cup Forwarding]
           /\ sent' \in SUBSET Deliveries
           /\ made' \in SUBSET Frames
           /\ newest' = <<b, q>>
           /\ submissions' \in 0 .. MaxSubmissions
           /\ MadeInOrder'
           /\ FramesTraced'
           /\ RetriesAreExact'
<1> DEFINE raw == [boot |-> b, seq |-> q, body |-> submissions + 1,
                   wire |-> WireFailure(mode)]
           waiting == [pc |-> "posted", request |-> submissions + 1,
                       raw |-> raw, attempt |-> 1]
           post == [request |-> submissions + 1, raw |-> raw]
<1>1. /\ submissions \in 0 .. MaxSubmissions
      /\ submissions + 1 \in 1 .. MaxSubmissions
      /\ submissions' = submissions + 1
      /\ submissions' \in 0 .. MaxSubmissions
  BY SourceAssumption DEF SourceInv, SourceTypeOK, Begin
<1>2. raw \in Frames
  BY <1>1, WireFailureTyped DEF Frames
<1>3. /\ made' = made \cup {raw}
      /\ newest' = Key(raw)
      /\ last_raw' = IF Remembers(mode) THEN raw ELSE last_raw
      /\ submission' = [submission EXCEPT ![s] = waiting]
      /\ sent' = sent \cup {post}
  BY DEF MakeAndForward, FirstPost
<1>4. Key(raw) = <<b, q>>
  BY DEF Key
<1>4a. Remembers(mode) => raw \in IntactFrames
  <2>1. Remembers(mode) => WireFailure(mode) = "intact"
    BY DEF Remembers, WireFailure
  <2> QED
    BY <1>2, <2>1 DEF IntactFrames
<1> HIDE DEF raw
<1>5. waiting \in Forwarding /\ waiting # Idle /\ post \in Deliveries
  BY <1>1, <1>2 DEF Forwarding, Deliveries, Idle
<1>6. /\ waiting.request = submissions + 1 /\ waiting.raw = raw
      /\ post.request = submissions + 1 /\ post.raw = raw
      /\ post = [request |-> waiting.request, raw |-> waiting.raw]
  OBVIOUS
<1> HIDE DEF waiting, post
<1>7. /\ last_raw' \in IntactFrames \cup {NoFrame}
      /\ submission' \in [Submitters -> {Idle} \cup Forwarding]
      /\ sent' \in SUBSET Deliveries
      /\ made' \in SUBSET Frames
  BY <1>2, <1>3, <1>4a, <1>5 DEF SourceInv, SourceTypeOK
<1>8. MadeInOrder'
  <2>1. \A f \in made : Issuer!Before(Key(f), Key(raw))
    <3> SUFFICES ASSUME NEW f \in made PROVE Issuer!Before(Key(f), Key(raw))
      OBVIOUS
    <3>1. Key(f) = newest \/ Issuer!Before(Key(f), newest)
      BY DEF SourceInv, MadeInOrder
    <3>2. /\ newest[1] \in Int /\ newest[2] \in Int
          /\ Key(f)[1] \in Int /\ Key(f)[2] \in Int
      BY DEF SourceInv, SourceTypeOK, Frames, Key
    <3> QED
      BY <1>4, <3>1, <3>2 DEF Issuer!Before
  <2>2. \A f \in made : Key(f) # Key(raw)
    BY <1>4, <2>1 DEF Issuer!Before, SourceInv, SourceTypeOK, Frames, Key
  <2>3. \A f, g \in made : Key(f) = Key(g) => f = g
    BY DEF SourceInv, MadeInOrder
  <2>4. \A f \in made' : Key(f) = newest' \/ Issuer!Before(Key(f), newest')
    BY <1>3, <2>1
  <2>5. \A f, g \in made' : Key(f) = Key(g) => f = g
    BY <1>3, <2>2, <2>3
  <2> QED
    BY <2>4, <2>5 DEF MadeInOrder, Issuer!Before, Key
<1>9. FramesTraced'
  <2>1. \A d \in sent : d.raw \in made /\ d.request <= submissions
                        /\ d.request \in Int
    BY DEF SourceInv, SourceTypeOK, FramesTraced, Deliveries
  <2>2. \A d \in sent' : d.raw \in made' /\ d.request <= submissions'
    BY <1>1, <1>3, <1>6, <2>1
  <2>3. last_raw' = NoFrame \/ last_raw' \in made'
    BY <1>3 DEF SourceInv, FramesTraced
  <2>4. \A t \in Submitters : submission'[t] # Idle =>
          [request |-> submission'[t].request, raw |-> submission'[t].raw]
             \in sent'
    BY <1>3, <1>6 DEF SourceInv, SourceTypeOK, FramesTraced
  <2> QED
    BY <2>2, <2>3, <2>4 DEF FramesTraced
<1>10. RetriesAreExact'
  <2>1. \A d \in sent : d.request \in Int /\ d.request <= submissions
    BY DEF SourceInv, SourceTypeOK, FramesTraced, Deliveries
  <2>2. \A d \in sent : d.request # post.request
    BY <1>1, <1>6, <2>1
  <2> QED
    BY <1>3, <2>2 DEF SourceInv, RetriesAreExact
<1> QED
  BY <1>1, <1>3, <1>4, <1>7, <1>8, <1>9, <1>10

\* The keys that are new: a later number of the session in progress, number
\* zero of any later session.
LEMMA FreshKeys ==
    ASSUME SourceInv, running
    PROVE  /\ \A q \in Nat : /\ q >= next_sequence
                             /\ q <= MaxSequence
                             => Issuer!Before(newest, <<boot_id, q>>)
           /\ Issuer!Before(newest, <<boot_id + 1, 0>>)
<1>1. /\ newest[1] \in Int /\ newest[2] \in Int /\ boot_id \in Int
      /\ next_sequence \in Int /\ bootFile \in Int
  BY DEF SourceInv, SourceTypeOK
<1>2. /\ newest[1] <= bootFile /\ bootFile <= boot_id
      /\ boot_id = newest[1] => newest[2] < next_sequence
  BY DEF SourceInv, FileCoversKeys
<1> QED
  BY <1>1, <1>2 DEF Issuer!Before

\* A frame of the session in progress.
LEMMA MakeInSessionStep ==
    ASSUME SourceInv, NEW s \in Submitters, NEW mode \in MakingModes,
           MakeInSession(s, mode)
    PROVE  /\ SourceInv'
           /\ Issuer!Issue
<1> DEFINE q == Skipped(mode)
<1>1. /\ q \in Nat /\ q >= next_sequence /\ q <= MaxSequence
      /\ q \in 0 .. MaxSequence
  BY SkippedTyped, SourceAssumption DEF MakeInSession, SourceInv
<1>2. boot_id \in 1 .. MaxBoot /\ running
  BY DEF SourceInv, SourceTypeOK, FileCoversKeys, MakeInSession, Begin
<1>3. Issuer!Before(newest, <<boot_id, q>>)
  BY <1>1, <1>2, FreshKeys
<1>4. /\ Begin(s) /\ MakeAndForward(s, mode, boot_id, q)
      /\ next_sequence' = q + 1
      /\ UNCHANGED <<bootFile, running, boot_id, stops, writeFaults>>
  BY DEF MakeInSession
<1> HIDE DEF q
<1>5. /\ last_raw' \in IntactFrames \cup {NoFrame}
      /\ submission' \in [Submitters -> {Idle} \cup Forwarding]
      /\ sent' \in SUBSET Deliveries
      /\ made' \in SUBSET Frames
      /\ newest' = <<boot_id, q>>
      /\ submissions' \in 0 .. MaxSubmissions
      /\ MadeInOrder' /\ FramesTraced' /\ RetriesAreExact'
  BY <1>1, <1>2, <1>3, <1>4, MakeEffect
<1>6. SourceTypeOK'
  BY <1>1, <1>2, <1>4, <1>5, SourceAssumption DEF SourceInv, SourceTypeOK
<1>7. FileCoversKeys'
  <2>1. next_sequence <= MaxSequence
    BY <1>1, SourceAssumption DEF SourceInv, SourceTypeOK
  <2>2. bootFile = boot_id
    BY <1>2, <2>1 DEF SourceInv, FileCoversKeys
  <2>3. /\ newest'[1] = boot_id /\ newest'[2] = q
        /\ bootFile' = boot_id /\ boot_id' = boot_id
        /\ next_sequence' = q + 1
    BY <1>4, <1>5, <2>2
  <2> QED BY <1>1, <1>2, <2>3 DEF FileCoversKeys
<1>8. Issuer!Issue
  BY <1>1, <1>2, <1>3, <1>5 DEF Issuer!Issue, Issuer!Keys
<1> QED
  BY <1>5, <1>6, <1>7, <1>8 DEF SourceInv

\* The first frame of the next session.
LEMMA MakeAfterRollStep ==
    ASSUME SourceInv, NEW s \in Submitters, NEW mode \in MakingModes,
           MakeAfterRoll(s, mode)
    PROVE  /\ SourceInv'
           /\ Issuer!Issue
<1>1. /\ Begin(s) /\ MakeAndForward(s, mode, boot_id + 1, 0) /\ running
      /\ boot_id < MaxBoot /\ boot_id' = boot_id + 1
      /\ bootFile' = boot_id + 1 /\ next_sequence' = 1
      /\ UNCHANGED <<running, stops, writeFaults>>
  BY DEF MakeAfterRoll, MustRoll, Begin
<1>2. /\ boot_id + 1 \in 1 .. MaxBoot
      /\ 0 \in 0 .. MaxSequence
  BY <1>1, SourceAssumption DEF SourceInv, SourceTypeOK
<1>3. Issuer!Before(newest, <<boot_id + 1, 0>>)
  BY <1>1, FreshKeys
<1>4. /\ last_raw' \in IntactFrames \cup {NoFrame}
      /\ submission' \in [Submitters -> {Idle} \cup Forwarding]
      /\ sent' \in SUBSET Deliveries
      /\ made' \in SUBSET Frames
      /\ newest' = <<boot_id + 1, 0>>
      /\ submissions' \in 0 .. MaxSubmissions
      /\ MadeInOrder' /\ FramesTraced' /\ RetriesAreExact'
  BY <1>1, <1>2, <1>3, MakeEffect
<1>5. SourceTypeOK'
  BY <1>1, <1>2, <1>4 DEF SourceInv, SourceTypeOK
<1>6. FileCoversKeys'
  BY <1>1, <1>2, <1>4 DEF SourceInv, SourceTypeOK, FileCoversKeys
<1>7. Issuer!Issue
  BY <1>2, <1>3, <1>4 DEF Issuer!Issue, Issuer!Keys
<1> QED
  BY <1>4, <1>5, <1>6, <1>7 DEF SourceInv

\* A stop leaves the file as it is or further on.
LEMMA StopEffect ==
    ASSUME SourceTypeOK, FileCoversKeys, NEW file \in bootFile .. MaxBoot,
           StopLeaving(file)
    PROVE  /\ bootFile' \in 0 .. MaxBoot /\ boot_id' \in 0 .. MaxBoot
           /\ next_sequence' \in Nat
           /\ running' \in BOOLEAN
           /\ submissions' \in 0 .. MaxSubmissions
           /\ stops' \in 0 .. MaxStops
           /\ writeFaults' \in 0 .. MaxWriteFaults
           /\ FileCoversKeys'
<1>1. running' = FALSE /\ UNCHANGED <<made, newest>> /\ bootFile' = file
      /\ UNCHANGED <<boot_id, next_sequence, submissions, writeFaults>>
  BY DEF StopLeaving, historyVars
<1>2. /\ bootFile' \in 0 .. MaxBoot /\ boot_id' \in 0 .. MaxBoot
      /\ next_sequence' \in Nat
      /\ submissions' \in 0 .. MaxSubmissions
      /\ writeFaults' \in 0 .. MaxWriteFaults
  BY <1>1, SourceAssumption DEF SourceTypeOK
<1>3. stops' \in 0 .. MaxStops
  BY SourceAssumption DEF StopLeaving, SourceTypeOK
<1>4. newest'[1] <= bootFile'
  BY <1>1, SourceAssumption DEF SourceTypeOK, FileCoversKeys
<1>5. FileCoversKeys'
  BY <1>1, <1>4, Zenon DEF FileCoversKeys
<1> QED BY <1>1, <1>2, <1>3, <1>5

\* Starting, stopping and failing make no frame and send nothing.
LEMMA QuietStep ==
    ASSUME SourceInv,
           \/ Start \/ StopWhileStarting \/ Stop
           \/ \E s \in Submitters : \E mode \in MakingModes :
                \/ StopWhileRolling(s, mode)
                \/ RollFails(s, mode)
                \/ SpaceExhausted(s, mode)
    PROVE  /\ SourceInv'
           /\ UNCHANGED <<made, newest, sent>>
<1>1. /\ UNCHANGED <<made, newest, sent>>
      /\ last_raw' \in {last_raw, NoFrame}
      /\ submission' = submission \/ submission' = [s \in Submitters |-> Idle]
      /\ submissions' = submissions \/ submissions' = submissions + 1
  BY DEF Start, StopWhileStarting, Stop, StopLeaving, StopWhileRolling,
         RollFails, SpaceExhausted, Begin, historyVars
<1>2. MadeInOrder' /\ RetriesAreExact'
  BY <1>1 DEF SourceInv, MadeInOrder, RetriesAreExact, Issuer!Before, Key
<1>3. FramesTraced'
  BY <1>1 DEF SourceInv, SourceTypeOK, FramesTraced, Deliveries
<1>4. /\ bootFile \in 0 .. MaxBoot /\ boot_id \in 0 .. MaxBoot
      /\ next_sequence \in Nat /\ submissions \in 0 .. MaxSubmissions
      /\ stops \in 0 .. MaxStops /\ writeFaults \in 0 .. MaxWriteFaults
      /\ running \in BOOLEAN
      /\ newest[1] \in Int /\ newest[2] \in Int /\ FileCoversKeys
  BY DEF SourceInv, SourceTypeOK
<1> DEFINE Session ==
             /\ bootFile' \in 0 .. MaxBoot /\ boot_id' \in 0 .. MaxBoot
             /\ next_sequence' \in Nat
             /\ running' \in BOOLEAN
           Bounds ==
             /\ submissions' \in 0 .. MaxSubmissions
             /\ stops' \in 0 .. MaxStops
             /\ writeFaults' \in 0 .. MaxWriteFaults
<1>5. Session /\ Bounds /\ FileCoversKeys'
  <2>1. CASE Start
    BY <1>1, <1>4, <2>1, SourceAssumption DEF Start, FileCoversKeys
  <2>2. CASE StopWhileStarting
    BY <1>1, <1>4, <2>2, SourceAssumption DEF StopWhileStarting, FileCoversKeys
  <2>3. CASE Stop
    <3>1. bootFile \in bootFile .. MaxBoot
      BY <1>4, SourceAssumption
    <3> QED BY <2>3, <3>1, StopEffect DEF Stop, SourceInv
  <2>4. ASSUME NEW s \in Submitters, NEW mode \in MakingModes,
               \/ StopWhileRolling(s, mode)
               \/ RollFails(s, mode)
               \/ SpaceExhausted(s, mode)
        PROVE  Session /\ Bounds /\ FileCoversKeys'
    <3>1. Skipped(mode) \in Nat /\ Skipped(mode) >= next_sequence
      BY SkippedTyped DEF SourceInv
    <3>2. CASE StopWhileRolling(s, mode)
      <4>1. boot_id + 1 \in bootFile .. MaxBoot
        BY <1>4, <3>2, SourceAssumption
        DEF StopWhileRolling, StopLeaving, MustRoll, FileCoversKeys
      <4> QED
        BY <3>2, <4>1, StopEffect DEF StopWhileRolling, SourceInv
    <3>3. CASE RollFails(s, mode)
      BY <1>1, <1>4, <3>1, <3>3, SourceAssumption
      DEF RollFails, MustRoll, Begin, FileCoversKeys
    <3>4. CASE SpaceExhausted(s, mode)
      BY <1>1, <1>4, <3>1, <3>4, SourceAssumption
      DEF SpaceExhausted, Begin, FileCoversKeys
    <3> QED BY <2>4, <3>2, <3>3, <3>4
  <2> QED BY <2>1, <2>2, <2>3, <2>4
<1>6. SourceTypeOK'
  <2>1. /\ last_raw' \in IntactFrames \cup {NoFrame}
        /\ submission' \in [Submitters -> {Idle} \cup Forwarding]
    BY <1>1 DEF SourceInv, SourceTypeOK
  <2> QED BY <1>1, <1>5, <2>1 DEF SourceInv, SourceTypeOK
<1> QED
  BY <1>1, <1>2, <1>3, <1>5, <1>6 DEF SourceInv

\* Forwarding remembered or held bytes makes no frame.
LEMMA ForwardStep ==
    ASSUME SourceInv, NEW s \in Submitters,
           DuplicateLast(s) \/ Forward(s)
    PROVE  /\ SourceInv'
           /\ UNCHANGED newest
<1>1. SourceTypeOK /\ FramesTraced /\ RetriesAreExact
      /\ FileCoversKeys /\ MadeInOrder
  BY DEF SourceInv
<1>2. /\ UNCHANGED <<bootFile, running, boot_id, next_sequence, last_raw>>
      /\ UNCHANGED <<made, newest, stops, writeFaults>>
  BY DEF DuplicateLast, Forward, Answered, TryFails, RetryPost, RetryWith,
         sessionVars, historyVars
<1>3. FileCoversKeys'
  BY <1>1, <1>2 DEF FileCoversKeys
<1>4. MadeInOrder'
  BY <1>1, <1>2 DEF MadeInOrder, Issuer!Before, Key
<1> DEFINE Sending ==
             /\ submission' \in [Submitters -> {Idle} \cup Forwarding]
             /\ sent' \in SUBSET Deliveries
             /\ submissions' \in 0 .. MaxSubmissions
<1>5. Sending /\ FramesTraced' /\ RetriesAreExact'
  <2>1. CASE DuplicateLast(s)
    <3> DEFINE waiting == [pc |-> "posted", request |-> submissions + 1,
                           raw |-> last_raw, attempt |-> 1]
               post == [request |-> submissions + 1, raw |-> last_raw]
    <3>1. /\ submission' = [submission EXCEPT ![s] = waiting]
          /\ sent' = sent \cup {post}
          /\ submissions' = submissions + 1
          /\ submissions + 1 \in 1 .. MaxSubmissions
          /\ last_raw \in Frames /\ last_raw \in made
      BY <1>1, <2>1, SourceAssumption
      DEF DuplicateLast, FirstPost, Begin, SourceTypeOK, FramesTraced
    <3>2. /\ waiting \in Forwarding /\ post \in Deliveries
          /\ post = [request |-> waiting.request, raw |-> waiting.raw]
          /\ post.request = submissions + 1 /\ post.raw = last_raw
      BY <3>1 DEF Forwarding, Deliveries
    <3> HIDE DEF waiting, post
    <3>3. Sending
      BY <1>1, <3>1, <3>2, SourceAssumption DEF SourceTypeOK
    <3>4. \A d \in sent : d.raw \in made /\ d.request <= submissions
                          /\ d.request \in Int
      BY <1>1 DEF SourceTypeOK, FramesTraced, Deliveries
    <3>5. submissions \in Int
      BY <1>1 DEF SourceTypeOK
    <3>6. /\ \A d \in sent' : d.raw \in made' /\ d.request <= submissions'
          /\ \A d \in sent : d.request # post.request
      BY <1>2, <3>1, <3>2, <3>4, <3>5
    <3>7. \A t \in Submitters : submission'[t] # Idle =>
            [request |-> submission'[t].request, raw |-> submission'[t].raw]
               \in sent'
      BY <1>1, <3>1, <3>2 DEF SourceTypeOK, FramesTraced
    <3>8. FramesTraced'
      BY <1>1, <1>2, <3>6, <3>7 DEF FramesTraced
    <3>9. RetriesAreExact'
      BY <1>1, <3>1, <3>6 DEF RetriesAreExact
    <3> QED BY <3>3, <3>8, <3>9
  <2>2. CASE Answered(s) \/ TryFails(s)
    <3>1. /\ UNCHANGED <<sent, submissions>>
          /\ \/ submission' = [submission EXCEPT ![s] = Idle]
             \/ /\ submission[s].pc = "posted"
                /\ submission[s].attempt # 3
                /\ submission' = [submission EXCEPT ![s] =
                                    [submission[s] EXCEPT !.pc = "backoff"]]
      BY <2>2 DEF Answered, TryFails
    <3>2. RetriesAreExact'
      BY <1>1, <3>1 DEF RetriesAreExact
    <3>3. CASE submission' = [submission EXCEPT ![s] = Idle]
      BY <1>1, <1>2, <3>1, <3>2, <3>3 DEF SourceTypeOK, FramesTraced
    <3>4. CASE /\ submission[s].pc = "posted"
               /\ submission[s].attempt # 3
               /\ submission' = [submission EXCEPT ![s] =
                                   [submission[s] EXCEPT !.pc = "backoff"]]
      <4>1. submission[s] \in Forwarding /\ submission[s] # Idle
        BY <1>1, <3>4 DEF SourceTypeOK, Idle
      <4>2. /\ [submission[s] EXCEPT !.pc = "backoff"] \in Forwarding
            /\ [submission[s] EXCEPT !.pc = "backoff"].request
                 = submission[s].request
            /\ [submission[s] EXCEPT !.pc = "backoff"].raw = submission[s].raw
        BY <3>4, <4>1 DEF Forwarding
      <4> QED
        BY <1>1, <1>2, <3>1, <3>2, <3>4, <4>1, <4>2
        DEF SourceTypeOK, FramesTraced
    <3> QED BY <3>1, <3>3, <3>4
  <2>3. CASE RetryPost(s)
    <3> DEFINE waiting == [pc |-> "posted",
                           request |-> submission[s].request,
                           raw |-> submission[s].raw,
                           attempt |-> submission[s].attempt + 1]
               post == [request |-> submission[s].request,
                        raw |-> submission[s].raw]
    <3>1. submission[s] \in Forwarding /\ submission[s] # Idle
      BY <1>1, <2>3 DEF SourceTypeOK, Idle, RetryPost
    <3>2. post \in sent
      BY <1>1, <3>1 DEF FramesTraced
    <3>3. /\ submission' = [submission EXCEPT ![s] = waiting]
          /\ sent' = sent
          /\ submissions' = submissions
      BY <2>3, <3>2 DEF RetryPost, RetryWith
    <3>4. RetriesAreExact'
      BY <1>1, <3>3 DEF RetriesAreExact
    <3>5. FramesTraced'
      BY <1>1, <1>2, <3>2, <3>3 DEF SourceTypeOK, FramesTraced
    <3>6. waiting \in Forwarding
      BY <2>3, <3>1 DEF Forwarding, RetryPost
    <3>7. Sending
      BY <1>1, <3>3, <3>6 DEF SourceTypeOK
    <3> QED BY <3>4, <3>5, <3>7
  <2> QED BY <2>1, <2>2, <2>3 DEF Forward
<1>6. SourceTypeOK'
  BY <1>1, <1>2, <1>5 DEF SourceTypeOK
<1> QED
  BY <1>2, <1>3, <1>4, <1>5, <1>6 DEF SourceInv

\* The invariant holds at the start, every step keeps it, and every step hands
\* out a later key or none.
LEMMA SourceInitial == SourceInit => SourceInv
<1> SUFFICES ASSUME SourceInit PROVE SourceInv
  OBVIOUS
<1>1. SourceTypeOK
  <2>1. newest \in (0 .. MaxBoot) \X (0 .. MaxSequence)
    BY SourceAssumption DEF SourceInit
  <2>2. submission \in [Submitters -> {Idle} \cup Forwarding]
    BY DEF SourceInit
  <2>3. /\ bootFile \in 0 .. MaxBoot /\ boot_id \in 0 .. MaxBoot
        /\ next_sequence \in Nat /\ submissions \in 0 .. MaxSubmissions
        /\ stops \in 0 .. MaxStops /\ writeFaults \in 0 .. MaxWriteFaults
    BY SourceAssumption DEF SourceInit
  <2>4. /\ running \in BOOLEAN /\ last_raw \in IntactFrames \cup {NoFrame}
        /\ sent \in SUBSET Deliveries /\ made \in SUBSET Frames
    BY Zenon DEF SourceInit
  <2> QED
    BY <2>1, <2>2, <2>3, <2>4 DEF SourceTypeOK
<1>2. FileCoversKeys
  <2>1. newest[1] <= bootFile /\ ~running
    BY DEF SourceInit
  <2> QED BY <2>1, Zenon DEF FileCoversKeys
<1>3. MadeInOrder /\ FramesTraced /\ RetriesAreExact
  BY DEF SourceInit, MadeInOrder, FramesTraced, RetriesAreExact
<1> QED BY <1>1, <1>2, <1>3 DEF SourceInv

LEMMA SourceStep ==
    ASSUME SourceInv, [SourceNext]_sourceVars
    PROVE  SourceInv' /\ [Issuer!Issue]_newest
<1>1. CASE UNCHANGED sourceVars
  BY <1>1 DEF sourceVars, sessionVars, historyVars, SourceInv, SourceTypeOK,
              FileCoversKeys, MadeInOrder, FramesTraced, RetriesAreExact,
              Issuer!Before, Key
<1>2. CASE Start \/ StopWhileStarting \/ Stop
  BY <1>2, QuietStep
<1>3. ASSUME NEW s \in Submitters, Make(s) \/ Forward(s)
      PROVE  SourceInv' /\ [Issuer!Issue]_newest
  <2>1. CASE DuplicateLast(s) \/ Forward(s)
    BY <2>1, ForwardStep
  <2>2. ASSUME NEW mode \in MakingModes, MakeInSession(s, mode)
        PROVE  SourceInv' /\ [Issuer!Issue]_newest
    BY <2>2, MakeInSessionStep
  <2>3. ASSUME NEW mode \in MakingModes, MakeAfterRoll(s, mode)
        PROVE  SourceInv' /\ [Issuer!Issue]_newest
    BY <2>3, MakeAfterRollStep
  <2>4. ASSUME NEW mode \in MakingModes,
               \/ StopWhileRolling(s, mode)
               \/ RollFails(s, mode)
               \/ SpaceExhausted(s, mode)
        PROVE  SourceInv' /\ [Issuer!Issue]_newest
    BY <2>4, QuietStep
  <2> QED BY <1>3, <2>1, <2>2, <2>3, <2>4 DEF Make
<1> QED BY <1>1, <1>2, <1>3 DEF SourceNext

\* The variables of vendor_simulator.py have their types, for all bounds.
THEOREM SourceTypeCorrect == SourceSpec => []SourceTypeOK
<1>1. SourceInv => SourceTypeOK
  BY DEF SourceInv
<1> QED BY <1>1, SourceInitial, SourceStep, PTL DEF SourceSpec

\* No packet key is ever sent with two different contents (make_frame,
\* _roll_session_if_needed, _load_next_boot_id, DUPLICATE_LAST).
THEOREM KeysAreUnique == SourceSpec => []KeysNameOneFrame
<1>1. SourceInv => KeysNameOneFrame
  BY DEF SourceInv, MadeInOrder, FramesTraced, KeysNameOneFrame
<1> QED BY <1>1, SourceInitial, SourceStep, PTL DEF SourceSpec

\* All tries under one request identifier carry the same bytes
\* (VendorForwarder.forward).
THEOREM RetriesExact == SourceSpec => []RetriesAreExact
<1>1. SourceInv => RetriesAreExact
  BY DEF SourceInv
<1> QED BY <1>1, SourceInitial, SourceStep, PTL DEF SourceSpec

\* The source hands out keys in strictly increasing order over all restarts,
\* rollovers and failed writes: it implements KeyIssuer.
THEOREM SourceImplementsIssuer == SourceSpec => IssuesIncreasingKeys
<1>1. SourceInit => Issuer!IssuerInit
  BY DEF SourceInit, Issuer!IssuerInit, Issuer!NoKey
<1> QED
  BY <1>1, SourceInitial, SourceStep, PTL
  DEF SourceSpec, IssuesIncreasingKeys, Issuer!IssuerSpec
=============================================================================
