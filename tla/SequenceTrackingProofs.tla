----------------------- MODULE SequenceTrackingProofs -----------------------
(***************************************************************************)
(* The session row stays exact for a number space and a session of any     *)
(* size.  The inductive invariant is TrackingInv: the type and the high-   *)
(* water mark first, since the counters are only right while the mark is   *)
(* the newest frame received.                                              *)
(***************************************************************************)
EXTENDS SequenceTracking, FiniteSetTheorems, TLAPS

USE ModulusAssumption

TrackingInv == TrackingTypeOK /\ HighWaterIsNewest
-----------------------------------------------------------------------------
(* Arithmetic of the number space.                                         *)

\* Half of the space is a number of its own, since the space is even.
LEMMA HalfRangeFact == HalfRange \in Nat /\ Modulus = 2 * HalfRange
BY DEF HalfRange

\* (current - last) % UINT32_MODULUS without the modulus: numbers wrap once.
LEMMA DistanceFact ==
    ASSUME NEW last \in SequenceNumbers, NEW current \in SequenceNumbers
    PROVE  ForwardDistance(last, current)
             = IF last <= current THEN current - last ELSE current - last + Modulus
BY DEF SequenceNumbers, ForwardDistance

\* Frames are numbers, so "no frame yet" is none of them.
LEMMA FramesAreNumbers == Frames \subseteq Nat /\ None \notin Frames
<1>1. \A f \in Frames : f \in Nat /\ f \in Int
  BY FramesAssumption DEF SequenceNumbers
<1>2. None \notin Int
  OBVIOUS
<1> QED BY ONLY <1>1, <1>2, Zenon

\* What storage.py decides inside one session: an older frame is LATE, a newer
\* one IN_ORDER or GAP.
LEMMA DispositionInSession ==
    ASSUME NEW last \in Frames, NEW s \in Frames
    PROVE  /\ s = last => StorageDisposition(last, s) = "SEQUENCE_STATE_CONFLICT"
           /\ s < last => StorageDisposition(last, s) = "LATE"
           /\ s = last + 1 => StorageDisposition(last, s) = "IN_ORDER"
           /\ s > last + 1 => StorageDisposition(last, s) = "GAP"
<1>1. last \in SequenceNumbers /\ s \in SequenceNumbers
  BY FramesAssumption
<1>2. s - last < HalfRange /\ last - s < HalfRange
  BY FramesAssumption
<1>3. last # None
  BY FramesAreNumbers
<1> DEFINE d == ForwardDistance(last, s)
<1>4. d = IF last <= s THEN s - last ELSE s - last + Modulus
  BY <1>1, DistanceFact
<1>5. /\ s = last => d = 0
      /\ s < last => d \in Int /\ d > HalfRange
      /\ s = last + 1 => d = 1
      /\ s > last + 1 => d \in Int /\ d > 1 /\ d < HalfRange
  BY <1>1, <1>2, <1>4, HalfRangeFact DEF SequenceNumbers
<1> HIDE DEF d
<1>7. StorageDisposition(last, s) =
        IF d = 0 THEN "SEQUENCE_STATE_CONFLICT"
        ELSE IF d = 1 THEN "IN_ORDER" ELSE IF d < HalfRange THEN "GAP" ELSE "LATE"
  BY <1>3 DEF StorageDisposition, d
<1>8. s < last => d # 0 /\ d # 1 /\ ~ (d < HalfRange)
  <2>1. ASSUME s < last PROVE HalfRange >= 1
    BY <1>1, <1>2, <2>1, HalfRangeFact DEF SequenceNumbers
  <2> QED BY <2>1, <1>5, HalfRangeFact
<1> QED BY <1>1, <1>5, <1>7, <1>8, HalfRangeFact DEF SequenceNumbers
-----------------------------------------------------------------------------
(* The type and the high-water mark.                                       *)

\* What accepting a frame does, by the three ways it can relate to the mark:
\* the first of its session, older, newer.
LEMMA AcceptEffect ==
    ASSUME TrackingInv, NEW s \in Frames, AcceptFrame(s)
    PROVE  /\ s \in Nat /\ s \notin Received
           /\ Received' = Received \cup {s}
           /\ acceptedCount' = acceptedCount + 1
           /\ \/ /\ highWater = None /\ highWater' = s /\ Received = {}
                 /\ disposition'[s] = "FIRST" /\ Late' = Late
                 /\ missingCount' = missingCount + s
              \/ /\ highWater \in Received /\ s < highWater /\ highWater' = highWater
                 /\ disposition'[s] = "LATE" /\ Late' = Late \cup {s}
                 /\ missingCount' = missingCount
              \/ /\ highWater \in Received /\ s > highWater /\ highWater' = s
                 /\ disposition'[s] \in {"IN_ORDER", "GAP"} /\ Late' = Late
                 /\ missingCount' = missingCount + (s - highWater - 1)
<1> DEFINE d == StorageDisposition(highWater, s)
<1>1. s \in SequenceNumbers /\ s \in Nat
  BY FramesAssumption DEF SequenceNumbers
<1>2. s \notin Received
  BY DEF AcceptFrame, Received
<1>3. /\ disposition' = [disposition EXCEPT ![s] = d]
      /\ d # "SEQUENCE_STATE_CONFLICT"
      /\ highWater' = IF d \in {"FIRST", "IN_ORDER", "GAP"} THEN s ELSE highWater
      /\ acceptedCount' = acceptedCount + 1
      /\ missingCount' = missingCount + StorageMissingBefore(highWater, s)
  BY DEF AcceptFrame, StorageNextHighWater, StorageAdvances
<1>4. StorageMissingBefore(highWater, s) =
        CASE d = "FIRST" -> s
          [] d = "GAP" -> ForwardDistance(highWater, s) - 1
          [] OTHER -> 0
  BY DEF StorageMissingBefore
<1>5. disposition \in [Frames -> {"FIRST", "IN_ORDER", "GAP", "LATE", None}]
  BY DEF TrackingInv, TrackingTypeOK
<1>6. missingCount \in Nat
  BY DEF TrackingInv, TrackingTypeOK
<1>7. ASSUME d \in {"FIRST", "IN_ORDER", "GAP", "LATE"}
      PROVE  /\ Received' = Received \cup {s}
             /\ disposition'[s] = d
             /\ Late' = IF d = "LATE" THEN Late \cup {s} ELSE Late
  <2>1. d # None /\ disposition'[s] = d
    BY <1>3, <1>5, <1>7, FramesAssumption
  <2>2. \A t \in Frames : t # s => disposition'[t] = disposition[t]
    BY <1>3, <1>5
  <2> HIDE DEF d
  <2>3. disposition[s] = None
    BY DEF AcceptFrame
  <2> QED BY <2>1, <2>2, <2>3, <1>7, FramesAssumption DEF Received, Late
<1>8. CASE highWater = None
  <2>1. d = "FIRST"
    BY <1>8 DEF StorageDisposition
  <2>2. Received = {}
    <3>1. None \notin Received
      BY FramesAreNumbers DEF Received
    <3> QED BY <1>8, <3>1 DEF TrackingInv, HighWaterIsNewest
  <2> HIDE DEF d
  <2> QED BY <1>1, <1>2, <1>3, <1>4, <1>7, <1>8, <2>1, <2>2
<1>9. CASE highWater # None
  <2>1. highWater \in Received /\ highWater \in Frames
    BY <1>9 DEF TrackingInv, HighWaterIsNewest, Received
  <2>2. highWater \in SequenceNumbers /\ highWater \in Nat
    BY <2>1, FramesAssumption DEF SequenceNumbers
  <2>3. highWater # s
    BY <2>1, <1>2
  <2>4. CASE s < highWater
    <3>1. d = "LATE"
      BY <2>1, <2>4, DispositionInSession
    <3> HIDE DEF d
    <3> QED BY <1>1, <1>2, <1>3, <1>4, <1>6, <1>7, <2>1, <2>4, <3>1
  <2>5. CASE s > highWater
    <3>1. \/ s = highWater + 1 /\ d = "IN_ORDER"
          \/ s > highWater + 1 /\ d = "GAP"
      BY <1>1, <2>1, <2>2, <2>5, DispositionInSession
    <3>2. ForwardDistance(highWater, s) = s - highWater
      BY <1>1, <2>2, <2>5, DistanceFact
    <3> HIDE DEF d
    <3>3. StorageMissingBefore(highWater, s) = s - highWater - 1
      BY <1>1, <1>4, <2>2, <3>1, <3>2
    <3> QED BY <1>1, <1>2, <1>3, <1>7, <2>1, <2>5, <3>1, <3>3
  <2> QED BY <1>1, <2>2, <2>3, <2>4, <2>5
<1> QED BY <1>8, <1>9

\* Accepting a frame keeps the type and the meaning of the mark.
LEMMA AcceptKeepsInv ==
    ASSUME TrackingInv, NEW s \in Frames, AcceptFrame(s)
    PROVE  TrackingInv'
<1> USE AcceptEffect
<1>1. TrackingTypeOK'
  <2>1. disposition' \in [Frames -> {"FIRST", "IN_ORDER", "GAP", "LATE", None}]
    <3>1. disposition'[s] \in {"FIRST", "IN_ORDER", "GAP", "LATE"}
      OBVIOUS
    <3>2. disposition' = [disposition EXCEPT ![s] = StorageDisposition(highWater, s)]
      BY DEF AcceptFrame
    <3>3. disposition \in [Frames -> {"FIRST", "IN_ORDER", "GAP", "LATE", None}]
      BY DEF TrackingInv, TrackingTypeOK
    <3> QED BY <3>1, <3>2, <3>3
  <2>2. highWater' \in Frames \cup {None}
    BY DEF TrackingInv, TrackingTypeOK
  <2>3. acceptedCount' \in Nat
    BY DEF TrackingInv, TrackingTypeOK
  <2>4. missingCount' \in Nat
    <3>1. missingCount \in Nat
      BY DEF TrackingInv, TrackingTypeOK
    <3>2. highWater \in Received => highWater \in Nat
      BY FramesAreNumbers DEF Received
    <3> QED BY <3>1, <3>2
  <2> QED BY <2>1, <2>2, <2>3, <2>4 DEF TrackingTypeOK
<1>2. HighWaterIsNewest'
  <2>1. \A t \in Received : t \in Nat
    BY FramesAreNumbers DEF Received
  <2>2. highWater \in Received => \A t \in Received : t <= highWater
    BY DEF TrackingInv, HighWaterIsNewest
  <2>3. highWater' \in Received' /\ \A t \in Received' : t <= highWater'
    BY <2>1, <2>2
  <2>4. Received' # {}
    BY <2>3
  <2> QED BY <2>3, <2>4 DEF HighWaterIsNewest
<1> QED BY <1>1, <1>2 DEF TrackingInv

\* The inductive invariant holds in every reachable state.
LEMMA TrackingInvariant == TrackingSpec => []TrackingInv
<1>1. TrackingInit => TrackingInv
  BY FramesAssumption DEF TrackingInit, TrackingInv, TrackingTypeOK,
                          HighWaterIsNewest, Received
<1>2. TrackingInv /\ [TrackingNext]_trackingVars => TrackingInv'
  <2> SUFFICES ASSUME TrackingInv, [TrackingNext]_trackingVars PROVE TrackingInv'
    OBVIOUS
  <2>1. CASE TrackingNext
    BY <2>1, AcceptKeepsInv DEF TrackingNext
  <2>2. CASE UNCHANGED trackingVars
    BY <2>2 DEF trackingVars, TrackingInv, TrackingTypeOK, HighWaterIsNewest,
                Received
  <2> QED BY <2>1, <2>2
<1> QED BY <1>1, <1>2, PTL DEF TrackingSpec

\* The session row always has its type: in particular missing_packet_count
\* never goes below zero.
THEOREM TrackingTypeCorrect == TrackingSpec => []TrackingTypeOK
BY TrackingInvariant, PTL DEF TrackingInv

\* In any order of arrival high_water_sequence is the newest frame received.
THEOREM HighWaterExact == TrackingSpec => []HighWaterIsNewest
BY TrackingInvariant, PTL DEF TrackingInv

\* Accepting frames one by one never takes the SEQUENCE_STATE_CONFLICT branch:
\* where it is taken, transactions have overlapped.
THEOREM NoConflictWhenSerial == TrackingSpec => []NoFalseStateConflict
<1>1. TrackingInv => NoFalseStateConflict
  <2> SUFFICES ASSUME TrackingInv, NEW s \in Frames \ Received
               PROVE  StorageDisposition(highWater, s) # "SEQUENCE_STATE_CONFLICT"
    BY DEF NoFalseStateConflict
  <2>1. CASE highWater = None
    BY <2>1 DEF StorageDisposition
  <2>2. CASE highWater # None
    <3>1. highWater \in Received /\ highWater \in Frames /\ s # highWater
      BY <2>2 DEF TrackingInv, HighWaterIsNewest, Received
    <3>2. \/ s < highWater \/ s = highWater + 1 \/ s > highWater + 1
      BY <3>1, FramesAreNumbers
    <3> QED BY <3>1, <3>2, DispositionInSession
  <2> QED BY <2>1, <2>2
<1> QED BY <1>1, TrackingInvariant, PTL
-----------------------------------------------------------------------------
(* The counters.                                                           *)

\* Everything counted is finite, because a session is part of the number space.
LEMMA CountedSetsFinite ==
    ASSUME NEW hw \in Nat
    PROVE  /\ IsFiniteSet(Received) /\ IsFiniteSet(Late)
           /\ IsFiniteSet((0..hw) \ Received)
<1>1. IsFiniteSet(0..(Modulus - 1)) /\ IsFiniteSet(0..hw)
  BY FS_Interval
<1>2. IsFiniteSet(Frames)
  BY <1>1, FS_Subset, FramesAssumption DEF SequenceNumbers
<1> QED BY <1>1, <1>2, FS_Subset, FS_Difference DEF Received, Late

\* One more frame moves both sides of the account alike: the first frame opens
\* the gap before it, a late frame closes one position, a newer frame opens the
\* positions it skips.
LEMMA AcceptKeepsAccount ==
    ASSUME TrackingInv, GapsAccounted, NEW s \in Frames, AcceptFrame(s)
    PROVE  GapsAccounted'
<1> DEFINE Missing == (0..highWater) \ Received
<1>1. IsFiniteSet(Received) /\ IsFiniteSet(Late) /\ s \in Nat
  BY CountedSetsFinite, AcceptEffect
<1>2. Cardinality(Late) \in Nat /\ missingCount \in Nat
  BY <1>1, FS_CardinalityType DEF TrackingInv, TrackingTypeOK
<1>3. acceptedCount' = Cardinality(Received')
  <2>1. Cardinality(Received \cup {s}) = Cardinality(Received) + 1
    BY <1>1, FS_AddElement, AcceptEffect
  <2> QED BY <2>1, AcceptEffect DEF GapsAccounted
<1>4. highWater' \in Nat /\ highWater' # None
  BY AcceptEffect, FramesAreNumbers DEF Received
<1>5. missingCount' - Cardinality(Late') = Cardinality((0..highWater') \ Received')
  <2>1. CASE highWater = None
    <3>1. missingCount = 0 /\ Received' = {s} /\ highWater' = s
      BY <2>1, AcceptEffect, FramesAreNumbers DEF GapsAccounted, Received
    <3>2. Late = {} /\ Late' = {}
      BY <2>1, AcceptEffect, FramesAreNumbers, FramesAssumption DEF Received, Late
    <3>3. Cardinality(Late') = 0
      BY <3>2, FS_EmptySet
    <3>4. (0..s) \ {s} = 0..(s - 1)
      BY <1>1
    <3>5. Cardinality(0..(s - 1)) = s
      BY <1>1, FS_Interval
    <3>6. missingCount' = s
      BY <1>1, <2>1, <3>1, AcceptEffect, FramesAreNumbers DEF Received
    <3>7. Cardinality((0..highWater') \ Received') = s
      BY <3>1, <3>4, <3>5
    <3> QED BY <1>1, <3>3, <3>6, <3>7
  <2>2. CASE highWater \in Received /\ s < highWater
    <3>1. /\ highWater \in Nat /\ highWater' = highWater /\ highWater # None
          /\ missingCount' = missingCount /\ Late' = Late \cup {s}
      <4>1. highWater \in Nat /\ highWater # None
        BY <2>2, FramesAreNumbers DEF Received
      <4> QED BY <1>1, <2>2, <4>1, AcceptEffect
    <3>2. missingCount - Cardinality(Late) = Cardinality(Missing)
      BY <3>1 DEF GapsAccounted
    <3>3. IsFiniteSet(Missing) /\ s \in Missing
      BY <1>1, <2>2, <3>1, CountedSetsFinite, AcceptEffect
    <3>4. (0..highWater') \ Received' = Missing \ {s}
      BY <3>1, AcceptEffect
    <3>5. Cardinality(Missing \ {s}) = Cardinality(Missing) - 1
      BY <3>3, FS_RemoveElement
    <3>6. Cardinality(Late \cup {s}) = Cardinality(Late) + 1
      <4>1. s \notin Late
        BY AcceptEffect, FramesAssumption DEF Late, Received
      <4> QED BY <1>1, <4>1, FS_AddElement
    <3>7. Cardinality(Missing) \in Nat
      BY <3>3, FS_CardinalityType
    <3> HIDE DEF Missing
    <3> QED BY <1>2, <3>1, <3>2, <3>4, <3>5, <3>6, <3>7
  <2>3. CASE highWater \in Received /\ s > highWater
    <3> DEFINE Skipped == (highWater + 1)..(s - 1)
    <3>1. /\ highWater \in Nat /\ highWater' = s /\ highWater # None
          /\ missingCount' = missingCount + (s - highWater - 1) /\ Late' = Late
      <4>1. highWater \in Nat /\ highWater # None
        BY <2>3, FramesAreNumbers DEF Received
      <4> QED BY <1>1, <2>3, <4>1, AcceptEffect
    <3>2. missingCount - Cardinality(Late) = Cardinality(Missing)
      BY <3>1 DEF GapsAccounted
    <3>3. \A t \in Received : t \in Nat /\ t <= highWater
      BY <2>3, FramesAreNumbers DEF TrackingInv, HighWaterIsNewest, Received
    <3>4. (0..s) \ (Received \cup {s}) = Missing \cup Skipped
      BY <1>1, <2>3, <3>1, <3>3
    <3>5. IsFiniteSet(Missing) /\ IsFiniteSet(Skipped) /\ Missing \cap Skipped = {}
      <4>1. IsFiniteSet(Missing)
        BY <3>1, CountedSetsFinite
      <4>2. IsFiniteSet(Skipped)
        BY <1>1, <3>1, FS_Interval
      <4> QED BY <1>1, <3>1, <4>1, <4>2
    <3>6. Cardinality(Skipped) = s - highWater - 1
      BY <1>1, <2>3, <3>1, FS_Interval
    <3>7. Cardinality(Missing \cup Skipped) = Cardinality(Missing) + Cardinality(Skipped)
      <4>1. /\ Cardinality(Missing) \in Nat /\ Cardinality(Skipped) \in Nat
            /\ Cardinality(Missing \cap Skipped) = 0
        BY <3>5, FS_CardinalityType, FS_EmptySet
      <4>2. Cardinality(Missing \cup Skipped) = Cardinality(Missing)
              + Cardinality(Skipped) - Cardinality(Missing \cap Skipped)
        BY <3>5, FS_Union
      <4> HIDE DEF Missing, Skipped
      <4> QED BY <4>1, <4>2
    <3>8. Cardinality(Missing) \in Nat
      BY <3>5, FS_CardinalityType
    <3>9. (0..highWater') \ Received' = Missing \cup Skipped
      BY <3>1, <3>4, AcceptEffect
    <3> HIDE DEF Missing, Skipped
    <3> QED BY <1>1, <1>2, <3>1, <3>2, <3>6, <3>7, <3>8, <3>9
  <2> QED BY <2>1, <2>2, <2>3, AcceptEffect
<1> QED BY <1>3, <1>4, <1>5 DEF GapsAccounted

\* accepted_packet_count is the number of packet rows, and missing_packet_count
\* less the late arrivals is the number of unobserved positions up to the mark,
\* for every session and every order of arrival.
THEOREM CountersExact == TrackingSpec => []GapsAccounted
<1>1. TrackingInit => GapsAccounted
  BY FS_EmptySet DEF TrackingInit, GapsAccounted, Received
<1>2. TrackingInv /\ GapsAccounted /\ [TrackingNext]_trackingVars => GapsAccounted'
  <2> SUFFICES ASSUME TrackingInv, GapsAccounted, [TrackingNext]_trackingVars
               PROVE  GapsAccounted'
    OBVIOUS
  <2>1. CASE TrackingNext
    BY <2>1, AcceptKeepsAccount DEF TrackingNext
  <2>2. CASE UNCHANGED trackingVars
    BY <2>2 DEF trackingVars, GapsAccounted, Received, Late
  <2> QED BY <2>1, <2>2
<1> QED BY <1>1, <1>2, TrackingInvariant, PTL DEF TrackingSpec
-----------------------------------------------------------------------------
(* The two implementations of the decision.                                *)

\* One frame against one mark: with distance d, both sources give decision e.
LEMMA SameDecision ==
    ASSUME NEW last \in SequenceNumbers \cup {None}, NEW s \in SequenceNumbers
    PROVE  LET e == decide_sequence(last, s, "absent") IN
           /\ e.disposition = StorageName(s, StorageDisposition(last, s))
           /\ e.missing = StorageMissingBefore(last, s)
           /\ e.advances = StorageAdvances(last, s)
           /\ e.next_high_water = StorageNextHighWater(last, s)
<1> DEFINE d == ForwardDistance(last, s)
           e == decide_sequence(last, s, "absent")
           r == StorageDisposition(last, s)
           n == StorageName(s, r)
           m == StorageMissingBefore(last, s)
<1>1. CASE last = None
  <2>1. e = Decision(IF s = 0 THEN "FIRST_IN_ORDER" ELSE "FIRST_WITH_GAP",
                     TRUE, TRUE, TRUE, s, s)
    BY <1>1, Zenon DEF decide_sequence
  <2>2. r = "FIRST"
    BY <1>1 DEF StorageDisposition
  <2>3. m = s
    BY <2>2, Zenon DEF StorageMissingBefore
  <2>4. n = IF s = 0 THEN "FIRST_IN_ORDER" ELSE "FIRST_WITH_GAP"
    BY <2>2, Zenon DEF StorageName
  <2> HIDE DEF e, n, m
  <2>5. e.disposition = n /\ e.missing = m /\ e.advances = TRUE /\ e.next_high_water = s
    BY <2>1, <2>3, <2>4 DEF Decision
  <2> QED BY <2>2, <2>5 DEF StorageAdvances, StorageNextHighWater, e, n, m
<1>2. CASE last # None
  <2>1. last \in SequenceNumbers /\ d \in Nat
    BY <1>2, DistanceFact DEF SequenceNumbers
  <2>2. r = IF d = 0 THEN "SEQUENCE_STATE_CONFLICT"
            ELSE IF d = 1 THEN "IN_ORDER"
            ELSE IF d < HalfRange THEN "GAP" ELSE "LATE"
    BY <1>2 DEF StorageDisposition
  <2>3. /\ d # 0 /\ d # 1 /\ d < HalfRange => d \in 2..(HalfRange - 1)
        /\ d \in 2..(HalfRange - 1) => d # 0 /\ d # 1 /\ d < HalfRange
    BY <2>1, HalfRangeFact
  <2>4. CASE d = 0
    <3>1. e = Decision("SequenceStateError", FALSE, FALSE, FALSE, last, 0)
      <4>1. d # 1
        BY <2>4
      <4> QED BY <1>2, <2>3, <2>4, <4>1, Zenon DEF decide_sequence
    <3>2. r = "SEQUENCE_STATE_CONFLICT"
      BY <2>2, <2>4
    <3>3. n = "SequenceStateError" /\ m = 0
      BY <3>2, Zenon DEF StorageName, StorageMissingBefore
    <3> HIDE DEF e, n, m
    <3>4. e.disposition = n /\ e.missing = m /\ e.advances = FALSE
            /\ e.next_high_water = last
      BY <3>1, <3>3 DEF Decision
    <3>5. StorageAdvances(last, s) = FALSE
      BY <3>2 DEF StorageAdvances
    <3>6. StorageNextHighWater(last, s) = last
      BY <3>5, Zenon DEF StorageNextHighWater
    <3> QED BY <3>4, <3>5, <3>6, Zenon DEF e, n, m
  <2>5. CASE d = 1
    <3>1. e = Decision("IN_ORDER", TRUE, TRUE, TRUE, s, 0)
      <4>1. d # 0
        BY <2>5
      <4> QED BY <1>2, <2>3, <2>5, <4>1, Zenon DEF decide_sequence
    <3>2. r = "IN_ORDER"
      BY <2>2, <2>5
    <3>3. n = "IN_ORDER" /\ m = 0
      BY <3>2, Zenon DEF StorageName, StorageMissingBefore
    <3> HIDE DEF e, n, m
    <3>4. e.disposition = n /\ e.missing = m /\ e.advances = TRUE /\ e.next_high_water = s
      BY <3>1, <3>3 DEF Decision
    <3>5. StorageAdvances(last, s) = TRUE
      BY <3>2, Zenon DEF StorageAdvances
    <3>6. StorageNextHighWater(last, s) = s
      BY <3>5, Zenon DEF StorageNextHighWater
    <3> QED BY <3>4, <3>5, <3>6, Zenon DEF e, n, m
  <2>6. CASE d # 0 /\ d # 1 /\ d < HalfRange
    <3>1. e = Decision("GAP", TRUE, TRUE, TRUE, s, d - 1)
      BY <1>2, <2>3, <2>6, Zenon DEF decide_sequence
    <3>2. r = "GAP"
      BY <2>2, <2>6
    <3>3. n = "GAP" /\ m = d - 1
      BY <3>2, Zenon DEF StorageName, StorageMissingBefore
    <3> HIDE DEF d, e, n, m
    <3>4. e.disposition = n /\ e.missing = m /\ e.advances = TRUE /\ e.next_high_water = s
      BY <3>1, <3>3 DEF Decision
    <3>5. StorageAdvances(last, s) = TRUE
      BY <3>2, Zenon DEF StorageAdvances
    <3>6. StorageNextHighWater(last, s) = s
      BY <3>5, Zenon DEF StorageNextHighWater
    <3> QED BY <3>4, <3>5, <3>6, Zenon DEF e, n, m
  <2>7. CASE d # 0 /\ d # 1 /\ ~ (d < HalfRange)
    <3>1. e = Decision("LATE_OR_OUT_OF_ORDER", TRUE, TRUE, FALSE, last, 0)
      BY <1>2, <2>3, <2>7, Zenon DEF decide_sequence
    <3>2. r = "LATE"
      BY <2>2, <2>7
    <3>3. n = "LATE_OR_OUT_OF_ORDER" /\ m = 0
      BY <3>2, Zenon DEF StorageName, StorageMissingBefore
    <3> HIDE DEF e, n, m
    <3>4. e.disposition = n /\ e.missing = m /\ e.advances = FALSE
            /\ e.next_high_water = last
      BY <3>1, <3>3 DEF Decision
    <3>5. StorageAdvances(last, s) = FALSE
      BY <3>2 DEF StorageAdvances
    <3>6. StorageNextHighWater(last, s) = last
      BY <3>5, Zenon DEF StorageNextHighWater
    <3> QED BY <3>4, <3>5, <3>6, Zenon DEF e, n, m
  <2> QED BY <2>4, <2>5, <2>6, <2>7
<1> QED BY <1>1, <1>2

\* decide_sequence, which the unit tests exercise, and the inline rules of
\* storage.py, which run, decide alike for every frame of the number space.
THEOREM ImplementationsAgree == TrackingSpec => []RulesAgree
<1>1. TrackingInv => RulesAgree
  <2>1. TrackingInv => highWater \in SequenceNumbers \cup {None}
    BY FramesAssumption DEF TrackingInv, TrackingTypeOK
  <2> QED BY <2>1, SameDecision, Zenon DEF RulesAgree
<1> QED BY <1>1, TrackingInvariant, PTL
=============================================================================
