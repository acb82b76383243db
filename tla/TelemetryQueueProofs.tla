------------------------ MODULE TelemetryQueueProofs ------------------------
(* Proofs about the work queue, for any sets of jobs and packets.          *)
EXTENDS TelemetryQueue, SequenceTheorems, WellFoundedInduction, TLAPS

-----------------------------------------------------------------------------
(* What the list commands do to the entries of a list.                     *)

\* LPUSH: the pushed entry is in front of all others.
LEMMA ConsElements ==
    ASSUME NEW S, NEW s \in Seq(S), NEW e \in S
    PROVE  /\ Cons(e, s) \in Seq(S)
           /\ Len(Cons(e, s)) = Len(s) + 1
           /\ Cons(e, s)[1] = e
           /\ \A i \in 1..Len(s) : Cons(e, s)[i + 1] = s[i]
BY DEF Cons

\* Taking the last entry leaves the others where they are.
LEMMA FrontElements ==
    ASSUME NEW S, NEW s \in Seq(S), s # <<>>
    PROVE  /\ Front(s) \in Seq(S)
           /\ Len(s) \in Nat \ {0}
           /\ Len(Front(s)) = Len(s) - 1
           /\ \A i \in 1..(Len(s) - 1) : Front(s)[i] = s[i]
           /\ Last(s) = s[Len(s)]
           /\ Last(s) \in S
<1>1. Len(s) \in Nat \ {0} /\ \A i \in 1..Len(s) : s[i] \in S
  BY EmptySeq, ElementOfSeq
<1>2. /\ Front(s) \in Seq(S)
      /\ Len(Front(s)) = Len(s) - 1
      /\ \A i \in 1..(Len(s) - 1) : Front(s)[i] = s[i]
  <2>1. \A i \in 1..(Len(s) - 1) : s[i] \in S
    BY <1>1
  <2>2. Len(s) - 1 \in Int /\ 1 \in Int
    BY <1>1
  <2> DEFINE n == Len(s) - 1
             t == SubSeq(s, 1, n)
  <2>3. /\ t \in Seq(S)
        /\ Len(t) = IF 1 <= n THEN n - 1 + 1 ELSE 0
        /\ \A i \in 1..(n - 1 + 1) : t[i] = s[1 + i - 1]
    BY <2>1, <2>2, SubSeqProperties
  <2>4. Front(s) = t
    BY DEF Front
  <2> HIDE DEF t
  <2>. QED
    BY <1>1, <2>3, <2>4
<1>. QED
  BY <1>1, <1>2 DEF Last

\* RemoveAt closes the hole at position f.
LEMMA RemoveAtElements ==
    ASSUME NEW S, NEW s \in Seq(S), NEW f \in 1..Len(s)
    PROVE  /\ RemoveAt(s, f) \in Seq(S)
           /\ Len(RemoveAt(s, f)) = Len(s) - 1
           /\ \A i \in 1..(Len(s) - 1) :
                RemoveAt(s, f)[i] = IF i < f THEN s[i] ELSE s[i + 1]
<1> DEFINE left == SubSeq(s, 1, f - 1)
           right == SubSeq(s, f + 1, Len(s))
<1>1. Len(s) \in Nat /\ \A i \in 1..Len(s) : s[i] \in S
  BY LenProperties, ElementOfSeq
<1>2. /\ left \in Seq(S)
      /\ Len(left) = f - 1
      /\ \A i \in 1..(f - 1) : left[i] = s[i]
  BY <1>1, SubSeqProperties
<1>3. /\ right \in Seq(S)
      /\ Len(right) = Len(s) - f
      /\ \A i \in 1..(Len(s) - f) : right[i] = s[f + i]
  BY <1>1, SubSeqProperties
<1> HIDE DEF left, right
<1>4. /\ left \o right \in Seq(S)
      /\ Len(left \o right) = Len(left) + Len(right)
      /\ \A i \in 1..(Len(left) + Len(right)) :
           (left \o right)[i] = IF i <= Len(left) THEN left[i]
                                ELSE right[i - Len(left)]
  BY <1>2, <1>3, ConcatProperties
<1> DEFINE r == left \o right
<1>5. RemoveAt(s, f) = r
  BY DEF RemoveAt, left, right
<1> HIDE DEF r
<1>6. \A i \in 1..(Len(s) - 1) : r[i] = IF i < f THEN s[i] ELSE s[i + 1]
  <2> SUFFICES ASSUME NEW i \in 1..(Len(s) - 1)
               PROVE  r[i] = IF i < f THEN s[i] ELSE s[i + 1]
    OBVIOUS
  <2>1. CASE i < f
    BY <1>1, <1>2, <1>3, <1>4, <2>1 DEF r
  <2>2. CASE ~ (i < f)
    <3>1. /\ i - (f - 1) \in 1..(Len(s) - f)
          /\ f + (i - (f - 1)) = i + 1
          /\ ~ (i <= f - 1)
          /\ i \in 1..((f - 1) + (Len(s) - f))
      BY <1>1, <2>2
    <3>2. right[i - (f - 1)] = s[i + 1]
      BY <1>3, <3>1
    <3>3. r[i] = right[i - (f - 1)]
      BY <1>2, <1>3, <1>4, <3>1 DEF r
    <3>. QED
      BY <2>2, <3>2, <3>3
  <2>. QED
    BY <2>1, <2>2
<1>7. Len(r) = Len(s) - 1
  BY <1>1, <1>2, <1>3, <1>4 DEF r
<1>. QED
  BY <1>4, <1>5, <1>6, <1>7 DEF r

\* LREM 1 removes one entry equal to e, if there is one.
LEMMA RemoveFirstPosition ==
    ASSUME NEW S, NEW s \in Seq(S), NEW e, Contains(s, e)
    PROVE  \E f \in 1..Len(s) : s[f] = e /\ RemoveFirst(s, e) = RemoveAt(s, f)
<1> DEFINE I == {i \in 1..Len(s) : s[i] = e}
<1>1. I # {} /\ \A i \in I : i \in Nat
  BY DEF Contains
<1>2. \E f \in I : \A i \in I : f <= i
  <2>1. PICK f \in I : \A i \in I : ~ (<<i, f>> \in OpToRel(<, Nat))
    BY <1>1, NatLessThanWellFounded, WFMin, Zenon
  <2>2. \A i \in I : ~ (i < f)
    BY <1>1, <2>1, Zenon DEF OpToRel
  <2>. QED
    BY <1>1, <2>2
<1>3. SelectInSeq(s, LAMBDA v : v = e) \in I
  BY <1>1, <1>2 DEF SelectInSeq, Min
<1>. QED
  BY <1>3 DEF RemoveFirst, Contains
-----------------------------------------------------------------------------
(* The same commands, in terms of membership and multiplicity.             *)

LEMMA ConsMembers ==
    ASSUME NEW S, NEW s \in Seq(S), NEW e \in S, NEW x
    PROVE  /\ Contains(Cons(e, s), x) <=> x = e \/ Contains(s, x)
           /\ AtMostOnce(s, x) /\ (x = e => ~ Contains(s, x))
                => AtMostOnce(Cons(e, s), x)
<1> DEFINE t == Cons(e, s)
<1>1. /\ Len(s) \in Nat
      /\ Len(t) = Len(s) + 1
      /\ t[1] = e
      /\ \A i \in 1..Len(s) : t[i + 1] = s[i]
  BY ConsElements, LenProperties
<1> HIDE DEF t
<1>2. \A i \in 1..Len(t) : i = 1 \/ (i - 1 \in 1..Len(s) /\ t[i] = s[i - 1])
  BY <1>1
<1>3. Contains(t, x) <=> x = e \/ Contains(s, x)
  <2>1. ASSUME NEW i \in 1..Len(t), t[i] = x
        PROVE  x = e \/ Contains(s, x)
    BY <1>1, <1>2, <2>1 DEF Contains
  <2>2. x = e => Contains(t, x)
    BY <1>1 DEF Contains
  <2>3. ASSUME NEW i \in 1..Len(s), s[i] = x
        PROVE  Contains(t, x)
    <3>1. i + 1 \in 1..Len(t) /\ t[i + 1] = x
      BY <1>1, <2>3
    <3>. QED
      BY <3>1 DEF Contains
  <2>. QED
    BY <2>1, <2>2, <2>3 DEF Contains
<1>4. ASSUME AtMostOnce(s, x), x = e => ~ Contains(s, x)
      PROVE  AtMostOnce(t, x)
  <2> SUFFICES ASSUME NEW i \in 1..Len(t), NEW k \in 1..Len(t), t[i] = x, t[k] = x
               PROVE  i = k
    BY DEF AtMostOnce
  <2>1. CASE i = 1 \/ k = 1
    BY <1>1, <1>2, <1>4, <2>1 DEF Contains
  <2>2. CASE i # 1 /\ k # 1
    <3>1. i - 1 = k - 1
      BY <1>2, <1>4, <2>2 DEF AtMostOnce
    <3>. QED
      BY <3>1
  <2>. QED
    BY <2>1, <2>2
<1>. QED
  BY <1>3, <1>4 DEF t

LEMMA FrontMembers ==
    ASSUME NEW S, NEW s \in Seq(S), s # <<>>, NEW x
    PROVE  /\ Contains(s, x) <=> Contains(Front(s), x) \/ x = Last(s)
           /\ AtMostOnce(s, x) => /\ AtMostOnce(Front(s), x)
                                  /\ ~ (x = Last(s) /\ Contains(Front(s), x))
BY FrontElements DEF Contains, AtMostOnce

LEMMA RemoveFirstMembers ==
    ASSUME NEW S, NEW s \in Seq(S), NEW e, NEW x
    PROVE  /\ RemoveFirst(s, e) \in Seq(S)
           /\ ~ Contains(s, e) => RemoveFirst(s, e) = s
           /\ x # e => (Contains(RemoveFirst(s, e), x) <=> Contains(s, x))
           /\ AtMostOnce(s, e) => ~ Contains(RemoveFirst(s, e), e)
           /\ AtMostOnce(s, x) => AtMostOnce(RemoveFirst(s, e), x)
<1>1. CASE ~ Contains(s, e)
  BY <1>1 DEF RemoveFirst, Contains
<1>2. CASE Contains(s, e)
  <2>1. PICK f \in 1..Len(s) : s[f] = e /\ RemoveFirst(s, e) = RemoveAt(s, f)
    BY <1>2, RemoveFirstPosition
  <2> DEFINE t == RemoveAt(s, f)
  <2>2. /\ Len(s) \in Nat
        /\ t \in Seq(S)
        /\ Len(t) = Len(s) - 1
        /\ \A i \in 1..Len(t) : t[i] = IF i < f THEN s[i] ELSE s[i + 1]
    BY RemoveAtElements, LenProperties
  <2> HIDE DEF t
  <2>3. ASSUME x # e
        PROVE  Contains(t, x) <=> Contains(s, x)
    <3>1. ASSUME NEW i \in 1..Len(s), s[i] = x
          PROVE  \E k \in 1..Len(t) : t[k] = x
      <4>1. CASE i < f
        BY <2>2, <3>1, <4>1
      <4>2. CASE i > f
        <5>1. i - 1 \in 1..Len(t) /\ ~ (i - 1 < f) /\ (i - 1) + 1 = i
          BY <2>2, <4>2
        <5>. QED
          BY <2>2, <3>1, <5>1
      <4>. QED
        BY <2>1, <2>3, <3>1, <4>1, <4>2
    <3>2. \A k \in 1..Len(t) : \E i \in 1..Len(s) : t[k] = s[i]
      BY <2>2
    <3>. QED
      BY <3>1, <3>2 DEF Contains
  <2>4. ASSUME AtMostOnce(s, e)
        PROVE  ~ Contains(t, e)
    BY <2>1, <2>2, <2>4 DEF Contains, AtMostOnce
  <2>5. ASSUME AtMostOnce(s, x)
        PROVE  AtMostOnce(t, x)
    <3> SUFFICES ASSUME NEW i \in 1..Len(t), NEW k \in 1..Len(t), t[i] = x, t[k] = x
                 PROVE  i = k
      BY DEF AtMostOnce
    <3> DEFINE i0 == IF i < f THEN i ELSE i + 1
               k0 == IF k < f THEN k ELSE k + 1
    <3>1. i0 \in 1..Len(s) /\ k0 \in 1..Len(s) /\ s[i0] = x /\ s[k0] = x
      BY <2>2
    <3>2. i0 = k0
      BY <2>5, <3>1 DEF AtMostOnce
    <3>. QED
      BY <2>2, <3>2
  <2>. QED
    BY <1>2, <2>1, <2>2, <2>3, <2>4, <2>5 DEF t
<1>. QED
  BY <1>1, <1>2

LEMMA ConcatMembers ==
    ASSUME NEW S, NEW s \in Seq(S), NEW t \in Seq(S), NEW x
    PROVE  /\ Contains(s \o t, x) <=> Contains(s, x) \/ Contains(t, x)
           /\ AtMostOnce(s, x) /\ AtMostOnce(t, x)
                /\ ~ (Contains(s, x) /\ Contains(t, x))
                => AtMostOnce(s \o t, x)
<1> DEFINE r == s \o t
<1>1. /\ Len(s) \in Nat /\ Len(t) \in Nat
      /\ Len(r) = Len(s) + Len(t)
      /\ \A i \in 1..Len(r) : r[i] = IF i <= Len(s) THEN s[i] ELSE t[i - Len(s)]
  BY ConcatProperties, LenProperties
<1> HIDE DEF r
<1>2. \A i \in 1..Len(s) : i \in 1..Len(r) /\ r[i] = s[i]
  BY <1>1
<1>3. \A i \in 1..Len(t) : i + Len(s) \in 1..Len(r) /\ r[i + Len(s)] = t[i]
  BY <1>1
<1>4. \A i \in 1..Len(r) :
         \/ i \in 1..Len(s) /\ r[i] = s[i]
         \/ i - Len(s) \in 1..Len(t) /\ r[i] = t[i - Len(s)]
  BY <1>1
<1>5. Contains(r, x) <=> Contains(s, x) \/ Contains(t, x)
  BY <1>2, <1>3, <1>4 DEF Contains
<1>6. ASSUME AtMostOnce(s, x), AtMostOnce(t, x), ~ (Contains(s, x) /\ Contains(t, x))
      PROVE  AtMostOnce(r, x)
  <2> SUFFICES ASSUME NEW i \in 1..Len(r), NEW k \in 1..Len(r), r[i] = x, r[k] = x
               PROVE  i = k
    BY DEF AtMostOnce
  <2>1. CASE i \in 1..Len(s) /\ k \in 1..Len(s)
    BY <1>1, <1>6, <2>1 DEF AtMostOnce
  <2>2. CASE i - Len(s) \in 1..Len(t) /\ k - Len(s) \in 1..Len(t)
    <3>1. t[i - Len(s)] = x /\ t[k - Len(s)] = x
      BY <1>1, <2>2
    <3>2. i - Len(s) = k - Len(s)
      BY <1>6, <2>2, <3>1 DEF AtMostOnce
    <3>. QED
      BY <1>1, <3>2
  <2>3. ~ (i \in 1..Len(s) /\ k - Len(s) \in 1..Len(t))
    BY <1>1, <1>6 DEF Contains
  <2>4. ~ (k \in 1..Len(s) /\ i - Len(s) \in 1..Len(t))
    BY <1>1, <1>6 DEF Contains
  <2>. QED
    BY <1>4, <2>1, <2>2, <2>3, <2>4
<1>. QED
  BY <1>5, <1>6 DEF r
-----------------------------------------------------------------------------
(* The type invariant and the one-reference invariant.                     *)

\* The empty lists of a fresh Redis hold nothing.
LEMMA EmptyMembers == \A x : ~ Contains(<<>>, x) /\ AtMostOnce(<<>>, x)
BY DEF Contains, AtMostOnce

\* Every queue operation keeps the lists and markers well formed.
LEMMA TypeStep == QueueTypeOK /\ [QueueNext]_queueVars => QueueTypeOK'
<1> SUFFICES ASSUME QueueTypeOK, [QueueNext]_queueVars
             PROVE  QueueTypeOK'
  OBVIOUS
<1> USE QueueAssumption DEF QueueTypeOK, Entry, QueueMessage
<1>1. ASSUME NEW m \in QueueMessage, Enqueue(m)
      PROVE  QueueTypeOK'
  <2>1. Cons(m, pending) \in Seq(Entry)
    BY ConsElements
  <2>2. CASE EnqueueReply(m) = 1
    BY <1>1, <2>1, <2>2 DEF Enqueue
  <2>3. CASE EnqueueReply(m) # 1
    BY <1>1, <2>3 DEF Enqueue
  <2>. QED
    BY <2>2, <2>3
<1>2. ASSUME NEW m \in QueueMessage, Ack(m)
      PROVE  QueueTypeOK'
  BY <1>2, RemoveFirstMembers DEF Ack
<1>3. ASSUME NEW m \in QueueMessage, Retry(m)
      PROVE  QueueTypeOK'
  BY <1>3, ConsElements, RemoveFirstMembers DEF Retry
<1>4. ASSUME NEW e \in Entry, DeadLetter(e)
      PROVE  QueueTypeOK'
  BY <1>4, ConsElements, RemoveFirstMembers DEF DeadLetter
<1>5. CASE Claim
  BY <1>5, ConsElements, FrontElements DEF Claim
<1>6. CASE RecoverProcessing
  BY <1>6, ConcatProperties DEF RecoverProcessing
<1>7. ASSUME NEW e \in Malformed, ForeignPush(e)
      PROVE  QueueTypeOK'
  <2>1. pending' \in Seq(Entry)
    BY <1>7, ConsElements DEF ForeignPush
  <2>. QED
    BY <1>7, <2>1 DEF ForeignPush
<1>8. CASE UNCHANGED queueVars
  BY <1>8 DEF queueVars
<1>. QED
  BY <1>1, <1>2, <1>3, <1>4, <1>5, <1>6, <1>7, <1>8 DEF QueueNext

\* The lists hold queue entries only, and a job's marker is an entry of that
\* same job, in every reachable state of the queue.
THEOREM QueueTypeCorrect == QueueSpec => []QueueTypeOK
<1>1. QueueInit => QueueTypeOK
  BY QueueAssumption DEF QueueInit, QueueTypeOK
<1>. QED
  BY <1>1, TypeStep, PTL DEF QueueSpec

\* What a move of one entry from processing to another list, or out of the
\* queue, does to the membership of every message.
LEMMA RemovalFromProcessing ==
    ASSUME QueueTypeOK, OneReference, NEW e \in Entry,
           processing' = RemoveFirst(processing, e)
    PROVE  \A m \in QueueMessage :
             /\ AtMostOnce(processing', m)
             /\ Contains(processing', m) <=> Contains(processing, m) /\ m # e
<1> SUFFICES ASSUME NEW m \in QueueMessage
             PROVE  /\ AtMostOnce(processing', m)
                    /\ Contains(processing', m) <=> Contains(processing, m) /\ m # e
  OBVIOUS
<1>1. processing \in Seq(Entry) /\ AtMostOnce(processing, m)
  BY DEF QueueTypeOK, OneReference, SinglePlace
<1>. QED
  BY <1>1, RemoveFirstMembers

\* Pushing an entry e, which the list s does not hold if it is a message.
LEMMA PushMembers ==
    ASSUME NEW s \in Seq(Entry), NEW e \in Entry,
           e \in QueueMessage => ~ Contains(s, e)
    PROVE  \A m \in QueueMessage :
             /\ Contains(Cons(e, s), m) <=> Contains(s, m) \/ m = e
             /\ AtMostOnce(s, m) => AtMostOnce(Cons(e, s), m)
BY ConsMembers

-----------------------------------------------------------------------------
(* What each operation does to the references and the marker of a message. *)

LEMMA QueueFacts ==
    ASSUME QueueTypeOK
    PROVE  /\ pending \in Seq(Entry) /\ processing \in Seq(Entry) /\ failed \in Seq(Entry)
           /\ marker \in [JobIds -> QueueMessage \cup {NoMarker}]
           /\ NoMarker \notin QueueMessage
           /\ Malformed \cap QueueMessage = {}
           /\ \A m \in QueueMessage : m \in Entry /\ m.job_id \in JobIds
BY QueueAssumption DEF QueueTypeOK, QueueMessage, Entry

LEMMA EnqueueEffect ==
    ASSUME QueueTypeOK, OneReference, NEW m \in QueueMessage, Enqueue(m),
           marker[m.job_id] = NoMarker
    PROVE  /\ processing' = processing /\ failed' = failed
           /\ \A x \in QueueMessage :
                /\ AtMostOnce(pending', x)
                /\ Contains(pending', x) <=> Contains(pending, x) \/ x = m
                /\ marker'[x.job_id] = x <=> marker[x.job_id] = x \/ x = m
                /\ x = m => ~ Contains(pending, x) /\ ~ Contains(processing, x)
                             /\ ~ Contains(failed, x)
<1>1. EnqueueReply(m) = 1
  BY DEF EnqueueReply
<1>2. ~ Contains(pending, m) /\ ~ Contains(processing, m) /\ ~ Contains(failed, m)
  BY QueueFacts DEF OneReference, MarkerMatches
<1>3. /\ marker' = [marker EXCEPT ![m.job_id] = m]
      /\ pending' = Cons(m, pending)
      /\ processing' = processing /\ failed' = failed
  BY <1>1 DEF Enqueue
<1>4. \A x \in QueueMessage :
        /\ AtMostOnce(pending', x)
        /\ Contains(pending', x) <=> Contains(pending, x) \/ x = m
  BY <1>2, <1>3, QueueFacts, PushMembers DEF OneReference, SinglePlace
<1>5. \A x \in QueueMessage : marker'[x.job_id] = x <=> marker[x.job_id] = x \/ x = m
  BY <1>3, QueueFacts
<1>. QED
  BY <1>2, <1>3, <1>4, <1>5

\* A call with a marker in place, or for an entry that is not in processing,
\* changes nothing (enqueue returns False or raises QueueConflictError, the
\* others raise QueueStateError).
LEMMA RefusedCalls ==
    ASSUME QueueTypeOK, NEW e \in Entry
    PROVE  /\ e \in QueueMessage /\ marker[e.job_id] # NoMarker /\ Enqueue(e)
                => UNCHANGED queueVars
           /\ ~ Contains(processing, e) /\ (Ack(e) \/ Retry(e) \/ DeadLetter(e))
                => UNCHANGED queueVars
<1>1. ASSUME e \in QueueMessage, marker[e.job_id] # NoMarker, Enqueue(e)
      PROVE  UNCHANGED queueVars
  <2>1. EnqueueReply(e) # 1
    BY <1>1 DEF EnqueueReply
  <2>. QED
    BY <1>1, <2>1 DEF Enqueue, queueVars
<1>2. ASSUME ~ Contains(processing, e), Ack(e) \/ Retry(e) \/ DeadLetter(e)
      PROVE  UNCHANGED queueVars
  <2>1. RemoveFirst(processing, e) = processing
    BY <1>2, QueueFacts DEF RemoveFirst, Contains
  <2>2. RemovedReply(e) # 1
    BY <1>2 DEF RemovedReply
  <2>. QED
    BY <1>2, <2>1, <2>2 DEF Ack, Retry, DeadLetter, queueVars
<1>. QED
  BY <1>1, <1>2

LEMMA AckEffect ==
    ASSUME QueueTypeOK, OneReference, NEW m \in QueueMessage, Ack(m),
           Contains(processing, m)
    PROVE  /\ pending' = pending /\ failed' = failed
           /\ marker[m.job_id] = m /\ marker' = [marker EXCEPT ![m.job_id] = NoMarker]
           /\ \A x \in QueueMessage :
                /\ AtMostOnce(processing', x)
                /\ Contains(processing', x) <=> Contains(processing, x) /\ x # m
                /\ marker'[x.job_id] = x <=> marker[x.job_id] = x /\ x # m
<1>1. \A x \in QueueMessage :
        /\ AtMostOnce(processing', x)
        /\ Contains(processing', x) <=> Contains(processing, x) /\ x # m
  BY QueueFacts, RemovalFromProcessing DEF Ack
<1>2. /\ marker' = [marker EXCEPT ![m.job_id] = NoMarker]
      /\ marker[m.job_id] = m
      /\ pending' = pending /\ failed' = failed
  BY DEF Ack, RemovedReply, OneReference, MarkerMatches
<1>3. \A x \in QueueMessage : marker'[x.job_id] = x <=> marker[x.job_id] = x /\ x # m
  BY <1>2, QueueFacts
<1>. QED
  BY <1>1, <1>2, <1>3

LEMMA RetryEffect ==
    ASSUME QueueTypeOK, OneReference, NEW m \in QueueMessage, Retry(m),
           Contains(processing, m)
    PROVE  /\ marker' = marker /\ failed' = failed
           /\ \A x \in QueueMessage :
                /\ AtMostOnce(processing', x) /\ AtMostOnce(pending', x)
                /\ Contains(processing', x) <=> Contains(processing, x) /\ x # m
                /\ Contains(pending', x) <=> Contains(pending, x) \/ x = m
<1>1. \A x \in QueueMessage :
        /\ AtMostOnce(processing', x)
        /\ Contains(processing', x) <=> Contains(processing, x) /\ x # m
  BY QueueFacts, RemovalFromProcessing DEF Retry
<1>2. /\ pending' = Cons(m, pending) /\ ~ Contains(pending, m)
      /\ marker' = marker /\ failed' = failed
  BY DEF Retry, RemovedReply, OneReference, SinglePlace
<1>3. \A x \in QueueMessage :
        /\ AtMostOnce(pending', x)
        /\ Contains(pending', x) <=> Contains(pending, x) \/ x = m
  BY <1>2, QueueFacts, PushMembers DEF OneReference, SinglePlace
<1>. QED
  BY <1>1, <1>2, <1>3

LEMMA DeadLetterEffect ==
    ASSUME QueueTypeOK, OneReference, NEW e \in Entry, DeadLetter(e),
           Contains(processing, e)
    PROVE  /\ marker' = marker /\ pending' = pending
           /\ \A x \in QueueMessage :
                /\ AtMostOnce(processing', x) /\ AtMostOnce(failed', x)
                /\ Contains(processing', x) <=> Contains(processing, x) /\ x # e
                /\ Contains(failed', x) <=> Contains(failed, x) \/ x = e
<1>1. \A x \in QueueMessage :
        /\ AtMostOnce(processing', x)
        /\ Contains(processing', x) <=> Contains(processing, x) /\ x # e
  BY RemovalFromProcessing DEF DeadLetter
<1>2. /\ failed' = Cons(e, failed) /\ (e \in QueueMessage => ~ Contains(failed, e))
      /\ marker' = marker /\ pending' = pending
  BY DEF DeadLetter, RemovedReply, OneReference, SinglePlace
<1>3. \A x \in QueueMessage :
        /\ AtMostOnce(failed', x)
        /\ Contains(failed', x) <=> Contains(failed, x) \/ x = e
  BY <1>2, QueueFacts, PushMembers DEF OneReference, SinglePlace
<1>. QED
  BY <1>1, <1>2, <1>3

LEMMA ClaimEffect ==
    ASSUME QueueTypeOK, OneReference, Claim
    PROVE  \E e \in Entry :
             /\ Contains(pending, e)
             /\ marker' = marker /\ failed' = failed
             /\ \A x \in QueueMessage :
                  /\ AtMostOnce(processing', x) /\ AtMostOnce(pending', x)
                  /\ Contains(pending', x) <=> Contains(pending, x) /\ x # e
                  /\ Contains(processing', x) <=> Contains(processing, x) \/ x = e
<1> DEFINE e == Last(pending)
<1>1. /\ pending # <<>> /\ processing' = Cons(e, processing)
      /\ pending' = Front(pending)
      /\ marker' = marker /\ failed' = failed
  BY DEF Claim
<1>2. e \in Entry /\ Contains(pending, e)
  BY <1>1, QueueFacts, FrontElements, FrontMembers
<1> HIDE DEF e
<1>3. \A x \in QueueMessage :
        /\ AtMostOnce(pending', x)
        /\ Contains(pending', x) <=> Contains(pending, x) /\ x # e
  BY <1>1, QueueFacts, FrontMembers DEF e, OneReference, SinglePlace
<1>4. \A x \in QueueMessage :
        /\ AtMostOnce(processing', x)
        /\ Contains(processing', x) <=> Contains(processing, x) \/ x = e
  BY <1>1, <1>2, QueueFacts, PushMembers DEF OneReference, SinglePlace
<1>. QED
  BY <1>1, <1>2, <1>3, <1>4

LEMMA RecoverEffect ==
    ASSUME QueueTypeOK, OneReference, RecoverProcessing
    PROVE  /\ marker' = marker /\ failed' = failed
           /\ \A x \in QueueMessage :
                /\ AtMostOnce(pending', x) /\ AtMostOnce(processing', x)
                /\ Contains(pending', x) <=> Contains(pending, x) \/ Contains(processing, x)
                /\ ~ Contains(processing', x)
<1>1. /\ pending' = processing \o pending /\ processing' = <<>>
      /\ marker' = marker /\ failed' = failed
  BY DEF RecoverProcessing
<1>2. \A x \in QueueMessage :
        /\ AtMostOnce(pending', x)
        /\ Contains(pending', x) <=> Contains(pending, x) \/ Contains(processing, x)
  BY <1>1, QueueFacts, ConcatMembers DEF OneReference, SinglePlace
<1>. QED
  BY <1>1, <1>2, EmptyMembers

LEMMA ForeignPushEffect ==
    ASSUME QueueTypeOK, OneReference, NEW e \in Malformed, ForeignPush(e)
    PROVE  /\ marker' = marker /\ processing' = processing /\ failed' = failed
           /\ \A x \in QueueMessage :
                /\ AtMostOnce(pending', x)
                /\ Contains(pending', x) <=> Contains(pending, x)
<1>1. /\ pending' = Cons(e, pending) /\ processing' = processing
      /\ marker' = marker /\ failed' = failed
  BY DEF ForeignPush
<1>2. e \in Entry /\ e \notin QueueMessage
  BY QueueFacts DEF Entry
<1>. QED
  BY <1>1, <1>2, QueueFacts, PushMembers DEF OneReference, SinglePlace

LEMMA ReferenceStep ==
    QueueTypeOK /\ OneReference /\ [QueueNext]_queueVars => OneReference'
<1> SUFFICES ASSUME QueueTypeOK, OneReference, [QueueNext]_queueVars
             PROVE  OneReference'
  OBVIOUS
<1> USE DEF OneReference, SinglePlace, MarkerMatches
<1>0. CASE UNCHANGED queueVars
  BY <1>0 DEF queueVars
<1>1. ASSUME NEW m \in QueueMessage, Enqueue(m)
      PROVE  OneReference'
  <2>1. CASE marker[m.job_id] = NoMarker
    BY <1>1, <2>1, EnqueueEffect
  <2>. QED
    BY <1>0, <1>1, <2>1, RefusedCalls, QueueFacts
<1>2. ASSUME NEW m \in QueueMessage, Ack(m)
      PROVE  OneReference'
  <2>1. CASE Contains(processing, m)
    BY <1>2, <2>1, AckEffect
  <2>. QED
    BY <1>0, <1>2, <2>1, RefusedCalls, QueueFacts
<1>3. ASSUME NEW m \in QueueMessage, Retry(m)
      PROVE  OneReference'
  <2>1. CASE Contains(processing, m)
    BY <1>3, <2>1, RetryEffect
  <2>. QED
    BY <1>0, <1>3, <2>1, RefusedCalls, QueueFacts
<1>4. ASSUME NEW e \in Entry, DeadLetter(e)
      PROVE  OneReference'
  <2>1. CASE Contains(processing, e)
    BY <1>4, <2>1, DeadLetterEffect
  <2>. QED
    BY <1>0, <1>4, <2>1, RefusedCalls
<1>5. CASE Claim
  BY <1>5, ClaimEffect
<1>6. CASE RecoverProcessing
  BY <1>6, RecoverEffect
<1>7. ASSUME NEW e \in Malformed, ForeignPush(e)
      PROVE  OneReference'
  BY <1>7, ForeignPushEffect
<1>. QED
  BY <1>0, <1>1, <1>2, <1>3, <1>4, <1>5, <1>6, <1>7 DEF QueueNext

\* Whatever calls the services make, in whatever order, a job has a marker
\* exactly when the three lists hold its entry, and they hold it once: the
\* scripts of queue.py neither lose nor duplicate work.
THEOREM QueueKeepsOneReference == QueueSpec => []OneReference
<1>1. QueueInit => OneReference
  <2> SUFFICES ASSUME QueueInit
               PROVE  OneReference
    OBVIOUS
  <2>1. \A m \in QueueMessage : m \in QueueMessage /\ marker[m.job_id] = NoMarker
    BY DEF QueueInit, QueueMessage
  <2>2. \A m \in QueueMessage : marker[m.job_id] # m
    BY <2>1, QueueAssumption DEF QueueMessage
  <2>. QED
    BY <2>2, EmptyMembers DEF QueueInit, OneReference, SinglePlace, MarkerMatches
<1>. QED
  BY <1>1, QueueTypeCorrect, ReferenceStep, PTL DEF QueueSpec
-----------------------------------------------------------------------------
(* The lists and markers implement the tray.                               *)

\* The slot of job j does not change when its marker and the membership of
\* the marked entry do not.
LEMMA SlotFrame ==
    ASSUME QueueTypeOK, NEW j \in JobIds, marker'[j] = marker[j],
           marker[j] # NoMarker =>
              /\ Contains(pending', marker[j]) <=> Contains(pending, marker[j])
              /\ Contains(processing', marker[j]) <=> Contains(processing, marker[j])
    PROVE  SlotOf(j)' = SlotOf(j)
BY DEF SlotOf

\* Where the slot of a marked job is.
LEMMA SlotPlace ==
    ASSUME QueueTypeOK, OneReference, NEW m \in QueueMessage, marker[m.job_id] = m
    PROVE  /\ Contains(pending, m)
                => SlotOf(m.job_id) = [at |-> "pending", packet |-> m.packet_id]
           /\ Contains(processing, m)
                => SlotOf(m.job_id) = [at |-> "processing", packet |-> m.packet_id]
           /\ Contains(failed, m)
                => SlotOf(m.job_id) = [at |-> "failed", packet |-> m.packet_id]
BY QueueFacts DEF SlotOf, OneReference, SinglePlace

LEMMA TrayStep ==
    QueueTypeOK /\ QueueTypeOK' /\ OneReference /\ OneReference' /\ [QueueNext]_queueVars
        => [Tray!TrayNext]_([j \in JobIds |-> SlotOf(j)])
<1> SUFFICES ASSUME QueueTypeOK, QueueTypeOK', OneReference, OneReference',
                    [QueueNext]_queueVars
             PROVE  [Tray!TrayNext]_([j \in JobIds |-> SlotOf(j)])
  OBVIOUS
<1> DEFINE slots == [j \in JobIds |-> SlotOf(j)]
<1>a. \A j \in JobIds : marker[j] # NoMarker =>
         marker[j] \in QueueMessage /\ marker[j].job_id = j
  BY QueueFacts DEF QueueTypeOK
<1>b. \A m \in QueueMessage : m.job_id \in JobIds /\ m.packet_id \in PacketIds
  BY DEF QueueMessage
<1>0. CASE UNCHANGED queueVars
  BY <1>0 DEF queueVars, SlotOf
<1>1. ASSUME NEW m \in QueueMessage, Enqueue(m)
      PROVE  [Tray!TrayNext]_slots
  <2>1. CASE marker[m.job_id] = NoMarker
    <3>1. marker' = [marker EXCEPT ![m.job_id] = m]
      BY <1>1, <2>1 DEF Enqueue, EnqueueReply
    <3>2. SlotOf(m.job_id) = [at |-> "outside"]
      BY <2>1 DEF SlotOf
    <3>3. SlotOf(m.job_id)' = [at |-> "pending", packet |-> m.packet_id]
      BY <1>1, <1>b, <2>1, <3>1, EnqueueEffect, QueueFacts DEF SlotOf
    <3>4. \A j \in JobIds : j # m.job_id => SlotOf(j)' = SlotOf(j)
      BY <1>1, <1>a, <2>1, <3>1, EnqueueEffect, SlotFrame, QueueFacts
    <3>5. Tray!Put(m.job_id, m.packet_id)
      BY <1>b, <3>2, <3>3, <3>4 DEF Tray!Put, Tray!Outside
    <3>. QED
      BY <1>b, <3>5 DEF Tray!TrayNext
  <2>. QED
    BY <1>0, <1>1, <2>1, RefusedCalls, QueueFacts
<1>2. ASSUME NEW m \in QueueMessage, Ack(m)
      PROVE  [Tray!TrayNext]_slots
  <2>1. CASE Contains(processing, m)
    <3>0. /\ marker[m.job_id] = m
          /\ marker' = [marker EXCEPT ![m.job_id] = NoMarker]
      BY <1>2, <2>1, AckEffect
    <3>1. /\ SlotOf(m.job_id) = [at |-> "processing", packet |-> m.packet_id]
          /\ SlotOf(m.job_id)' = [at |-> "outside"]
      <4>1. SlotOf(m.job_id) = [at |-> "processing", packet |-> m.packet_id]
        BY <2>1, <3>0, SlotPlace
      <4>2. SlotOf(m.job_id)' = [at |-> "outside"]
        BY <1>b, <3>0, QueueFacts DEF SlotOf
      <4>. QED
        BY <4>1, <4>2
    <3>2. \A j \in JobIds : j # m.job_id => SlotOf(j)' = SlotOf(j)
      BY <1>2, <1>a, <2>1, AckEffect, SlotFrame, QueueFacts
    <3>3. Tray!Finish(m.job_id)
      BY <1>b, <3>1, <3>2 DEF Tray!Finish, Tray!Outside
    <3>. QED
      BY <1>b, <3>3 DEF Tray!TrayNext
  <2>. QED
    BY <1>0, <1>2, <2>1, RefusedCalls, QueueFacts
<1>3. ASSUME NEW m \in QueueMessage, Retry(m)
      PROVE  [Tray!TrayNext]_slots
  <2>1. CASE Contains(processing, m)
    <3>0. marker[m.job_id] = m
      BY <2>1 DEF OneReference, MarkerMatches
    <3>1. /\ SlotOf(m.job_id) = [at |-> "processing", packet |-> m.packet_id]
          /\ SlotOf(m.job_id)' = [at |-> "pending", packet |-> m.packet_id]
      <4>1. SlotOf(m.job_id) = [at |-> "processing", packet |-> m.packet_id]
        BY <2>1, <3>0, SlotPlace
      <4>2. Contains(pending', m) /\ marker'[m.job_id] = m /\ m # NoMarker
        BY <1>3, <2>1, <3>0, RetryEffect, QueueFacts
      <4>3. SlotOf(m.job_id)' = [at |-> "pending", packet |-> m.packet_id]
        BY <4>2 DEF SlotOf
      <4>. QED
        BY <4>1, <4>3
    <3>2. \A j \in JobIds : j # m.job_id => SlotOf(j)' = SlotOf(j)
      BY <1>3, <1>a, <2>1, RetryEffect, SlotFrame
    <3>3. Tray!GiveBack(m.job_id)
      BY <1>b, <3>1, <3>2 DEF Tray!GiveBack, Tray!Move
    <3>. QED
      BY <1>b, <3>3 DEF Tray!TrayNext
  <2>. QED
    BY <1>0, <1>3, <2>1, RefusedCalls, QueueFacts
<1>4. ASSUME NEW e \in Entry, DeadLetter(e)
      PROVE  [Tray!TrayNext]_slots
  <2>1. CASE Contains(processing, e) /\ e \in QueueMessage
    <3>0. marker[e.job_id] = e
      BY <2>1 DEF OneReference, MarkerMatches
    <3>1. /\ SlotOf(e.job_id) = [at |-> "processing", packet |-> e.packet_id]
          /\ SlotOf(e.job_id)' = [at |-> "failed", packet |-> e.packet_id]
      BY <1>4, <2>1, <3>0, DeadLetterEffect, SlotPlace, QueueFacts
         DEF SlotOf, OneReference, SinglePlace
    <3>2. \A j \in JobIds : j # e.job_id => SlotOf(j)' = SlotOf(j)
      BY <1>4, <1>a, <2>1, DeadLetterEffect, SlotFrame
    <3>3. Tray!Park(e.job_id)
      BY <1>b, <2>1, <3>1, <3>2 DEF Tray!Park, Tray!Move
    <3>. QED
      BY <1>b, <2>1, <3>3 DEF Tray!TrayNext
  <2>2. CASE Contains(processing, e) /\ e \notin QueueMessage
    <3>1. \A j \in JobIds : SlotOf(j)' = SlotOf(j)
      BY <1>4, <1>a, <2>2, DeadLetterEffect, SlotFrame
    <3>. QED
      BY <3>1
  <2>. QED
    BY <1>0, <1>4, <2>1, <2>2, RefusedCalls
<1>5. CASE Claim
  <2>1. PICK e \in Entry :
          /\ Contains(pending, e)
          /\ marker' = marker /\ failed' = failed
          /\ \A x \in QueueMessage :
               /\ Contains(pending', x) <=> Contains(pending, x) /\ x # e
               /\ Contains(processing', x) <=> Contains(processing, x) \/ x = e
    BY <1>5, ClaimEffect
  <2>2. CASE e \in QueueMessage
    <3>0. marker[e.job_id] = e
      BY <2>1, <2>2 DEF OneReference, MarkerMatches
    <3>1. /\ SlotOf(e.job_id) = [at |-> "pending", packet |-> e.packet_id]
          /\ SlotOf(e.job_id)' = [at |-> "processing", packet |-> e.packet_id]
      BY <2>1, <2>2, <3>0, SlotPlace, QueueFacts DEF SlotOf
    <3>2. \A j \in JobIds : j # e.job_id => SlotOf(j)' = SlotOf(j)
      BY <1>a, <2>1, SlotFrame
    <3>3. Tray!Take(e.job_id)
      BY <1>b, <2>2, <3>1, <3>2 DEF Tray!Take, Tray!Move
    <3>. QED
      BY <1>b, <2>2, <3>3 DEF Tray!TrayNext
  <2>3. CASE e \notin QueueMessage
    <3>1. \A j \in JobIds : SlotOf(j)' = SlotOf(j)
      BY <1>a, <2>1, <2>3, SlotFrame
    <3>. QED
      BY <3>1
  <2>. QED
    BY <2>2, <2>3
<1>6. CASE RecoverProcessing
  <2>1. \A j \in JobIds : SlotOf(j)' =
          IF SlotOf(j).at = "processing"
          THEN [at |-> "pending", packet |-> SlotOf(j).packet] ELSE SlotOf(j)
    <3> SUFFICES ASSUME NEW j \in JobIds
                 PROVE  SlotOf(j)' =
                          IF SlotOf(j).at = "processing"
                          THEN [at |-> "pending", packet |-> SlotOf(j).packet]
                          ELSE SlotOf(j)
      OBVIOUS
    <3>1. marker' = marker
      BY <1>6 DEF RecoverProcessing
    <3>2. CASE marker[j] = NoMarker
      BY <3>1, <3>2 DEF SlotOf
    <3>3. CASE marker[j] # NoMarker
      <4>1. /\ marker[j] \in QueueMessage
            /\ Contains(pending', marker[j])
                  <=> Contains(pending, marker[j]) \/ Contains(processing, marker[j])
            /\ ~ Contains(processing', marker[j])
        BY <1>6, <1>a, <3>3, RecoverEffect
      <4>. QED
        BY <3>1, <3>3, <4>1 DEF SlotOf
    <3>. QED
      BY <3>2, <3>3
  <2>2. Tray!GiveBackAll
    BY <2>1 DEF Tray!GiveBackAll
  <2>. QED
    BY <2>2 DEF Tray!TrayNext
<1>7. ASSUME NEW e \in Malformed, ForeignPush(e)
      PROVE  [Tray!TrayNext]_slots
  <2>1. \A j \in JobIds : SlotOf(j)' = SlotOf(j)
    BY <1>7, <1>a, ForeignPushEffect, SlotFrame
  <2>. QED
    BY <2>1
<1>. QED
  BY <1>0, <1>1, <1>2, <1>3, <1>4, <1>5, <1>6, <1>7 DEF QueueNext

\* The Redis lists and markers implement the abstract tray: a caller of
\* queue.py can reason with "where is job j" alone.
THEOREM QueueImplementsTray == QueueSpec => ImplementsTray
<1>1. QueueInit => Tray!TrayInit
  BY DEF QueueInit, Tray!TrayInit, Tray!Outside, SlotOf
<1>. QED
  BY <1>1, QueueTypeCorrect, QueueKeepsOneReference, TrayStep, PTL
     DEF QueueSpec, ImplementsTray, Tray!TraySpec
-----------------------------------------------------------------------------
(* The order of the line.                                                  *)

\* What a step can do to the list of pending entries.
LEMMA PendingStep ==
    ASSUME QueueTypeOK, [QueueNext]_queueVars
    PROVE  \/ pending' = pending
           \/ \E e \in Entry : pending' = Cons(e, pending)
           \/ pending # <<>> /\ pending' = Front(pending)
           \/ pending' = processing \o pending
<1> USE DEF Entry
<1>1. ASSUME NEW m \in QueueMessage, Enqueue(m) \/ Ack(m) \/ Retry(m)
      PROVE  pending' = pending \/ \E e \in Entry : pending' = Cons(e, pending)
  BY <1>1 DEF Enqueue, Ack, Retry
<1>2. ASSUME NEW e \in Entry, DeadLetter(e)
      PROVE  pending' = pending
  BY <1>2 DEF DeadLetter
<1>3. ASSUME Claim
      PROVE  pending # <<>> /\ pending' = Front(pending)
  BY <1>3 DEF Claim
<1>4. ASSUME RecoverProcessing
      PROVE  pending' = processing \o pending
  BY <1>4 DEF RecoverProcessing
<1>5. ASSUME NEW e \in Malformed, ForeignPush(e)
      PROVE  \E d \in Entry : pending' = Cons(d, pending)
  BY <1>5 DEF ForeignPush
<1>6. ASSUME UNCHANGED queueVars
      PROVE  pending' = pending
  BY <1>6 DEF queueVars
<1>. QED
  BY <1>1, <1>2, <1>3, <1>4, <1>5, <1>6 DEF QueueNext

\* LPUSH puts an entry behind all others and keeps their order.
LEMMA ConsOrder ==
    ASSUME NEW S, NEW s \in Seq(S), NEW e \in S, NEW a, NEW b
    PROVE  /\ Ahead(s, a, b) => Ahead(Cons(e, s), a, b)
           /\ Contains(s, a) => Ahead(Cons(e, s), a, e)
<1> DEFINE t == Cons(e, s)
<1>1. /\ Len(s) \in Nat
      /\ Len(t) = Len(s) + 1
      /\ t[1] = e
      /\ \A i \in 1..Len(s) : t[i + 1] = s[i]
  <2>1. Len(s) \in Nat
    BY LenProperties
  <2>. QED
    BY <2>1, ConsElements
<1> HIDE DEF t
<1>2. \A i \in 1..Len(s) : i + 1 \in 1..Len(t) /\ 1 < i + 1
  BY <1>1
<1>3. 1 \in 1..Len(t)
  BY <1>1
<1>4. ASSUME NEW i \in 1..Len(s), NEW k \in 1..Len(s), s[i] = a, s[k] = b, k < i
      PROVE  Ahead(t, a, b)
  <2>1. k + 1 < i + 1
    BY <1>1, <1>4
  <2>. QED
    BY <1>1, <1>2, <1>4, <2>1 DEF Ahead
<1>5. ASSUME NEW i \in 1..Len(s), s[i] = a
      PROVE  Ahead(t, a, e)
  BY <1>1, <1>2, <1>3, <1>5 DEF Ahead
<1>. QED
  BY <1>4, <1>5 DEF Ahead, Contains, t

\* RPOP takes the one in front; the order of the others stays.
LEMMA FrontOrder ==
    ASSUME NEW S, NEW s \in Seq(S), s # <<>>, NEW a, NEW b,
           AtMostOnce(s, a), Contains(Front(s), a), Ahead(s, a, b)
    PROVE  Ahead(Front(s), a, b)
<1>1. PICK t : t = Front(s)
  OBVIOUS
<1>2. /\ Len(s) \in Nat \ {0}
      /\ Len(t) = Len(s) - 1
      /\ \A i \in 1..(Len(s) - 1) : t[i] = s[i]
  BY <1>1, FrontElements
<1>3. PICK i \in 1..Len(s), k \in 1..Len(s) : s[i] = a /\ s[k] = b /\ k < i
  BY DEF Ahead
<1>4. PICK j \in 1..Len(t) : t[j] = a
  BY <1>1 DEF Contains
<1>5. j \in 1..Len(s) /\ s[j] = a /\ j < Len(s)
  BY <1>2, <1>4
<1>6. i = j
  BY <1>3, <1>5 DEF AtMostOnce
<1>7. i \in 1..Len(t) /\ k \in 1..Len(t) /\ t[i] = a /\ t[k] = b
  BY <1>2, <1>3, <1>5, <1>6
<1>. QED
  BY <1>1, <1>3, <1>7 DEF Ahead

\* Joining keeps the order within both lists, the right one in front.
LEMMA ConcatOrder ==
    ASSUME NEW S, NEW s \in Seq(S), NEW t \in Seq(S), NEW a, NEW b
    PROVE  /\ Ahead(s, a, b) => Ahead(s \o t, a, b)
           /\ Ahead(t, a, b) => Ahead(s \o t, a, b)
           /\ Contains(t, a) /\ Contains(s, b) => Ahead(s \o t, a, b)
<1>1. PICK r : r = s \o t
  OBVIOUS
<1>2. /\ Len(s) \in Nat /\ Len(t) \in Nat
      /\ Len(r) = Len(s) + Len(t)
      /\ \A i \in 1..Len(r) : r[i] = IF i <= Len(s) THEN s[i] ELSE t[i - Len(s)]
  BY <1>1, ConcatProperties, LenProperties
<1>3. \A i \in 1..Len(s) : i \in 1..Len(r) /\ r[i] = s[i]
  BY <1>2
<1>4. \A i \in 1..Len(t) : i + Len(s) \in 1..Len(r) /\ r[i + Len(s)] = t[i]
  BY <1>2
<1>5. Ahead(s, a, b) => Ahead(r, a, b)
  BY <1>3 DEF Ahead
<1>6. ASSUME NEW i \in 1..Len(t), NEW k \in 1..Len(t), t[i] = a, t[k] = b, k < i
      PROVE  Ahead(r, a, b)
  <2>1. k + Len(s) < i + Len(s)
    BY <1>2, <1>6
  <2>. QED
    BY <1>4, <1>6, <2>1 DEF Ahead
<1>7. ASSUME NEW i \in 1..Len(t), NEW k \in 1..Len(s), t[i] = a, s[k] = b
      PROVE  Ahead(r, a, b)
  <2>1. k < i + Len(s)
    BY <1>2
  <2>. QED
    BY <1>3, <1>4, <1>7, <2>1 DEF Ahead
<1>. QED
  BY <1>1, <1>5, <1>6, <1>7 DEF Ahead, Contains

\* Whatever callers do, the waiting line is first in, first out (BRPOPLPUSH,
\* LPUSH, RECOVER_PROCESSING_SCRIPT), for any number of entries.
THEOREM LineIsFirstInFirstOut == QueueSpec => FirstInFirstOut
<1> DEFINE Kept(a, b) ==
             Contains(pending, a) /\ Contains(pending', a) =>
                /\ Ahead(pending, a, b) => Ahead(pending', a, b)
                /\ ~ Contains(pending, b) /\ Contains(pending', b)
                      => Ahead(pending', a, b)
           Orderly == \A a, b \in QueueMessage : Kept(a, b)
<1>1. ASSUME QueueTypeOK, OneReference, [QueueNext]_queueVars,
             NEW a \in QueueMessage, NEW b \in QueueMessage
      PROVE  Kept(a, b)
  <2>1. pending \in Seq(Entry) /\ processing \in Seq(Entry)
    BY <1>1 DEF QueueTypeOK
  <2>2. CASE pending' = pending
    BY <2>2
  <2>3. ASSUME NEW e \in Entry, pending' = Cons(e, pending)
        PROVE  Kept(a, b)
    <3>1. Contains(pending', b) => b = e \/ Contains(pending, b)
      BY <2>1, <2>3, ConsMembers
    <3>. QED
      BY <2>1, <2>3, <3>1, ConsOrder
  <2>4. CASE pending # <<>> /\ pending' = Front(pending)
    <3>1. Contains(pending', b) => Contains(pending, b)
      BY <2>1, <2>4, FrontMembers
    <3>2. AtMostOnce(pending, a)
      BY <1>1 DEF OneReference, SinglePlace
    <3>. QED
      BY <2>1, <2>4, <3>1, <3>2, FrontOrder
  <2>5. CASE pending' = processing \o pending
    <3>1. Contains(pending', b) => Contains(processing, b) \/ Contains(pending, b)
      BY <2>1, <2>5, ConcatMembers
    <3>. QED
      BY <2>1, <2>5, <3>1, ConcatOrder
  <2> HIDE DEF Kept
  <2>. QED
    BY <1>1, <2>2, <2>3, <2>4, <2>5, PendingStep
<1>2. QueueTypeOK /\ OneReference /\ [QueueNext]_queueVars => [Orderly]_queueVars
  BY <1>1
<1> HIDE DEF Orderly
<1>3. QueueSpec => [][Orderly]_queueVars
  BY <1>2, QueueTypeCorrect, QueueKeepsOneReference, PTL DEF QueueSpec
<1>. QED
  BY <1>3 DEF FirstInFirstOut, Orderly

\* Work stranded in processing goes back in the order in which it was claimed
\* (RECOVER_PROCESSING_SCRIPT), and no other call returns two entries at once.
THEOREM RecoveryKeepsClaimOrder == QueueSpec => RecoveredInClaimOrder
<1> DEFINE Kept(a, b) ==
             Ahead(processing, a, b) /\ Contains(pending', a) /\ Contains(pending', b)
                => Ahead(pending', a, b)
           Orderly == \A a, b \in QueueMessage : Kept(a, b)
<1>1. ASSUME QueueTypeOK, OneReference, [QueueNext]_queueVars,
             NEW a \in QueueMessage, NEW b \in QueueMessage
      PROVE  Kept(a, b)
  <2> SUFFICES ASSUME Ahead(processing, a, b), Contains(pending', a), Contains(pending', b)
               PROVE  Ahead(pending', a, b)
    OBVIOUS
  <2>1. pending \in Seq(Entry) /\ processing \in Seq(Entry)
    BY <1>1 DEF QueueTypeOK
  <2>2. PICK i \in 1..Len(processing), k \in 1..Len(processing) :
            processing[i] = a /\ processing[k] = b /\ k < i
    BY DEF Ahead
  <2>3. Contains(processing, a) /\ Contains(processing, b)
    BY <2>2 DEF Contains
  <2>4. ~ Contains(pending, a) /\ ~ Contains(pending, b) /\ AtMostOnce(processing, a)
    BY <1>1, <2>3 DEF OneReference, SinglePlace
  <2>5. a # b
    BY <2>2, <2>4, LenProperties DEF AtMostOnce
  <2>6. pending' # pending
    BY <2>4
  <2>7. ASSUME NEW e \in Entry, pending' = Cons(e, pending)
        PROVE  FALSE
    BY <2>1, <2>4, <2>5, <2>7, ConsMembers
  <2>8. ~ (pending # <<>> /\ pending' = Front(pending))
    BY <2>1, <2>4, FrontMembers
  <2>9. pending' = processing \o pending
    BY <1>1, <2>6, <2>7, <2>8, PendingStep
  <2>. QED
    BY <2>1, <2>9, ConcatOrder
<1>2. QueueTypeOK /\ OneReference /\ [QueueNext]_queueVars => [Orderly]_queueVars
  BY <1>1
<1> HIDE DEF Orderly
<1>3. QueueSpec => [][Orderly]_queueVars
  BY <1>2, QueueTypeCorrect, QueueKeepsOneReference, PTL DEF QueueSpec
<1>. QED
  BY <1>3 DEF RecoveredInClaimOrder, Orderly
=============================================================================
