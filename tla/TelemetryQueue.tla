--------------------------- MODULE TelemetryQueue ---------------------------
(***************************************************************************)
(* The Redis-backed work queue of mission_ground/telemetry/queue.py.       *)
(*                                                                         *)
(* Three Redis lists hold queue entries and one string key per job, its    *)
(* marker, makes enqueueing idempotent.  Every Lua script of the file runs *)
(* atomically in Redis, so each is one action; the operators ending in     *)
(* Reply give the integer the script returns, from which the Python        *)
(* methods derive their result or their exception.                         *)
(*                                                                         *)
(* The head of a sequence is the left end of a Redis list: LPUSH adds      *)
(* there and BRPOPLPUSH takes from the other end.                          *)
(***************************************************************************)
EXTENDS Integers, Sequences, SequencesExt

CONSTANTS
    JobIds,       \* job UUIDs
    PacketIds,    \* logical packet identifiers
    Malformed,    \* byte strings from_json_bytes refuses
    NoMarker,     \* an absent marker key
    MaxForeign    \* bound: entries other programs push into pending

ASSUME QueueAssumption ==
    /\ MaxForeign \in Nat
    /\ NoMarker \notin [job_id : JobIds, packet_id : PacketIds]
    /\ Malformed \cap [job_id : JobIds, packet_id : PacketIds] = {}

VARIABLES
    pending,      \* list of entries that wait for a worker
    processing,   \* list of entries claimed by a worker
    failed,       \* list of entries retained for an operator
    marker,       \* marker[j]: the entry job j was enqueued with, or NoMarker
    foreign       \* how many malformed entries have been pushed so far

queueVars == <<pending, processing, failed, marker, foreign>>

\* QueueMessage: the two-field contract; its JSON bytes are a function of the
\* two fields, so equal messages are equal bytes.
QueueMessage == [job_id : JobIds, packet_id : PacketIds]

Entry == QueueMessage \cup Malformed

QueueInit ==
    /\ pending = <<>>
    /\ processing = <<>>
    /\ failed = <<>>
    /\ marker = [j \in JobIds |-> NoMarker]
    /\ foreign = 0
-----------------------------------------------------------------------------
(* The scripts and commands.                                               *)

EnqueueReply(m) ==
    IF marker[m.job_id] = NoMarker THEN 1
    ELSE IF marker[m.job_id] = m THEN 0 ELSE -1

\* Mutant: the marker would keep the job identifier instead of the entry.
EnqueueMarkingId(m) ==
    /\ marker' = [marker EXCEPT ![m.job_id] = m.job_id]
    /\ pending' = Cons(m, pending)
    /\ UNCHANGED <<processing, failed, foreign>>

\* Mutant: the marker would be written without looking at it.
EnqueueUnconditionally(m) ==
    /\ marker' = [marker EXCEPT ![m.job_id] = m]
    /\ pending' = Cons(m, pending)
    /\ UNCHANGED <<processing, failed, foreign>>

\* ENQUEUE_SCRIPT: without a marker, set it and LPUSH the entry; with one,
\* only report whether it is the same entry (0) or another one (-1, which
\* enqueue raises as QueueConflictError).
Enqueue(m) ==
    /\ IF EnqueueReply(m) = 1
       THEN /\ marker' = [marker EXCEPT ![m.job_id] = m]
            /\ pending' = Cons(m, pending)
       ELSE UNCHANGED <<marker, pending>>
    /\ UNCHANGED <<processing, failed, foreign>>

\* BRPOPLPUSH of claim: the oldest pending entry becomes the newest
\* processing entry.  Without one the call times out and returns None.
Claim ==
    /\ pending # <<>>
    /\ processing' = Cons(Last(pending), processing)
    /\ pending' = Front(pending)
    /\ UNCHANGED <<failed, marker, foreign>>

\* LREM processing 1 entry: how many entries it removes.  The Python methods
\* raise QueueStateError unless it is 1.
RemovedReply(e) == IF Contains(processing, e) THEN 1 ELSE 0

\* Mutant: the marker would go even if the entry was not there.
AckAlways(m) ==
    /\ processing' = RemoveFirst(processing, m)
    /\ marker' = [marker EXCEPT ![m.job_id] = NoMarker]
    /\ UNCHANGED <<pending, failed, foreign>>

\* ACK_SCRIPT: forget the entry and, if it was there, its marker.
Ack(m) ==
    /\ processing' = RemoveFirst(processing, m)
    /\ marker' = IF RemovedReply(m) = 1
                 THEN [marker EXCEPT ![m.job_id] = NoMarker]
                 ELSE marker
    /\ UNCHANGED <<pending, failed, foreign>>

\* Mutant: RPUSH for LPUSH would put the entry at the front of the line.
RetryAtFront(m) ==
    /\ processing' = RemoveFirst(processing, m)
    /\ pending' = IF RemovedReply(m) = 1 THEN Append(pending, m) ELSE pending
    /\ UNCHANGED <<failed, marker, foreign>>

\* RETRY_SCRIPT: back to the end of the waiting line, the marker retained.
Retry(m) ==
    /\ processing' = RemoveFirst(processing, m)
    /\ pending' = IF RemovedReply(m) = 1 THEN Cons(m, pending) ELSE pending
    /\ UNCHANGED <<failed, marker, foreign>>

\* DEAD_LETTER_SCRIPT: park the entry, the marker retained.  Used by
\* dead_letter for messages and by claim for an entry it cannot parse.
DeadLetter(e) ==
    /\ processing' = RemoveFirst(processing, e)
    /\ failed' = IF RemovedReply(e) = 1 THEN Cons(e, failed) ELSE failed
    /\ UNCHANGED <<pending, marker, foreign>>

\* Mutant: taking the newest entry first would turn the order around.
RecoverReversed ==
    /\ pending' = Reverse(processing) \o pending
    /\ processing' = <<>>
    /\ UNCHANGED <<failed, marker, foreign>>

\* RECOVER_PROCESSING_SCRIPT: RPOPLPUSH from processing to pending until
\* processing is empty.  The last entry of processing is pushed first, so
\* the whole list ends up, in its order, to the left of pending.
RecoverProcessing ==
    /\ pending' = processing \o pending
    /\ processing' = <<>>
    /\ UNCHANGED <<failed, marker, foreign>>

\* Another Redis client pushes bytes that are no queue message; the code
\* provides for it when it quarantines such entries.
ForeignPush(e) ==
    /\ foreign < MaxForeign
    /\ foreign' = foreign + 1
    /\ pending' = Cons(e, pending)
    /\ UNCHANGED <<processing, failed, marker>>

(* Any number of callers, each calling any method at any time.             *)
QueueNext ==
    \/ \E m \in QueueMessage : Enqueue(m) \/ Ack(m) \/ Retry(m)
    \/ \E e \in Entry : DeadLetter(e)
    \/ Claim
    \/ RecoverProcessing
    \/ \E e \in Malformed : ForeignPush(e)

QueueSpec == QueueInit /\ [][QueueNext]_queueVars
-----------------------------------------------------------------------------
(* Properties.                                                             *)

QueueTypeOK ==
    /\ pending \in Seq(Entry)
    /\ processing \in Seq(Entry)
    /\ failed \in Seq(Entry)
    /\ marker \in [JobIds -> QueueMessage \cup {NoMarker}]
    /\ \A j \in JobIds : marker[j] # NoMarker => marker[j].job_id = j
    /\ foreign \in 0..MaxForeign

\* No entry equal to e at two positions of the list s.
AtMostOnce(s, e) ==
    \A i, k \in 1..Len(s) : s[i] = e /\ s[k] = e => i = k

\* A message is in at most one of the three lists, and there at most once.
SinglePlace ==
    \A m \in QueueMessage :
        /\ AtMostOnce(pending, m)
        /\ AtMostOnce(processing, m)
        /\ AtMostOnce(failed, m)
        /\ ~ (Contains(pending, m) /\ Contains(processing, m))
        /\ ~ (Contains(pending, m) /\ Contains(failed, m))
        /\ ~ (Contains(processing, m) /\ Contains(failed, m))

\* A message is in some list exactly when its job's marker names it.
MarkerMatches ==
    \A m \in QueueMessage :
        marker[m.job_id] = m
            <=> Contains(pending, m) \/ Contains(processing, m) \/ Contains(failed, m)

\* One reference per job, whatever calls arrive in whatever order, those that
\* fail included: the markers of ENQUEUE_SCRIPT and ACK_SCRIPT and the moves
\* of the other scripts never lose the only reference to a marked job (which
\* could then never be enqueued again) and never make a second one.
OneReference == SinglePlace /\ MarkerMatches

\* In the list s, a is nearer than b to the end entries are taken from.
Ahead(s, a, b) ==
    \E i, k \in 1..Len(s) : s[i] = a /\ s[k] = b /\ k < i

\* The line is first in, first out ("Block for the oldest pending job"): two
\* waiting messages keep their order, an arriving one never gets in front of
\* one that already waits, and nobody leaves before the one in front of it.
FirstInFirstOut ==
    [][\A a, b \in QueueMessage :
         Contains(pending, a) /\ Contains(pending', a) =>
            /\ Ahead(pending, a, b) => Ahead(pending', a, b)
            /\ ~ Contains(pending, b) /\ Contains(pending', b)
                  => Ahead(pending', a, b)]_queueVars

\* recover_processing returns stranded work "in FIFO order": of two messages
\* that go back together the one claimed first waits in front.
RecoveredInClaimOrder ==
    [][\A a, b \in QueueMessage :
         Ahead(processing, a, b) /\ Contains(pending', a) /\ Contains(pending', b)
            => Ahead(pending', a, b)]_queueVars
-----------------------------------------------------------------------------
(* Refinement: the lists and markers implement the tray.                   *)

\* The tray slot of a job, read off the marker and the lists.
SlotOf(j) ==
    IF marker[j] = NoMarker
    THEN [at |-> "outside"]
    ELSE [at |-> IF Contains(pending, marker[j]) THEN "pending"
                 ELSE IF Contains(processing, marker[j]) THEN "processing"
                 ELSE "failed",
          packet |-> marker[j].packet_id]

Tray == INSTANCE WorkTray WITH slot <- [j \in JobIds |-> SlotOf(j)]

\* Every queue operation is a legal tray move or changes nothing a caller can
\* see: a job leaves failed never, and processing only by ack, retry,
\* dead_letter or recover_processing.
ImplementsTray == Tray!TraySpec
=============================================================================
