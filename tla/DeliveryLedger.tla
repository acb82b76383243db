---------------------------- MODULE DeliveryLedger ----------------------------
(***************************************************************************)
(* The reception path of ground-api: POST of one telemetry frame, from the *)
(* durable receipt to the HTTP status, as receive_payload_data of          *)
(* services/ground_api.py drives the repository transactions of            *)
(* telemetry/storage.py.                                                   *)
(*                                                                         *)
(* uvicorn runs the handlers of several deliveries concurrently, each on a *)
(* database session of its own.  A transaction is one action where one     *)
(* statement under a row lock decides it; it is several actions where it   *)
(* reads something PostgreSQL (READ COMMITTED) does not lock, which is the *)
(* case for a row that does not exist yet:                                 *)
(*   - record_delivery: identity lookup, then insert;                      *)
(*   - _accept_packet_transaction: packet lookup, sequence state lookup,   *)
(*     inserts.                                                            *)
(* A unique-key violation rolls the transaction back and the code tries it *)
(* once more.                                                              *)
(*                                                                         *)
(* The sessions are created with expire_on_commit=False, and Session.get   *)
(* of SQLAlchemy, with_for_update or not, does not overwrite an object the *)
(* session still holds.  A handler that holds a row therefore decides by   *)
(* the row as it read it (held, heldJob below), whatever was committed     *)
(* since; it locks the row but does not look at it again.  A rollback      *)
(* expires what is held, and the next read is a fresh one.                 *)
(*                                                                         *)
(* One payload boot session is modelled, so that a frame is identified by  *)
(* its sequence number.                                                    *)
(***************************************************************************)
EXTENDS SequenceRules, FiniteSets

CONSTANTS
    Deliveries,   \* HTTP requests that may arrive, each handled once
    RequestIds,   \* canonical X-Request-ID values
    Bodies,       \* request bodies
    ContentTypes, \* of a request: TRUE stands for application/octet-stream
    SeqOf         \* SeqOf[b]: sequence number decode_telemetry finds in body
                  \* b, or None when validation fails

ASSUME LedgerAssumption ==
    /\ SeqOf \in [Bodies -> SequenceNumbers \cup {None}]
    /\ None \notin Deliveries
    /\ None \notin RequestIds
    /\ ContentTypes \subseteq BOOLEAN

VARIABLES
    identity,     \* telemetry_request_identities: first receipt per request ID
    receipt,      \* telemetry_delivery_receipts, keyed by the delivery that
                  \* created the row
    packet,       \* logical_telemetry_packets, keyed by sequence number
    seqState,     \* the telemetry_sequence_states row of the session
    job,          \* telemetry_processing_jobs.state, keyed like packet
    lock,         \* lock[r]: handler that holds the row lock of receipt r
    handler       \* local state of the handler of each delivery

tables == <<identity, receipt, packet, seqState, job>>
ledgerVars == <<identity, receipt, packet, seqState, job, lock, handler>>

Received == {SeqOf[b] : b \in Bodies} \ {None}

JobStates == {"PENDING_QUEUE", "QUEUED", "PROCESSING", "RETRY_WAIT", "COMPLETE", "FAILED"}

Receipts == [body : Bodies,
             status : {"PENDING", "REJECTED", "ACCEPTED", "DUPLICATE", "CONFLICT"},
             reason : {None, "INVALID_CONTENT_TYPE", "INVALID_REQUEST_ID",
                       "VALIDATION", "REQUEST_ID_REUSED", "SEQUENCE_CONFLICT",
                       "SEQUENCE_STATE_CONFLICT"},
             packet : Received \cup {None},
             duplicate_of : Deliveries \cup {None},
             queue : {"NOT_APPLICABLE", "PENDING_QUEUE", "QUEUED"}]

Packets == [source : Deliveries,
            disposition : {"FIRST", "IN_ORDER", "GAP", "LATE"},
            missing_before : Nat]

SequenceStates == [high_water : SequenceNumbers, accepted : Nat, missing : Nat]

\* A handler: where it is, its request, the receipt it works on, which try of
\* the current transaction it is in, the receipt row a replay holds, the state
\* of the job row it holds, why it queues the job, and its answer.
Handlers == [pc : {"idle", "record", "insert", "replay", "validate", "lookup",
                   "sequence", "first", "enqueue", "mark", "done"},
             id : RequestIds \cup {None},
             body : Bodies \cup {None},
             octets : BOOLEAN,
             receipt : Deliveries \cup {None},
             try : {1, 2},
             held : Receipts \cup {None},
             heldJob : JobStates \cup {None},
             path : {"new", "duplicate", "resume"},
             reply : {None, 200, 202, 400, 409, 422, 500, 503}]

\* A missing row, or one a session does not hold, is no row.
ASSUME LedgerRowAssumption ==
    /\ None \notin Receipts \cup Packets \cup SequenceStates
    /\ None \notin JobStates

LedgerInit ==
    /\ identity = [q \in RequestIds |-> None]
    /\ receipt = [d \in Deliveries |-> None]
    /\ packet = [s \in Received |-> None]
    /\ seqState = None
    /\ job = [s \in Received |-> None]
    /\ lock = [d \in Deliveries |-> None]
    /\ handler = [d \in Deliveries |->
                    [pc |-> "idle", id |-> None, body |-> None, octets |-> TRUE,
                     receipt |-> None, try |-> 1, held |-> None,
                     heldJob |-> None, path |-> "new", reply |-> None]]
-----------------------------------------------------------------------------
(* Handler steps.                                                          *)

At(d, pc) == handler[d].pc = pc

GoTo(d, pc) == handler' = [handler EXCEPT ![d].pc = pc]

Answer(d, code) ==
    handler' = [handler EXCEPT ![d].pc = "done", ![d].reply = code]

\* The sequence number in the body the handler holds.
SeqIn(d) == SeqOf[handler[d].body]

\* The row lock of the handler's receipt is free (SELECT ... FOR UPDATE does
\* not wait).
CanLock(d) == lock[handler[d].receipt] = None

\* The receipt row as the handler's session shows it.
Seen(d) ==
    IF handler[d].held # None THEN handler[d].held ELSE receipt[handler[d].receipt]

\* The state of the job row as the handler's session shows it.
SeenJob(d) ==
    IF handler[d].heldJob # None THEN handler[d].heldJob ELSE job[SeqIn(d)]

\* A new row of telemetry_delivery_receipts.
NewReceipt(body, status, reason, origin) ==
    [body |-> body, status |-> status, reason |-> reason, packet |-> None,
     duplicate_of |-> origin, queue |-> "NOT_APPLICABLE"]

\* An authenticated request of acceptable size arrives, with or without a
\* canonical request ID and the right content type.
Arrive(d) ==
    /\ At(d, "idle")
    /\ \E q \in RequestIds \cup {None}, b \in Bodies, octets \in ContentTypes :
         handler' = [handler EXCEPT ![d].pc = "record", ![d].id = q,
                                    ![d].body = b, ![d].octets = octets]
    /\ UNCHANGED <<tables, lock>>

\* record_delivery, the identity lookup: an exact replay returns the first
\* receipt, another body under the same ID gets a CONFLICT receipt of its own.
RecordLookup(d) ==
    LET first == identity[handler[d].id] IN
    /\ At(d, "record")
    /\ IF handler[d].id = None \/ first = None
       THEN GoTo(d, "insert") /\ UNCHANGED receipt
       ELSE IF receipt[first].body = handler[d].body
       THEN /\ handler' = [handler EXCEPT ![d].pc = "replay", ![d].receipt = first]
            /\ UNCHANGED receipt
       ELSE /\ receipt' = [receipt EXCEPT ![d] =
                  NewReceipt(handler[d].body, "CONFLICT", "REQUEST_ID_REUSED", first)]
            /\ Answer(d, 409)
    /\ UNCHANGED <<identity, packet, seqState, job, lock>>

\* Mutant: without the primary key of the identity table.
RecordInsertUnchecked(d) ==
    /\ At(d, "insert")
    /\ receipt' = [receipt EXCEPT ![d] =
          NewReceipt(handler[d].body, "PENDING", None, None)]
    /\ identity' = [r \in RequestIds |-> IF r = handler[d].id THEN d ELSE identity[r]]
    /\ handler' = [handler EXCEPT ![d].pc = "validate", ![d].receipt = d]
    /\ UNCHANGED <<packet, seqState, job, lock>>

\* record_delivery, the inserts.  The identity primary key picks one winner of
\* concurrent first deliveries; the loser looks again.
RecordInsert(d) ==
    LET q == handler[d].id IN
    /\ At(d, "insert")
    /\ IF q # None /\ identity[q] # None
       THEN /\ IF handler[d].try = 1
               THEN handler' = [handler EXCEPT ![d].pc = "record", ![d].try = 2]
               ELSE Answer(d, 503)
            /\ UNCHANGED <<identity, receipt>>
       ELSE /\ receipt' = [receipt EXCEPT ![d] =
                  NewReceipt(handler[d].body, "PENDING", None, None)]
            /\ identity' = [r \in RequestIds |-> IF r = q THEN d ELSE identity[r]]
            /\ handler' = [handler EXCEPT ![d].pc = "validate", ![d].receipt = d,
                                          ![d].try = 1]
    /\ UNCHANGED <<packet, seqState, job, lock>>

\* A replay reads its receipt (and keeps the object): a settled outcome is
\* repeated, anything else goes through validation again.
Replay(d) ==
    LET row == receipt[handler[d].receipt] IN
    /\ At(d, "replay")
    /\ IF row.status = "REJECTED" THEN Answer(d, 422)
       ELSE IF row.status \in {"ACCEPTED", "DUPLICATE"} /\ row.queue = "QUEUED"
       THEN Answer(d, 200)
       ELSE handler' = [handler EXCEPT
              ![d].pc = "validate", ![d].try = 1, ![d].held = row]
    /\ UNCHANGED <<tables, lock>>

\* reject_delivery: only pending evidence is rejected; a repetition for the
\* same reason is harmless, everything else raises InvalidDeliveryStateError,
\* which the handler does not catch.
RejectDelivery(d, reason, code) ==
    LET r == handler[d].receipt IN
    /\ CanLock(d)
    /\ IF Seen(d).status = "PENDING"
       THEN /\ receipt' = [receipt EXCEPT ![r].status = "REJECTED",
                                          ![r].reason = reason]
            /\ Answer(d, code)
       ELSE /\ UNCHANGED receipt
            /\ Answer(d, IF Seen(d).status = "REJECTED" /\ Seen(d).reason = reason
                         THEN code ELSE 500)
    /\ UNCHANGED <<identity, packet, seqState, job, lock>>

\* A replay of an accepted frame that still waits for its queue.
PendingReplay(d) ==
    /\ handler[d].held # None
    /\ handler[d].held.status = "ACCEPTED"
    /\ handler[d].held.queue = "PENDING_QUEUE"

\* The checks between the receipt and the acceptance transaction, in order.
\* A pending replay reads its job row and keeps the object.
Validate(d) ==
    /\ At(d, "validate")
    /\ IF ~ handler[d].octets
       THEN RejectDelivery(d, "INVALID_CONTENT_TYPE", 400)
       ELSE IF handler[d].id = None
       THEN RejectDelivery(d, "INVALID_REQUEST_ID", 400)
       ELSE IF PendingReplay(d)
       THEN /\ handler' = [handler EXCEPT ![d].pc = "enqueue", ![d].path = "resume",
                                          ![d].heldJob = job[SeqIn(d)]]
            /\ UNCHANGED <<tables, lock>>
       ELSE IF SeqIn(d) = None
       THEN RejectDelivery(d, "VALIDATION", 422)
       ELSE GoTo(d, "lookup") /\ UNCHANGED <<tables, lock>>

\* job_state_to_queue_status
QueueStatus(state) == IF state = "PENDING_QUEUE" THEN "PENDING_QUEUE" ELSE "QUEUED"

\* Mutant: a duplicate would be answered without looking at its job.
AfterDuplicateAnswers(d) == Answer(d, 200)

\* What the handler does with a duplicate result: queue the job if it still
\* waits for that, then answer 200.
AfterDuplicate(d) ==
    IF QueueStatus(job[SeqIn(d)]) = "PENDING_QUEUE"
    THEN handler' = [handler EXCEPT ![d].pc = "enqueue", ![d].path = "duplicate"]
    ELSE Answer(d, 200)

\* Mutant: equal identifiers would count as equal bytes.
ExactDuplicateByKey(r, row) == row.source \in Deliveries

\* The receipt r carries the bytes of the packet row's source.
ExactDuplicate(r, row) == receipt[row.source].body = receipt[r].body

\* _accept_packet_transaction up to the packet lookup.  Of the receipt only
\* the attributes that change in the session are written back.
AcceptLookup(d) ==
    LET r == handler[d].receipt
        row == packet[SeqIn(d)] IN
    /\ At(d, "lookup")
    /\ CanLock(d)
    /\ \/ /\ Seen(d).status = "ACCEPTED"
          /\ handler' = [handler EXCEPT ![d].pc = "enqueue", ![d].path = "new"]
          /\ UNCHANGED <<receipt, lock>>
       \/ /\ Seen(d).status = "DUPLICATE"
          /\ AfterDuplicate(d)
          /\ UNCHANGED <<receipt, lock>>
       \/ /\ Seen(d).status \in {"REJECTED", "CONFLICT"}
          /\ Answer(d, 500)
          /\ UNCHANGED <<receipt, lock>>
       \/ /\ Seen(d).status = "PENDING" /\ row = None
          /\ lock' = [lock EXCEPT ![r] = d]
          /\ GoTo(d, "sequence")
          /\ UNCHANGED receipt
       \/ /\ Seen(d).status = "PENDING" /\ row # None
          /\ LET same == ExactDuplicate(r, row) IN
             /\ receipt' = [receipt EXCEPT ![r] =
                   [receipt[r] EXCEPT
                      !.status = IF same THEN "DUPLICATE" ELSE "CONFLICT",
                      !.reason = IF same THEN @ ELSE "SEQUENCE_CONFLICT",
                      !.packet = SeqIn(d),
                      !.duplicate_of = row.source]]
             /\ IF same THEN AfterDuplicate(d) ELSE Answer(d, 409)
          /\ UNCHANGED lock
    /\ UNCHANGED <<identity, packet, seqState, job>>

\* A unique-key violation: the transaction is rolled back, its row lock is
\* released, and the acceptance is tried once more.
AcceptIntegrityError(d) ==
    /\ lock' = [lock EXCEPT ![handler[d].receipt] = None]
    /\ IF handler[d].try = 1
       THEN handler' = [handler EXCEPT ![d].pc = "lookup", ![d].try = 2,
                                       ![d].held = None]
       ELSE Answer(d, 503)
    /\ UNCHANGED tables

\* The inserts and updates of the acceptance transaction and its commit, from
\* the sequence state row the transaction read.
InsertPacket(d, sequence, state) ==
    LET r == handler[d].receipt
        high == IF state = None THEN None ELSE state.high_water
        missing == StorageMissingBefore(high, sequence) IN
    /\ packet' = [packet EXCEPT ![sequence] =
          [source |-> r, disposition |-> StorageDisposition(high, sequence),
           missing_before |-> missing]]
    /\ seqState' = [high_water |-> StorageNextHighWater(high, sequence),
                    accepted |-> IF state = None THEN 1 ELSE state.accepted + 1,
                    missing |-> IF state = None THEN missing
                                ELSE state.missing + missing]
    /\ job' = [job EXCEPT ![sequence] = "PENDING_QUEUE"]
    /\ receipt' = [receipt EXCEPT ![r] =
          [receipt[r] EXCEPT !.status = "ACCEPTED", !.packet = sequence,
                             !.queue = "PENDING_QUEUE"]]
    /\ lock' = [lock EXCEPT ![r] = None]
    /\ handler' = [handler EXCEPT ![d].pc = "enqueue", ![d].path = "new"]
    /\ UNCHANGED identity

\* The sequence state lookup.  An existing row stays locked until the commit,
\* so the rest of the transaction is part of this step; without a row nothing
\* is locked and the inserts are a step of their own.
AcceptSequence(d) ==
    LET r == handler[d].receipt
        s == SeqIn(d) IN
    /\ At(d, "sequence")
    /\ \/ /\ seqState = None
          /\ GoTo(d, "first")
          /\ UNCHANGED <<tables, lock>>
       \/ /\ seqState # None
          /\ StorageDisposition(seqState.high_water, s) = "SEQUENCE_STATE_CONFLICT"
          /\ receipt' = [receipt EXCEPT ![r].status = "CONFLICT",
                                        ![r].reason = "SEQUENCE_STATE_CONFLICT"]
          /\ lock' = [lock EXCEPT ![r] = None]
          /\ Answer(d, 409)
          /\ UNCHANGED <<identity, packet, seqState, job>>
       \/ /\ seqState # None
          /\ StorageDisposition(seqState.high_water, s) # "SEQUENCE_STATE_CONFLICT"
          /\ IF packet[s] # None THEN AcceptIntegrityError(d) ELSE InsertPacket(d, s, seqState)

\* Mutant: without the primary key of the sequence state table.
AcceptFirstByPacketKey(d) ==
    /\ At(d, "first")
    /\ IF packet[SeqIn(d)] # None
       THEN AcceptIntegrityError(d)
       ELSE InsertPacket(d, SeqIn(d), None)

\* Mutant: without the unique key of the packet table either.
AcceptFirstUnchecked(d) ==
    /\ At(d, "first")
    /\ InsertPacket(d, SeqIn(d), None)

\* The inserts of a transaction that found no sequence state row: the packet
\* key or the sequence state key may have been taken in the meantime.
AcceptFirst(d) ==
    /\ At(d, "first")
    /\ IF seqState # None \/ packet[SeqIn(d)] # None
       THEN AcceptIntegrityError(d)
       ELSE InsertPacket(d, SeqIn(d), None)

\* _queue_one, the Redis call: accepted (a repetition included), or RedisError.
Enqueue(d) ==
    /\ At(d, "enqueue")
    /\ GoTo(d, "mark") \/ Answer(d, 503)
    /\ UNCHANGED <<tables, lock>>

\* _queue_one, mark_job_queued: a waiting job becomes QUEUED together with its
\* accepted receipts, a QUEUED job stays, and any other state raises
\* InvalidDeliveryStateError, which the handler does not catch.
MarkJobQueued(d) ==
    LET s == SeqIn(d)
        transitioned == SeenJob(d) \in {"PENDING_QUEUE", "RETRY_WAIT"} IN
    /\ At(d, "mark")
    /\ IF transitioned
       THEN /\ job' = [job EXCEPT ![s] = "QUEUED"]
            /\ receipt' = [r \in Deliveries |->
                  IF receipt[r] # None /\ receipt[r].packet = s
                                       /\ receipt[r].status = "ACCEPTED"
                  THEN [receipt[r] EXCEPT !.queue = "QUEUED"] ELSE receipt[r]]
       ELSE UNCHANGED <<job, receipt>>
    /\ Answer(d, IF ~ transitioned /\ SeenJob(d) # "QUEUED" THEN 500
                 ELSE IF handler[d].path = "duplicate" THEN 200
                 ELSE IF handler[d].path = "resume" /\ ~ transitioned THEN 200
                 ELSE 202)
    /\ UNCHANGED <<identity, packet, seqState, lock>>

\* PostgreSQL fails the handler's next statement or the reply to its last one
\* (SQLAlchemyError): the open transaction is rolled back.  A stop of the
\* service is the same for every handler, with answers nobody receives.
Abort(d) ==
    /\ handler[d].pc \notin {"idle", "done"}
    /\ lock' = [r \in Deliveries |-> IF lock[r] = d THEN None ELSE lock[r]]
    /\ Answer(d, 503)
    /\ UNCHANGED tables

\* The payload worker moves a queued job on (module TelemetryPipeline has the
\* details): claim_processing_job, complete_processing_job and
\* fail_processing_attempt, by the job states they leave.
WorkerStep(s) ==
    /\ \/ job[s] \in {"QUEUED", "RETRY_WAIT"} /\ job' = [job EXCEPT ![s] = "PROCESSING"]
       \/ /\ job[s] = "PROCESSING"
          /\ \E state \in {"COMPLETE", "FAILED", "RETRY_WAIT"} :
               job' = [job EXCEPT ![s] = state]
    /\ UNCHANGED <<identity, receipt, packet, seqState, lock, handler>>

LedgerNext ==
    \/ \E d \in Deliveries :
         \/ Arrive(d)
         \/ RecordLookup(d)
         \/ RecordInsert(d)
         \/ Replay(d)
         \/ Validate(d)
         \/ AcceptLookup(d)
         \/ AcceptSequence(d)
         \/ AcceptFirst(d)
         \/ Enqueue(d)
         \/ MarkJobQueued(d)
         \/ Abort(d)
    \/ \E s \in Received : WorkerStep(s)

LedgerSpec == LedgerInit /\ [][LedgerNext]_ledgerVars
-----------------------------------------------------------------------------
(* Properties.                                                             *)

LedgerTypeOK ==
    /\ identity \in [RequestIds -> Deliveries \cup {None}]
    /\ \A d \in Deliveries : receipt[d] = None \/ receipt[d] \in Receipts
    /\ \A s \in Received : packet[s] = None \/ packet[s] \in Packets
    /\ seqState = None \/ seqState \in SequenceStates
    /\ job \in [Received -> JobStates \cup {None}]
    /\ lock \in [Deliveries -> Deliveries \cup {None}]
    /\ \A d \in Deliveries : handler[d] \in Handlers

\* The body that became the packet of sequence number s.
SourceBody(s) == receipt[packet[s].source].body

\* An answer of 200 or 202 tells the vendor the truth, however handlers,
\* retransmissions and the worker interleave: the packet row of the frame
\* exists, its preserved evidence is exactly the delivered body, and its job
\* has been handed to the queue ("the raw record is durable and the saved
\* identifier was already queued or was newly queued").
SuccessIsDurable ==
    \A d \in Deliveries :
        handler[d].reply \in {200, 202} =>
            /\ SeqIn(d) # None
            /\ packet[SeqIn(d)] # None
            /\ SourceBody(SeqIn(d)) = handler[d].body
            /\ job[SeqIn(d)] \in JobStates \ {"PENDING_QUEUE"}

\* Concurrent transmissions of one request leave one receipt: every other
\* receipt under the request ID of an identity row carries other bytes ("the
\* request ledger primary key chooses one winner").
OneReceiptPerRequest ==
    \A d \in Deliveries :
        (receipt[d] # None /\ handler[d].id # None) =>
            LET first == identity[handler[d].id] IN
            /\ first # None
            /\ receipt[d].body = receipt[first].body => d = first

\* The verdict on a receipt agrees with the bytes it was reached on: only the
\* source of a packet is ACCEPTED, a DUPLICATE has the bytes of the packet's
\* source and a SEQUENCE_CONFLICT has others.
VerdictsMatchEvidence ==
    \A d \in Deliveries :
        LET row == receipt[d] IN
        row # None =>
            /\ row.status = "ACCEPTED" => packet[row.packet].source = d
            /\ row.status = "DUPLICATE" => SourceBody(row.packet) = row.body
            /\ row.status = "CONFLICT" /\ row.reason = "SEQUENCE_CONFLICT"
                  => SourceBody(row.packet) # row.body

PacketRows == {s \in Received : packet[s] # None}

\* The sequence state of the session stays the exact summary of the packet
\* rows under concurrent acceptance: a mark at the newest packet, a count of
\* the packets, and as many missing as were not observed or came late.
SequenceStateIsSummary ==
    IF PacketRows = {} THEN seqState = None
    ELSE /\ seqState # None
         /\ seqState.high_water \in PacketRows
         /\ \A s \in PacketRows : s <= seqState.high_water
         /\ seqState.accepted = Cardinality(PacketRows)
         /\ seqState.missing
               = Cardinality((0..seqState.high_water) \ PacketRows)
                 + Cardinality({s \in PacketRows : packet[s].disposition = "LATE"})

\* A packet row, once committed, keeps its source receipt, disposition and gap
\* whatever arrives later, and its job never waits for a first queueing again
\* ("instead of creating duplicate work").
PacketRowsArePermanent ==
    [][\A s \in Received :
         packet[s] # None =>
            /\ packet'[s] = packet[s]
            /\ job[s] # "PENDING_QUEUE" => job'[s] # "PENDING_QUEUE"]_ledgerVars

\* What the interface document says of an exact packet duplicate: it is never
\* answered 409.  (Not so: the lookup of the packet and that of the sequence
\* state are two statements.)
DuplicateNotRefused ==
    \A d \in Deliveries :
        (handler[d].reply = 409 /\ SeqIn(d) # None) =>
            \/ packet[SeqIn(d)] # None /\ SourceBody(SeqIn(d)) # handler[d].body
            \/ receipt[d].reason = "REQUEST_ID_REUSED"
=============================================================================
