-------------------------- MODULE TelemetryPipeline --------------------------
(***************************************************************************)
(* From an accepted packet to its processed result: ground-api queues the  *)
(* job (services/ground_api.py, _queue_one and the recovery at startup),   *)
(* payload workers take it from Redis, claim it in PostgreSQL under a      *)
(* lease, process it, store the result and only then forget the queue      *)
(* entry (services/payload_worker.py, the job transactions of              *)
(* telemetry/storage.py).                                                  *)
(*                                                                         *)
(* A repository transaction locks its job row and is one action; a Redis   *)
(* script is one action of TelemetryQueue; between two of them everybody   *)
(* else may move.  A call may fail before or after its effect, a process   *)
(* may stop anywhere, and time passes in the actions LeaseExpires and      *)
(* RetryDue.                                                               *)
(*                                                                         *)
(* Each packet has one job, so the packet is named by its job.  As in      *)
(* DeliveryLedger a session that holds a job object decides by the state   *)
(* it read (`held`), not by the row it has just locked.                    *)
(***************************************************************************)
EXTENDS TelemetryQueue, FiniteSets

CONSTANTS
    Handlers,       \* requests that ground-api handles at the same time
    Workers,        \* worker processes
    VersionOf,      \* VersionOf[w]: processor version a worker runs
    Corrupt,        \* jobs whose preserved bytes do not match the stored fields
    MaxAttempts,    \* TelemetryProcessingJob.max_attempts
    None,           \* no value
    Gone,           \* worker_id of a process that no longer exists
    MaxResubmits,   \* bound: vendor retransmissions of a frame not yet queued
    MaxGroundStops, \* bound: stops of ground-api
    MaxWorkerStops, \* bound: stops of workers
    MaxFaults,      \* bound: failed database or Redis calls
    MaxSlow,        \* bound: leases that run out while their worker works
    MaxRedisLosses  \* bound: losses of the Redis data

ASSUME PipelineAssumption ==
    /\ PacketIds = JobIds
    /\ IsFiniteSet(Handlers)
    /\ Corrupt \subseteq JobIds
    /\ MaxAttempts \in Nat \ {0}
    /\ {MaxResubmits, MaxGroundStops, MaxWorkerStops,
        MaxFaults, MaxSlow, MaxRedisLosses} \subseteq Nat
    /\ None \notin Workers \cup JobIds \cup {Gone}
    /\ Gone \notin Workers

VARIABLES
    job,        \* telemetry_processing_jobs
    result,     \* processed_telemetry: version that computed it, or None
    api,        \* the handlers of ground-api that queue a job
    ground,     \* ground-api itself: up, down, or in startup recovery
    worker,     \* local state of the workers
    spent       \* how much of each bound is used up

durable == <<job, result>>
pipelineVars == <<queueVars, job, result, api, ground, worker, spent>>

\* The queue entry of job j.
Ref(j) == [job_id |-> j, packet_id |-> j]

ProcessingJobState ==
    {"PENDING_QUEUE", "QUEUED", "PROCESSING", "RETRY_WAIT", "COMPLETE", "FAILED"}

\* lease_expires_at and next_attempt_at are kept as what a comparison with the
\* clock gives: lease is none, live or expired; due tells whether the next
\* attempt may start.
Jobs == [state : ProcessingJobState,
         attempts : Nat,
         owner : Workers \cup {None, Gone},
         lease : {"none", "live", "expired"},
         due : BOOLEAN]

\* A missing row is no row and no state, and a result names the version that
\* computed it.
ASSUME RowAssumption ==
    /\ None \notin Jobs /\ None \notin ProcessingJobState
    /\ \A w \in Workers : VersionOf[w] # None

Budgets == [resubmits |-> MaxResubmits, groundStops |-> MaxGroundStops,
            workerStops |-> MaxWorkerStops, faults |-> MaxFaults,
            slow |-> MaxSlow, losses |-> MaxRedisLosses]

Spend(b) ==
    /\ spent[b] < Budgets[b]
    /\ spent' = [spent EXCEPT ![b] = @ + 1]

HandlerIdle == [pc |-> "idle", job |-> None, held |-> None]
WorkerDown == [pc |-> "down", msg |-> None]
WorkerIdle == [pc |-> "idle", msg |-> None]
GroundUp == [pc |-> "up", todo |-> {}, job |-> None, held |-> None]

PipelineInit ==
    /\ QueueInit
    /\ job = [j \in JobIds |-> None]
    /\ result = [j \in JobIds |-> None]
    /\ api = [h \in Handlers |-> HandlerIdle]
    /\ ground = GroundUp
    /\ worker = [w \in Workers |-> WorkerDown]
    /\ spent = [b \in DOMAIN Budgets |-> 0]
-----------------------------------------------------------------------------
(* ground-api.                                                             *)

\* Mutant: the job row would be inserted as QUEUED.
SubmitQueued(h, j) ==
    /\ ground.pc = "up"
    /\ api[h] = HandlerIdle
    /\ job[j] = None
    /\ job' = [job EXCEPT ![j] = [state |-> "QUEUED", attempts |-> 0,
                                  owner |-> None, lease |-> "none", due |-> FALSE]]
    /\ api' = [api EXCEPT ![h] = [pc |-> "enqueue", job |-> j, held |-> None]]
    /\ UNCHANGED <<queueVars, result, ground, worker, spent>>

\* A new packet is accepted; its job row is committed and its handler goes on
\* to queue it.
Submit(h, j) ==
    /\ ground.pc = "up"
    /\ api[h] = HandlerIdle
    /\ job[j] = None
    /\ job' = [job EXCEPT ![j] = [state |-> "PENDING_QUEUE", attempts |-> 0,
                                  owner |-> None, lease |-> "none", due |-> FALSE]]
    /\ api' = [api EXCEPT ![h] = [pc |-> "enqueue", job |-> j, held |-> None]]
    /\ UNCHANGED <<queueVars, result, ground, worker, spent>>

\* The vendor sends the frame again, perhaps beside a request that is still
\* being handled, and its receipt or job is found not yet queued.  The same
\* request goes on to read the job row; another one queues the job without
\* holding its row.
Resubmit(h, j) ==
    /\ ground.pc = "up"
    /\ api[h] = HandlerIdle
    /\ job[j] # None /\ job[j].state = "PENDING_QUEUE"
    /\ Spend("resubmits")
    /\ \E pc \in {"read", "enqueue"} :
         api' = [api EXCEPT ![h] = [pc |-> pc, job |-> j, held |-> None]]
    /\ UNCHANGED <<queueVars, durable, ground, worker>>

\* get_job_for_packet of a replay: the handler holds the row as it is now,
\* which others may have moved on.
ApiRead(h) ==
    /\ api[h].pc = "read"
    /\ api' = [api EXCEPT ![h] = [pc |-> "enqueue", job |-> api[h].job,
                                  held |-> job[api[h].job].state]]
    /\ UNCHANGED <<queueVars, durable, ground, worker, spent>>

\* mark_job_queued as a session that shows the job in `state` executes it.
Queueable(state) == state \in {"PENDING_QUEUE", "RETRY_WAIT"}

MarkJobQueued(j, state) ==
    job' = IF Queueable(state)
           THEN [job EXCEPT ![j].state = "QUEUED", ![j].due = FALSE]
           ELSE job

\* _queue_one in a handler: the Redis call, then the database.  A state that
\* mark_job_queued refuses changes nothing.
ApiEnqueue(h) ==
    /\ api[h].pc = "enqueue"
    /\ Enqueue(Ref(api[h].job))
    /\ api' = [api EXCEPT ![h].pc = "mark"]
    /\ UNCHANGED <<durable, ground, worker, spent>>

ApiMark(h) ==
    LET j == api[h].job IN
    /\ api[h].pc = "mark"
    /\ MarkJobQueued(j, IF api[h].held = None THEN job[j].state ELSE api[h].held)
    /\ api' = [api EXCEPT ![h] = HandlerIdle]
    /\ UNCHANGED <<queueVars, result, ground, worker, spent>>

\* RedisError or SQLAlchemyError ends the handler with 503, before or after
\* the call took effect.
ApiFault(h) ==
    /\ Spend("faults")
    /\ \/ api[h].pc = "enqueue" /\ Enqueue(Ref(api[h].job))
       \/ api[h].pc \in {"read", "enqueue", "mark"} /\ UNCHANGED queueVars
    /\ api' = [api EXCEPT ![h] = HandlerIdle]
    /\ UNCHANGED <<durable, ground, worker>>

GroundStop ==
    /\ ground.pc # "down"
    /\ Spend("groundStops")
    /\ ground' = [GroundUp EXCEPT !.pc = "down"]
    /\ api' = [h \in Handlers |-> HandlerIdle]
    /\ UNCHANGED <<queueVars, durable, worker>>

\* recoverable_queue_jobs
Recoverable ==
    {j \in JobIds :
        /\ job[j] # None
        /\ \/ job[j].state \in {"PENDING_QUEUE", "QUEUED"}
           \/ job[j].state = "RETRY_WAIT" /\ job[j].due}

\* _recover_pending_jobs: list the jobs once, then for each one read the row
\* (and hold it), enqueue it and mark it.
GroundStart ==
    /\ ground.pc = "down"
    /\ ground' = [pc |-> "next", todo |-> Recoverable, job |-> None, held |-> None]
    /\ UNCHANGED <<queueVars, durable, api, worker, spent>>

RecoverNext ==
    /\ ground.pc = "next"
    /\ \/ ground.todo = {} /\ ground' = GroundUp
       \/ \E j \in ground.todo :
            ground' = [pc |-> "enqueue", todo |-> ground.todo \ {j},
                       job |-> j, held |-> job[j].state]
    /\ UNCHANGED <<queueVars, durable, api, worker, spent>>

RecoverEnqueue ==
    /\ ground.pc = "enqueue"
    /\ Enqueue(Ref(ground.job))
    /\ ground' = [ground EXCEPT !.pc = "mark"]
    /\ UNCHANGED <<durable, api, worker, spent>>

\* A state mark_job_queued refuses ends the startup, and with it the process.
RecoverMark ==
    /\ ground.pc = "mark"
    /\ MarkJobQueued(ground.job, ground.held)
    /\ ground' = IF Queueable(ground.held) \/ ground.held = "QUEUED"
                 THEN [GroundUp EXCEPT !.pc = "next", !.todo = ground.todo]
                 ELSE [GroundUp EXCEPT !.pc = "down"]
    /\ UNCHANGED <<queueVars, result, api, worker, spent>>
-----------------------------------------------------------------------------
(* payload-worker.                                                         *)

At(w, pc) == worker[w].pc = pc

GoTo(w, pc) == worker' = [worker EXCEPT ![w].pc = pc]

BackToLoop(w) == worker' = [worker EXCEPT ![w] = WorkerIdle]

\* The process ends.  Its worker_id is never used again, so whatever it owns
\* has an owner that is gone.
Orphaned(w, jobs) ==
    [j \in JobIds |-> IF jobs[j] # None /\ jobs[j].owner = w
                      THEN [jobs[j] EXCEPT !.owner = Gone] ELSE jobs[j]]

Die(w) ==
    /\ worker' = [worker EXCEPT ![w] = WorkerDown]
    /\ job' = Orphaned(w, job)
    /\ UNCHANGED result

\* Mutant: failed work would be acknowledged like finished work.
QueueCallAcksFailed(w) ==
    LET m == worker[w].msg IN
    \/ worker[w].pc \in {"finish", "ack", "park", "deadLetter"} /\ Ack(m)
    \/ worker[w].pc = "quarantine" /\ DeadLetter(m)
    \/ worker[w].pc \in {"giveBack", "return", "backoff"} /\ Retry(m)

\* The queue call a worker is about to make for its message.
QueueCall(w) ==
    LET m == worker[w].msg IN
    \/ worker[w].pc \in {"finish", "ack"} /\ Ack(m)
    \/ worker[w].pc \in {"park", "deadLetter", "quarantine"} /\ DeadLetter(m)
    \/ worker[w].pc \in {"giveBack", "return", "backoff"} /\ Retry(m)

\* Mutant: a starting worker would leave the processing list alone.
WorkerStartOnly(w) ==
    /\ At(w, "down")
    /\ BackToLoop(w)
    /\ UNCHANGED <<queueVars, durable, api, ground, spent>>

\* A process starts and gives everything in the processing list back.
WorkerStart(w) ==
    /\ At(w, "down")
    /\ RecoverProcessing
    /\ BackToLoop(w)
    /\ UNCHANGED <<durable, api, ground, spent>>

\* queue.claim
WorkerClaim(w) ==
    /\ At(w, "idle")
    /\ Claim
    /\ worker' = [worker EXCEPT ![w] =
          [pc |-> IF Last(pending) \in Malformed THEN "quarantine" ELSE "claimed",
           msg |-> Last(pending)]]
    /\ UNCHANGED <<durable, api, ground, spent>>

\* A malformed entry is parked; if it is no longer there, QueueStateError ends
\* the process.
Quarantine(w) ==
    /\ At(w, "quarantine")
    /\ QueueCall(w)
    /\ IF RemovedReply(worker[w].msg) = 1
       THEN BackToLoop(w) /\ UNCHANGED durable ELSE Die(w)
    /\ UNCHANGED <<api, ground, spent>>

Held(w) == worker[w].msg.job_id

\* Mutant: a live lease would not protect a claim.
ClaimableUnderLease(row) ==
    \/ row.state \in {"QUEUED", "PROCESSING"}
    \/ row.state = "RETRY_WAIT" /\ row.due

\* claim_processing_job as a function of the job row: the row it leaves.
Claimable(row) ==
    \/ row.state = "QUEUED"
    \/ row.state = "PROCESSING" /\ row.lease = "expired"
    \/ row.state = "RETRY_WAIT" /\ row.due

ClaimedRow(w, j) ==
    IF result[j] # None
    THEN [job[j] EXCEPT !.state = "COMPLETE",
                        !.lease = IF job[j].state = "COMPLETE" THEN @ ELSE "none"]
    ELSE IF Claimable(job[j])
    THEN [state |-> "PROCESSING", attempts |-> job[j].attempts + 1, owner |-> w,
          lease |-> "live", due |-> FALSE]
    ELSE job[j]

ClaimJob(w) ==
    LET j == Held(w) IN
    /\ At(w, "claimed")
    /\ job' = [job EXCEPT ![j] = ClaimedRow(w, j)]
    /\ GoTo(w, IF result[j] = None /\ Claimable(job[j]) THEN "working" ELSE "unclaimed")
    /\ UNCHANGED <<queueVars, result, api, ground, spent>>

\* Mutant: an entry whose job another worker processes would be dropped.
ResolveByDropping(w) ==
    /\ At(w, "unclaimed")
    /\ GoTo(w, IF job[Held(w)].state = "FAILED" THEN "park" ELSE "finish")
    /\ UNCHANGED <<queueVars, durable, api, ground, spent>>

\* _return_or_finish_unclaimed, the read of the job.
ResolveUnclaimed(w) ==
    /\ At(w, "unclaimed")
    /\ GoTo(w, CASE job[Held(w)].state = "COMPLETE" -> "finish"
                 [] job[Held(w)].state = "FAILED" -> "park"
                 [] OTHER -> "giveBack")
    /\ UNCHANGED <<queueVars, durable, api, ground, spent>>

\* ... and its queue call.  QueueStateError is handled like every exception
\* without a work item: the entry is given back if it is still there.
FinishUnclaimed(w) ==
    /\ worker[w].pc \in {"finish", "park", "giveBack"}
    /\ QueueCall(w)
    /\ IF RemovedReply(worker[w].msg) = 1 THEN BackToLoop(w) ELSE GoTo(w, "return")
    /\ UNCHANGED <<durable, api, ground, spent>>

ReturnMessage(w) ==
    /\ At(w, "return")
    /\ QueueCall(w)
    /\ BackToLoop(w)
    /\ UNCHANGED <<durable, api, ground, spent>>

\* _same_processing_result: the result is a function of the preserved bytes
\* and the processor version.
SameProcessingResult(w, j) == result[j] = VersionOf[w]

OwnsClaim(w, j) == job[j].state = "PROCESSING" /\ job[j].owner = w

CanComplete(w, j) ==
    IF result[j] # None THEN SameProcessingResult(w, j) ELSE OwnsClaim(w, j)

\* Mutant: whoever comes last would store the result.
CompleteJobAnyway(w, j) ==
    /\ result' = [result EXCEPT ![j] = VersionOf[w]]
    /\ job' = [job EXCEPT ![j].state = "COMPLETE", ![j].lease = "none",
                          ![j].due = FALSE]

\* complete_processing_job, when it does not raise.
CompleteJob(w, j) ==
    /\ CanComplete(w, j)
    /\ result' = [result EXCEPT ![j] = IF @ = None THEN VersionOf[w] ELSE @]
    /\ job' = [job EXCEPT ![j].state = "COMPLETE", ![j].lease = "none",
                          ![j].due = FALSE]

\* Processing: the stored bytes are decoded and compared again (a failure is
\* permanent), then the result is stored; what complete_processing_job raises
\* is a temporary failure.
Process(w) ==
    LET j == Held(w) IN
    /\ At(w, "working")
    /\ \/ j \in Corrupt /\ GoTo(w, "failPermanent") /\ UNCHANGED durable
       \/ j \notin Corrupt /\ CompleteJob(w, j) /\ GoTo(w, "ack")
       \/ /\ j \notin Corrupt /\ ~ CanComplete(w, j)
          /\ GoTo(w, "failTemporary") /\ UNCHANGED durable
    /\ UNCHANGED <<queueVars, api, ground, spent>>

\* queue.ack after the commit; its QueueStateError is only logged.
AckCompleted(w) ==
    /\ At(w, "ack")
    /\ QueueCall(w)
    /\ BackToLoop(w)
    /\ UNCHANGED <<durable, api, ground, spent>>

\* Mutant: one attempt too many.
ExhaustedLate(j) == job[j].attempts > MaxAttempts

\* fail_processing_attempt, the row it leaves.
Exhausted(j) == job[j].attempts >= MaxAttempts

FailedRow(j, temporary) ==
    [job[j] EXCEPT !.lease = "none", !.due = FALSE,
                   !.state = IF ~ temporary \/ Exhausted(j) THEN "FAILED"
                             ELSE "RETRY_WAIT"]

\* A FAILED job is reported as such, the owner's claim is settled, and
\* everything else raises InvalidDeliveryStateError, which ends the process.
FailAttempt(w) ==
    LET j == Held(w)
        row == FailedRow(j, At(w, "failTemporary")) IN
    /\ At(w, "failTemporary") \/ At(w, "failPermanent")
    /\ \/ /\ job[j].state = "FAILED"
          /\ GoTo(w, "deadLetter") /\ UNCHANGED durable
       \/ /\ OwnsClaim(w, j)
          /\ job' = [job EXCEPT ![j] = row]
          /\ GoTo(w, IF row.state = "FAILED" THEN "deadLetter" ELSE "backoff")
          /\ UNCHANGED result
       \/ /\ job[j].state # "FAILED" /\ ~ OwnsClaim(w, j)
          /\ Die(w)
    /\ UNCHANGED <<queueVars, api, ground, spent>>

\* The queue call after a failure: dead_letter, or retry after the backoff
\* (the sleep ends when the next attempt is due).  QueueStateError ends the
\* process.
AfterFailure(w) ==
    /\ \/ At(w, "deadLetter")
       \/ At(w, "backoff") /\ (job[Held(w)].state = "RETRY_WAIT" => job[Held(w)].due)
    /\ QueueCall(w)
    /\ IF RemovedReply(worker[w].msg) = 1
       THEN BackToLoop(w) /\ UNCHANGED durable ELSE Die(w)
    /\ UNCHANGED <<api, ground, spent>>
-----------------------------------------------------------------------------
(* What goes wrong around the worker.                                      *)

WorkerStop(w) ==
    /\ worker[w].pc # "down"
    /\ Spend("workerStops")
    /\ Die(w)
    /\ UNCHANGED <<queueVars, api, ground>>

\* A PostgreSQL call fails, before or after its effect.  Without a work item
\* the worker gives the message back, with one it reports a failure, and if
\* that fails too it leaves the entry in the processing list.
DatabaseFault(w) ==
    LET j == Held(w) IN
    /\ Spend("faults")
    /\ \/ /\ At(w, "claimed")
          /\ \/ UNCHANGED job
             \/ job' = [job EXCEPT ![j] = ClaimedRow(w, j)]
          /\ GoTo(w, "return") /\ UNCHANGED result
       \/ /\ At(w, "unclaimed")
          /\ GoTo(w, "return") /\ UNCHANGED durable
       \/ /\ At(w, "working") /\ j \notin Corrupt
          /\ \/ UNCHANGED durable
             \/ CompleteJob(w, j)
          /\ GoTo(w, "failTemporary")
       \/ /\ At(w, "failTemporary") \/ At(w, "failPermanent")
          /\ \/ UNCHANGED job
             \/ /\ OwnsClaim(w, j)
                /\ job' = [job EXCEPT ![j] = FailedRow(j, At(w, "failTemporary"))]
          /\ BackToLoop(w) /\ UNCHANGED result
    /\ UNCHANGED <<queueVars, api, ground>>

\* A Redis call fails, before or after its effect: BRPOPLPUSH may have moved
\* the entry already.  A failed ack is only logged; a failure in the exception
\* handler ends the process.
RedisFault(w) ==
    /\ Spend("faults")
    /\ \/ At(w, "idle") /\ Claim /\ UNCHANGED <<durable, worker>>
       \/ /\ At(w, "quarantine") \/ At(w, "ack")
          /\ UNCHANGED queueVars \/ QueueCall(w)
          /\ BackToLoop(w) /\ UNCHANGED durable
       \/ /\ worker[w].pc \in {"finish", "park", "giveBack"}
          /\ UNCHANGED queueVars \/ QueueCall(w)
          /\ GoTo(w, "return") /\ UNCHANGED durable
       \/ /\ worker[w].pc \in {"return", "deadLetter", "backoff"}
          /\ UNCHANGED queueVars \/ QueueCall(w)
          /\ Die(w)
    /\ UNCHANGED <<api, ground>>

\* Redis comes back without its data.
RedisLoss ==
    /\ Spend("losses")
    /\ pending' = <<>> /\ processing' = <<>> /\ failed' = <<>>
    /\ marker' = [j \in JobIds |-> NoMarker]
    /\ UNCHANGED <<foreign, durable, api, ground, worker>>

\* The owner of job j is still at work on it.
OwnerBusy(j) ==
    \E w \in Workers :
        /\ job[j].owner = w
        /\ worker[w].msg = Ref(j)
        /\ worker[w].pc \in {"working", "failTemporary", "failPermanent"}

\* The lease runs out: at some time if its owner is not at work on the job any
\* more, and a bounded number of times under a slow owner.
LeaseExpires(j) ==
    /\ job[j] # None /\ job[j].state = "PROCESSING" /\ job[j].lease = "live"
    /\ IF OwnerBusy(j) THEN Spend("slow") ELSE UNCHANGED spent
    /\ job' = [job EXCEPT ![j].lease = "expired"]
    /\ UNCHANGED <<queueVars, result, api, ground, worker>>

RetryDue(j) ==
    /\ job[j] # None /\ job[j].state = "RETRY_WAIT" /\ ~ job[j].due
    /\ job' = [job EXCEPT ![j].due = TRUE]
    /\ UNCHANGED <<queueVars, result, api, ground, worker, spent>>

ForeignEntry ==
    /\ \E e \in Malformed : ForeignPush(e)
    /\ UNCHANGED <<durable, api, ground, worker, spent>>
-----------------------------------------------------------------------------
GroundStep ==
    \/ GroundStart \/ RecoverNext \/ RecoverEnqueue \/ RecoverMark
    \/ \E h \in Handlers : ApiRead(h) \/ ApiEnqueue(h) \/ ApiMark(h)

WorkerStep(w) ==
    \/ WorkerStart(w) \/ WorkerClaim(w) \/ Quarantine(w)
    \/ ClaimJob(w) \/ ResolveUnclaimed(w) \/ FinishUnclaimed(w) \/ ReturnMessage(w)
    \/ Process(w) \/ AckCompleted(w) \/ FailAttempt(w) \/ AfterFailure(w)

Environment ==
    \/ \E h \in Handlers : \/ \E j \in JobIds : Submit(h, j) \/ Resubmit(h, j)
                           \/ ApiFault(h)
    \/ \E w \in Workers : WorkerStop(w) \/ DatabaseFault(w) \/ RedisFault(w)
    \/ GroundStop
    \/ RedisLoss
    \/ ForeignEntry

TimePasses == \E j \in JobIds : LeaseExpires(j) \/ RetryDue(j)

PipelineNext ==
    \/ GroundStep
    \/ \E w \in Workers : WorkerStep(w)
    \/ TimePasses
    \/ Environment

PipelineSpec == PipelineInit /\ [][PipelineNext]_pipelineVars

\* Processes run and are restarted ("restart: unless-stopped" in
\* deployment/compose.yaml), a lease nobody works under runs out and a backoff
\* ends.  Nothing is assumed of vendors, stops, faults and slow workers.
PipelineFairness ==
    /\ WF_pipelineVars(GroundStart \/ RecoverNext \/ RecoverEnqueue \/ RecoverMark)
    /\ \A h \in Handlers : WF_pipelineVars(ApiRead(h) \/ ApiEnqueue(h) \/ ApiMark(h))
    /\ \A j \in JobIds : /\ WF_pipelineVars(LeaseExpires(j) /\ UNCHANGED spent)
                         /\ WF_pipelineVars(RetryDue(j))
    /\ \A w \in Workers : WF_pipelineVars(WorkerStep(w))

FairPipelineSpec == PipelineSpec /\ PipelineFairness
-----------------------------------------------------------------------------
(* Properties.                                                             *)

PipelineTypeOK ==
    /\ QueueTypeOK
    /\ \A j \in JobIds :
         /\ job[j] = None \/ job[j] \in Jobs
         /\ result[j] \in {VersionOf[w] : w \in Workers} \cup {None}
    /\ api \in [Handlers -> [pc : {"idle", "read", "enqueue", "mark"},
                            job : JobIds \cup {None},
                            held : ProcessingJobState \cup {None}]]
    /\ ground \in [pc : {"up", "down", "next", "enqueue", "mark"},
                   todo : SUBSET JobIds, job : JobIds \cup {None},
                   held : ProcessingJobState \cup {None}]
    /\ worker \in [Workers ->
          [pc : {"down", "idle", "quarantine", "claimed", "unclaimed", "finish",
                 "park", "giveBack", "return", "working", "ack", "failTemporary",
                 "failPermanent", "deadLetter", "backoff"},
           msg : Entry \cup {None}]]
    /\ \A b \in DOMAIN Budgets : spent[b] \in 0..Budgets[b]

\* "No retry creates a second logical payload result": a stored result is never
\* replaced or removed, not by a second worker, another processor version, an
\* expired lease, a repeated delivery or a lost reply.
ResultWrittenOnce ==
    [][\A j \in JobIds : result[j] # None => result'[j] = result[j]]_pipelineVars

\* The queue forgets a job only after its result is committed ("Database
\* completion is committed before the queue reference disappears"), whoever
\* acknowledges it, unless Redis itself loses its data.
ForgottenOnlyWhenDone ==
    [][\A j \in JobIds :
         (/\ marker[j] # NoMarker /\ marker'[j] = NoMarker
          /\ spent'["losses"] = spent["losses"]) => result[j] # None]_pipelineVars

\* Every job has at most one queue entry, always; and a job that ground-api
\* reported as queued and that has no result yet has exactly one, through every
\* stop, fault and lost reply, as long as Redis keeps its data.
QueuedWorkIsReferenced ==
    /\ OneReference
    /\ \A j \in JobIds :
         (/\ spent["losses"] = 0
          /\ job[j] # None
          /\ job[j].state \in {"QUEUED", "PROCESSING", "RETRY_WAIT", "FAILED"}
          /\ result[j] = None) => marker[j] = Ref(j)

\* A COMPLETE job has its result, corrupt evidence never gets one, a job is
\* FAILED only for corrupt evidence or after its last attempt, and nothing
\* waits for an attempt beyond the last.  Attempts beyond the maximum are at
\* most as many as there were failed calls, stopped and slow workers
\* (claim_processing_job does not compare the maximum on a reclaim) and
\* retransmissions (a replay marks the job by the row it read and may take it
\* back to QUEUED from a worker that has claimed it since).
OutcomeJustified ==
    \A j \in JobIds :
        job[j] # None =>
            /\ job[j].state = "COMPLETE" => result[j] # None
            /\ result[j] # None => j \notin Corrupt
            /\ job[j].state = "FAILED" => j \in Corrupt \/ job[j].attempts >= MaxAttempts
            /\ job[j].state = "RETRY_WAIT" => job[j].attempts < MaxAttempts
            /\ job[j].attempts <= MaxAttempts
                  + spent["faults"] + spent["workerStops"] + spent["slow"]
                  + spent["resubmits"]

Resolved(j) == result[j] # None \/ Contains(failed, Ref(j))

\* Every accepted job ends with a stored result or parked for an operator,
\* through stops of ground-api and the worker at any point and slow workers,
\* as long as database and Redis calls themselves do not fail.
EveryJobResolved == \A j \in JobIds : job[j] # None ~> Resolved(j)
=============================================================================
