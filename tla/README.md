# Verification of the cislunar ground platform

TLA+ models of the platform's two paths. In the Phase 2 telemetry path the payload
simulator makes and forwards a frame; `ground-api` preserves and judges it in
PostgreSQL and references it from a Redis queue; `payload-worker` decodes and
assesses it. In the legacy path `mission-api`, `command-dispatcher` and the
spacecraft handle commands, and `telemetry-ingest`, `telemetry-processor` and
`ai-advisor` handle acknowledgements, health samples and alerts, over NATS
JetStream and UDP.

## The system

| Part | State it keeps | Operations | Talks to |
|---|---|---|---|
| work queue (`telemetry/queue.py`) | three Redis lists, one marker per job | enqueue, claim, ack, retry, dead_letter, recover_processing | called by ground-api and worker |
| delivery ledger (`telemetry/storage.py`) | receipts, request identities, packets, sequence states | record, reject, accept | called by the POST handler |
| processing jobs (`telemetry/storage.py`) | job rows with state, attempts, owner, lease; result rows | mark queued, claim, complete, fail, list recoverable | called by ground-api and worker |
| sequence rules (`telemetry/sequence.py`, inline in `storage.py`) | high-water mark and counters per boot session | decide | part of accept |
| `services/ground_api.py` | handlers in flight | POST handler, startup recovery, reads | vendor, PostgreSQL, Redis |
| `services/payload_worker.py` | the message and work item in hand | worker loop | PostgreSQL, Redis |
| `services/vendor_simulator.py` | boot identifier file, next sequence, last frame, submissions in flight | make frame, roll session, forward with three tries | ground-api over HTTP |
| codec and health (`telemetry/codec.py`, `health.py`) | none | encode, decode by ordered rules, assess | simulator, ground-api, worker |
| `services/mission_api.py` | commands and audit tables | create_command; reads and `/stream` | PostgreSQL, NATS |
| `services/command_dispatcher.py` | the message in hand | dispatch | NATS, spacecraft over UDP |
| `services/spacecraft_sim.py` | mode, wheel speed, fault flags, results by command, sequence numbers | apply, telemetry_loop | UDP both ways |
| `services/telemetry_ingest.py`, `common/sequence.py` | last number seen, gap counter | _process, observe | UDP, NATS |
| `services/telemetry_processor.py`, `common/limits.py` | health, alert, command and audit rows | process_health, process_ack, process_status | NATS, PostgreSQL |
| `services/ai_advisor.py` | none | advise | NATS, model endpoint |
| metrics, logging, configuration, connection set-up | none that matters here | observability, start-up | |

What is hard here: handlers of several deliveries run at the same time on
sessions of their own; PostgreSQL cannot lock rows that do not exist yet; Redis
and PostgreSQL are updated one after the other; every call may fail before or
after its effect; both services may stop between any two steps; leases and
backoffs run out while somebody works; and a SQLAlchemy session shows a row as
it read it, not as it is. In the legacy path datagrams are lost and doubled,
messages are redelivered, subscriptions run independently of each other, and every
statement commits by itself. `PROJECT.json` lists the hazards at their lines.

What makes it correct: a success answer is true; one receipt per request, one
packet per key, one result per packet; verdicts agree with the preserved bytes;
the session row summarises the packets exactly; a queued job is never forgotten;
it is eventually finished or parked; a packet key never names two frames; what is
accepted is what was measured; only authorised, audited commands fly, and act
once; samples and alerts survive the failure of any service.

## Modules

| Module | Models | State and actions |
|---|---|---|
| `WorkTray` | what the queue promises | a slot per job: outside, pending, processing, failed |
| `TelemetryQueue` | `queue.py` | the lists as sequences (head = left end), one action per Lua script |
| `TelemetryQueueProofs` | | theorems about `TelemetryQueue` |
| `SequenceRules` | the sequence decision in both implementations | operators only |
| `SequenceTracking` | the sequence state row under one-at-a-time acceptance | `AcceptFrame` |
| `SequenceTrackingProofs` | | theorems about `SequenceTracking` |
| `DeliveryLedger` | the POST handler and its transactions | one handler per delivery with a program counter; tables keyed by receipt, request ID, sequence number |
| `DeliveryLedgerProofs` | | theorems about `DeliveryLedger` |
| `TelemetryPipeline` | queueing, startup recovery, workers, faults | extends `TelemetryQueue`; job rows, result rows, handlers in flight (any number for one job), workers |
| `TelemetryPipelineProofs` | | theorems about `TelemetryPipeline` |
| `KeyIssuer` | what the payload source promises | the newest packet key handed out |
| `PayloadSource` | `vendor_simulator.py` | boot file, session, one submission per client; start, stop, make, forward |
| `PayloadSourceProofs` | | theorems about `PayloadSource` |
| `FrameCodec` | `codec.py`, `health.py`, `_scaled`, `_apply_wire_failure` | operators only |
| `FrameJourney` | one frame from measurement to stored result | simulate, distort, record, resume, judge, process |
| `FrameJourneyProofs` | | theorems about `FrameJourney` and `FrameCodec` |
| `CommandPath` | a command from the POST to its status row | create_command, dispatch, apply, ingest, process_ack, process_status as actions; queues and links as state |
| `CommandPathProofs` | | theorems about `CommandPath` |
| `HealthStream` | a health sample from the spacecraft to alert and advisory | telemetry_loop, ingest, process_health statement by statement, advise |
| `HealthStreamProofs` | | theorems about `HealthStream` |
| `MC...` | | instances for TLC |

**Atomicity.** A Lua script is one action. A repository transaction is one action
where a row lock decides it. `record_delivery` and `_accept_packet_transaction`
read rows that may not exist, and nothing locks those, so each is split at these
reads (`RecordLookup`/`RecordInsert`, `AcceptLookup`/`AcceptSequence`/`AcceptFirst`);
the receipt row stays locked in between (`lock`), and the unique keys decide at
the insert, with the one retry the code makes.

**Held rows.** The sessions use `expire_on_commit=False`, and `Session.get(...,
with_for_update=True)` of SQLAlchemy 2.0 locks a row but does not refresh an object
that the session still holds (only `populate_existing` would). Three places hold
one: a replay holds its receipt (`ground_api.py:315`), a resumed delivery holds
its job (`:383`), startup recovery holds the job it handles (`:179`). The models
keep what was read (`held`, `heldJob`) and decide by it; objects nobody refers to
any more are re-read; a rollback expires everything. An UPDATE writes only the
attributes that changed in the session. Nothing keeps a retransmission from running
beside the first request, so `TelemetryPipeline` has a set of handlers: `Resubmit`
starts one for a job not yet queued, `ApiRead` takes the row it will decide by, and
others may move the job on before its `ApiEnqueue` and `ApiMark`.

**Time.** A lease is none, live or expired; a retry is due or not. `LeaseExpires`
and `RetryDue` are the passing of time. A worker sleeping out a backoff wakes when
the attempt is due.

**Identity.** A restarted worker has a new `worker_id`; the rows of the old process
belong to `Gone`.

**Abstractions.** A body is a model value; `SeqOf` says what it decodes to. A result
is the version that computed it, since processing is a function of the stored
bytes. Metrics, audit rows and logs are left out. One payload boot session. The
job list at startup is taken in any order. Failed authentication and oversized
bodies leave only an audit row and are left out.

In `PayloadSource` a frame is its key, its body and what was done to its bytes; all
that was sent stays in `sent`, so the properties hold of whatever part of it is
lost, doubled or late. In `FrameCodec` the wire fields keep their order, signs and
the widths of temperature, voltage, mode and flags; boot identifier and sequence
number have `CounterBytes`, the time `TimeBytes`, so that values stay within TLC's
integers, and CRC-32 is a check byte that every change of one byte alters (which is
what CRC-32 guarantees of a burst that short). Measurements are in tenths of a wire
unit, so that rounding shows. In the legacy path a JetStream subject with its
consumer is a sequence whose head is delivered next; a message that is not
acknowledged comes again at the end. A datagram the packet decoder rejects is a lost
datagram; framing is otherwise transparent. The spacecraft applies a command and
answers it in one callback without an await; a kill in the middle of it is not
modelled. Repeated rows that say the same are kept once. The bodies of advisories
are left out.

**Mutants.** Operators whose comment starts with "Mutant" are faulty variants of
the definition after them; with one in its place the property named in
`PROJECT.json` fails. No specification uses them.

## Runs

| Run | Instance | Shows |
|---|---|---|
| `queue` | 2 jobs x 2 packets, 2 malformed pushes | one reference per job, order of the line, order of recovery, refinement of `WorkTray` |
| `sequence` | numbers modulo 16, a session of 8 frames | exact high-water mark and counters in any order of arrival; both rule sets agree on every number |
| `ledger` | 3 deliveries, 3 request IDs, 4 bodies (two with one sequence number, one invalid), both content types | success is durable, one receipt per request, verdicts match bytes, session row exact, packet rows permanent |
| `pipeline` | 1 job, 2 handlers, 2 workers of different versions, 2 attempts, 1 stop of each service, 2 failed calls, 1 retransmission that may run beside the first request, 1 loss of the Redis data | results written once, forgotten only when done, queued work referenced (until the loss), outcomes justified |
| `pipeline_mixed` | 2 jobs (one corrupt), a malformed entry, 2 handlers, 2 workers, 1 attempt, 1 retransmission, 1 slow attempt | queued work referenced and outcomes justified where jobs share the queue |
| `pipeline_progress` | 2 jobs (one corrupt), 2 handlers, 1 worker, 1 retransmission, 1 stop of ground-api, 2 of the worker, 1 slow attempt | every accepted job is finished or parked |
| `source` | 3 boot identifiers of 2 numbers, 2 clients, 4 submissions, 2 stops, 1 failed write | no key names two frames, retries repeat exact bytes, only good frames are remembered for `DUPLICATE_LAST` (part of `SourceTypeOK`), keys increase (refinement of `KeyIssuer`) |
| `frames` | measurements at every limit of codec and health tables, foreign frames wrong in several fields, one changed, dropped or added byte, 2 receipt times | accepted is what was measured, whatever a request may ask for is accepted, the first broken rule is named, deliberate faults break one rule only, health follows the tables, the worker refuses only what a resumed delivery let through |
| `commands` | 2 commands, requests at and beyond each argument limit, dry runs, missing tokens, 1 failed call or stopped service, 1 datagram or spacecraft fault | only authorised, validated and audited commands fly, once per run; ACKED and REJECTED are true; accepted commands are applied and recorded unless a datagram is lost |
| `health` | 3 samples modulo 2, an anomaly every second tick, 1 command, 1 failure anywhere | gap count exact, no published sample lost or half handled, alerts backed by rows, anomalies alerted although datagrams are lost, progress without the advisor |

Three deliveries are the fewest with which a handler can lose both tries of an
acceptance; two bodies with one number the fewest for a conflict. Two workers and
one job reach every shared-job race; a third would repeat the second. Two handlers
are the fewest with which a replay runs beside the first request; they are
interchangeable, so the two safety runs use symmetry (the liveness run does not).
Two failed calls reach a failure whose report fails too. `pipeline` has no slow
attempt, to stay small; a second worker gets at a job whose first one is still at
work through the replay there, and through a lease that runs out in
`pipeline_mixed`. Two numbers per session make every second frame roll over and let
`SKIP_SEQUENCE` step over the end; three identifiers and two stops exhaust the
space. A modulus of 2 wraps within three samples. Two commands are needed for a
message to be overtaken in a queue; with one fault of each kind every single failure
at every point is reached, and the legacy handlers keep nothing from one failure to
the next but what the queues hold. CHECK_DEADLOCK is off where the system may come
to rest: all deliveries answered, all frames accepted, all jobs finished and no
faults left.

`QueueTypeOK` and `SourceTypeOK` are run and proved. `TrackingTypeOK`,
`PipelineTypeOK`, `LedgerTypeOK` and `CommandTypeOK` are proved and not run;
`JourneyTypeOK` and `HealthTypeOK` state the types of the other variables and hold
on the instances above (adding the name to the cfg checks it).
`NoFalseStateConflict` is proved and no longer run.

Two runs expect a violation. Each states what a document says, and TLC shows the
code doing otherwise (`PROJECT.json`, findings):

- `ledger_duplicate_refused`: concurrent exact duplicates; one is answered 409
  SEQUENCE_CONFLICT because the frame was committed between two lookups.
- `commands_settle`: a DISPATCHED event handled after the acknowledgement sets the
  command back for good; the two subscriptions are independent and
  `process_status` does not look at the row.

### Other differences between text and code

The models contain these behaviours too. The properties that hold are stated so as
to say exactly how far the promise goes.

- `mark_job_queued` raises when the worker has already moved the job on
  (`storage.py:1096`); the retransmission gets a 500. Its docstring (`:1082`):
  "repeated calls with the same marker are safe".
- A replay that holds a receipt since before its verdict (`ground_api.py:315`,
  `storage.py:817`) overwrites a settled verdict: an ACCEPTED receipt becomes a
  DUPLICATE of itself. The guard at `:857` means to prevent it.
  `VerdictsMatchEvidence` still holds.
- An attempt whose failure cannot be recorded keeps its entry
  (`payload_worker.py:247`) until some worker starts.
  `docs/PHASE_2_TELEMETRY_PATH.md:386`: "the same saved job retries".
- After a loss of the Redis data PROCESSING rows are not listed for recovery
  (`storage.py:1167`), although the docstring at `:1155` says "work PostgreSQL can
  use to reconstruct a lost Redis queue".
- Reclaiming an expired lease does not compare the maximum of attempts
  (`storage.py:1213`).
- A replay that read the job as PENDING_QUEUE (`ground_api.py:383`) marks it queued by
  that object (`storage.py:1085`-`1104`). If the first handler has marked the job and a
  worker has claimed it meanwhile, PROCESSING is set back to QUEUED; completing and
  failing the attempt both raise (`storage.py:1302`, `:1371`), the worker process ends
  and the job is claimed again: an attempt is spent although nothing failed. With the
  item before, attempts can pass the maximum; `OutcomeJustified` bounds the excess by
  the number of failed calls, stopped and slow workers and retransmissions.
- A resumed delivery is judged by the time of the retransmission
  (`ground_api.py:282`, `:406`), while receipt (`storage.py:671`) and worker
  (`payload_worker.py:154`) use the first time: a sample may be answered 202 and
  fail for good at its first attempt. `docs/INTERFACE_CONTROL_DOCUMENT.md:276` allows five minutes
  "after ground receipt". `WorkerRefusesOnlyResumed` says that this is the only way.
- A restarted spacecraft has forgotten `command_results` (`spacecraft_sim.py:40`)
  and applies a redelivered command again. `docs/architecture.md:17`: "applies a
  command once per command ID". `AppliedOncePerRun` is about one run.
- `SequenceTracker.observe` counts a late or doubled packet as nearly the whole
  number space missing. `GapsAreExact` is about arrivals in order
  with fewer than a number space lost at once.
- A command whose publish failed after its row was written keeps status QUEUED, which
  `docs/operations-runbook.md:34` describes as "stored and published".
  `StatusIsTruthful` is about ACKED and REJECTED.
- `SKIP_SEQUENCE` at the last number starts a new session, so no gap is recorded
  (`vendor_simulator.py:98`; `docs/PHASE_2_TELEMETRY_PATH.md:312` says one is).

**Fairness** (`PipelineFairness`). Weak fairness of the steps of ground-api and of
each worker, their restarts included (`restart: unless-stopped` in
`deployment/compose.yaml`), of the expiry of leases nobody works under and of
backoffs. None of arrivals, stops, faults, slow workers. `pipeline_progress` has
one worker, as `deployment/compose.yaml` has: with two, a worker may return by
value the entry the other one holds, and they can do so to each other forever.
`CommandFairness`: services and spacecraft go on with what they have and datagrams
that are not lost arrive; a step that may fail is taken without failing in the end
because faults are bounded. `FairHealth` assumes only that the processor goes on:
nothing of the spacecraft, the ingest or the advisor, since `docs/architecture.md:25`
promises that telemetry continues without it. Operators, clients and faults are never
assumed to act.

## Proofs

Every theorem holds for every value of the constants that satisfies the named
assumptions; TLC evaluates those on its instances.

**`TelemetryQueueProofs`** (from `QueueAssumption`). `QueueTypeCorrect`,
`QueueKeepsOneReference`, `QueueImplementsTray`, and the action properties
`LineIsFirstInFirstOut` and `RecoveryKeepsClaimOrder`. The inductive invariant is
`QueueTypeOK /\ OneReference`, where `OneReference` says that a job with a marker is
in exactly one list, once, and one without a marker in none. Both halves are needed
together: `ACK_SCRIPT` deletes the marker when `LREM` removed one entry, which is
only right if there was just one. Lemmas about sequences say which members a push,
a pop from the right and `LREM` leave; one *Effect* lemma per script translates
them to members of the lists; type, invariant and refinement steps use only these.
The refinement maps a job to the list that holds it: the initial state maps to the
empty tray, and each script moves one slot or leaves the tray alone
(`recover_processing` moves all of processing). For the order of the line,
`PendingStep` reduces every step to four list commands, and one lemma per command
says what it does to two entries one of which is ahead of the other. `OneReference`
is needed here too: a second copy of the entry that leaves would stay behind.

**`SequenceTrackingProofs`** (from `ModulusAssumption`, `FramesAssumption`: an even
number space, a session shorter than half of it). `TrackingTypeCorrect`,
`HighWaterExact`, `NoConflictWhenSerial`, `CountersExact`, `ImplementationsAgree`.
`TrackingInv`, type and `HighWaterIsNewest`, is inductive; `DispositionInSession`
removes the modulus (older frames are LATE, newer ones IN_ORDER or GAP) and
`AcceptEffect` describes one acceptance by the three cases first, older, newer. The
counters then follow by cardinalities: a first frame opens the positions before it,
a late one closes one, a newer one opens those it skips. `ImplementationsAgree`
compares the two sets of rules case by case of the distance.

**`TelemetryPipelineProofs`** (from `PipelineAssumption` and `RowAssumption`, for any
number of jobs, handlers, workers, attempts and any budget of retransmissions, stops,
faults and losses).
`ResultIsFinal`, `PipelineTypes`, `OutcomesAreJustified`, `QueuedWorkStaysReferenced`,
`OnlyFinishedIsForgotten`. `ResultIsFinal` needs little: every action leaves the
result table alone or is `CompleteJob`, which fills an empty place at most. The
others rest on the inductive invariant `PipelineInv`:

- `Tables` and `References`: shapes, and the queue's own invariant;
- `HandlerOK`: a handler works for a committed job, and once it has made its Redis
  call the reference is there or the result is stored; of what it holds of the row
  nothing is known, since other handlers and the workers move the job on;
- `RecoveryOK`: during startup no handler runs, so what recovery holds is stale in one
  way only: a job held as PENDING_QUEUE still is one, one held as RETRY_WAIT may have
  been claimed since;
- `WorkerOK`: a worker acknowledges finished work only, and a temporary failure of a
  claim it still owns comes from a mishap;
- `JobOK`: a row agrees with result, queue and counters.

The bound on attempts is the hard part, since `claim_processing_job` does not
compare the maximum on a reclaim. The invariant counts ahead: the attempts of a job
and the claims still open to it (`Foreseen`: a queued row, a lease nobody works
under, and `Returns`, the recovery and every replay that holds or may still read a
row not yet queued and so can set the job back) never exceed `MaxAttempts` and the
mishaps so far, retransmissions among them. So every claim beyond the maximum is
paid for by a mishap that has already happened. `Returns` counts handlers; how a
step changes it follows from `FiniteSetTheorems`, one handler at a time. The queue's
*Effect* lemmas are used for every step that touches Redis.

**`DeliveryLedgerProofs`** (from `LedgerAssumption`, `LedgerRowAssumption` and
`ModulusAssumption`, for any number of deliveries, request identifiers, bodies).
`LedgerTypes`, `SuccessTellsTheTruth`, `OneReceiptPerIdentity`,
`VerdictsAreJustified`, `PacketsStay` and `SummaryIsExact`. The invariant
`LedgerInv` describes each table row by itself (`PacketOK`, `IdentityOK`,
`ReceiptOK`), what a delivery has left in them (`RequestOK`), and what its handler
knows at its program counter (`HandlerOK`): an object read before an unlock may be
older than its row, but a verdict it names was justified when it was read, and
packets and evidence are permanent, so it still is. The row locks are not needed for
any of it; the unique keys are: a lookup that found nothing is made good by the
insert that fails. `PacketsStay` is an action property from the same invariant.
`SummaryIsExact` is proved under `WithinHalfRange` (a session's numbers span less
than half of the number space, the same as `FramesAssumption`; beyond it old and new
cannot be told apart) and reuses the argument by cardinalities of
`SequenceTrackingProofs` for an insertion whose sequence state was read in the same
transaction.

**`PayloadSourceProofs`** (from `SourceAssumption`, for any number of clients, sizes
of the two spaces and bounds on stops and faults). `SourceTypeCorrect`,
`KeysAreUnique`, `RetriesExact`, `SourceImplementsIssuer`. The inductive invariant
`SourceInv` is the type with four parts. `FileCoversKeys` is the heart: the file is
never behind an identifier that was used, and memory is ahead of the file only after
a failed write, when it has no number left to hand out; so neither a restart nor the
next request reuses a key. `MadeInOrder` says that no made frame is after the newest
key and no two share one, `FramesTraced` that all that is in flight, remembered or
sent was made, and `RetriesAreExact` that tries of one request are equal. Each
action is one of a few effects (a quiet step, a stop, a new key), and the key step
is the abstract `Issue`, all others a stutter.

**`CommandPathProofs`** (from `CommandAssumption`, for any requests, number of commands
and faults). `CommandTypes`, `OnlyAuthorisedIsSent`, `AppliedAtMostOnce`,
`StatusNeverLies`. The invariant `CommandInv` has two halves. `Clearance`: a command
is cleared once its row is live, permitted and valid and its creation is audited;
clearance is never taken back, and all that the ground holds or has sent is cleared.
`Answers`: what the vehicle has answered is earned by an application. The second
half rests on the first and on `AllowlistsAgree`: the tests of the API and of the
spacecraft accept the same requests.

**`HealthStreamProofs`** (from `HealthAssumption`, for any number space, samples,
commands and faults). `CounterIsExact`, `NoPublishedSampleIsLost`,
`EveryAlertIsBacked`, `EveryHazardIsAlerted`. `HealthInv` has a part per process.
`CraftOK` relates any two samples that were sent, and the spacecraft to each: flags
are latched within an era, and numbers follow each other within a run, with the
modulus written as one wraparound (`Wrapped`); from it `WrappedDistance` gives what
`observe` counts. `ProcessorOK` says how many of a sample's alerts are stored at each
stage of `process_health`, so that a sample let go of is complete or waits again.
`EvaluateFinds` shows that `evaluate_health` never misses a flag or a wheel, whatever
the other limits find.

**`FrameJourneyProofs`** (from `CodecAssumption`: counters of 1 to 4 bytes, a time of
1 to 8; and `JourneyAssumption`: requests within the ranges of `TelemetryRequest`,
foreign frames and clocks that fit their fields). `AcceptedFramesAreGenuine`,
`FirstBrokenRuleDecides`, `SamplesOfTheSimulatorPass`, `SpoiltFramesAreIsolated`,
`StoredHealthIsRight`, `WorkerFailsOnlyOnResumed`. The inductive invariant
`JourneyInv` is small: at every stage after the first, the bytes made are those of the
encoded frame, spoilt or not, the bytes that arrived are the same or were changed in
one place, and verdict and result are what `decode_telemetry` and `assess_health`
return for them. The weight is in what the operators compute:

- `UpTo` is induction for a set of numbers: a smallest number outside it contradicts
  the step (`NatLessThanWellFounded`). As no operator is a parameter, the provers can
  use it, and `StepsExist` builds with it the functions that step equations
  describe. `ShiftedSteps`, `UnpackSteps` and `CrcSteps` give the recursive functions
  of the codec their equations;
- `UnpackPack`: unpacking undoes packing for every width and every value that fits;
  `BodyRoundTrip` puts the fields together, two's complement included;
- `CrcDetects`: equal check bytes of two sequences that differ in one place are
  impossible, so a changed byte breaks the seal of a frame (`DamageBreaksSeal`); a
  dropped or added one is found by the length;
- `RulesAsTested` and `DecodeNamesFirst`: the chain of early returns returns the name of
  the smallest broken rule, whatever the bytes;
- `HealthTables`: the combined classification is the one of the tables.

Only model-checked:

- liveness (`EveryJobResolved`, `AcceptedIsApplied`, `AppliedIsRecorded`,
  `ProcessedWithoutAdvisor`): the prover has neither fairness nor ENABLED;
- `HealthTypeOK` and `JourneyTypeOK`.

## Not modelled, and the plan

Worth adding: a composition of `PayloadSource` with `DeliveryLedger`, since
`KeysNameOneFrame` and `RetriesAreExact` are what the ledger needs of an honest
vendor.

Left out for good, because they keep no state the properties speak of: metrics,
logging, audit rows of the Phase 2 path, configuration parsing, read endpoints and
readiness, connection set-up and its retries, and the WebSocket `/stream` of
`mission_api.py`, which copies events to clients and drops what a slow client does
not take. Losing the boot identifier file with its host (the write is not followed by
`fsync`) and command identifiers beyond 32 bits are outside the code's own
handling and not modelled either.
