----------------------- MODULE TelemetryPipelineProofs -----------------------
(***************************************************************************)
(* The pipeline from the accepted packet to its result, for any number of  *)
(* jobs, handlers, workers and processor versions and any number of        *)
(* retransmissions, stops, faults, slow workers and losses of Redis data.  *)
(*                                                                         *)
(* A stored result is final: of all actions only CompleteJob touches the   *)
(* result table.  Everything else rests on one inductive invariant,        *)
(* PipelineInv, about what each process may assume of the tables and the   *)
(* queue while the others move.                                            *)
(***************************************************************************)
EXTENDS TelemetryPipeline, TelemetryQueueProofs, FiniteSetTheorems

Versions == {VersionOf[w] : w \in Workers} \cup {None}

\* The result table has a row, or none, for every job and nothing else.
ResultTable == result \in [JobIds -> Versions]

\* Whatever moves, the result table is left alone or complete_processing_job
\* wrote it.
LEMMA OnlyCompleteJobWrites ==
    ASSUME PipelineNext
    PROVE  UNCHANGED result \/ \E w \in Workers : \E j : CompleteJob(w, j)
<1>1. CASE GroundStep
  BY <1>1 DEF GroundStep, GroundStart, RecoverNext, RecoverEnqueue, RecoverMark,
              ApiRead, ApiEnqueue, ApiMark, durable
<1>2. ASSUME NEW w \in Workers, WorkerStep(w)
      PROVE  UNCHANGED result \/ \E j : CompleteJob(w, j)
  <2>1. CASE WorkerStart(w) \/ WorkerClaim(w)
    BY <2>1 DEF WorkerStart, WorkerClaim, durable
  <2>2. CASE Quarantine(w)
    BY <2>2 DEF Quarantine, Die, durable
  <2>3. CASE ClaimJob(w) \/ ResolveUnclaimed(w)
    BY <2>3 DEF ClaimJob, ResolveUnclaimed, durable
  <2>4. CASE FinishUnclaimed(w) \/ ReturnMessage(w) \/ AckCompleted(w)
    BY <2>4 DEF FinishUnclaimed, ReturnMessage, AckCompleted, durable
  <2>5. CASE Process(w)
    BY <2>5 DEF Process, durable
  <2>6. CASE FailAttempt(w)
    BY <2>6 DEF FailAttempt, Die, durable
  <2>7. CASE AfterFailure(w)
    BY <2>7 DEF AfterFailure, Die, durable
  <2> QED BY <1>2, <2>1, <2>2, <2>3, <2>4, <2>5, <2>6, <2>7 DEF WorkerStep
<1>3. CASE TimePasses
  BY <1>3 DEF TimePasses, LeaseExpires, RetryDue
<1>4. CASE Environment
  <2>1. ASSUME NEW h \in Handlers, NEW j, Submit(h, j) \/ Resubmit(h, j) \/ ApiFault(h)
        PROVE  UNCHANGED result
    BY <2>1 DEF Submit, Resubmit, ApiFault, durable
  <2>2. ASSUME NEW w \in Workers, DatabaseFault(w)
        PROVE  UNCHANGED result \/ \E j : CompleteJob(w, j)
    BY <2>2 DEF DatabaseFault, durable
  <2>3. ASSUME NEW w \in Workers, WorkerStop(w) \/ RedisFault(w)
        PROVE  UNCHANGED result
    BY <2>3 DEF WorkerStop, RedisFault, Die, durable
  <2>4. CASE GroundStop \/ RedisLoss \/ ForeignEntry
    BY <2>4 DEF GroundStop, RedisLoss, ForeignEntry, durable
  <2> QED BY <1>4, <2>1, <2>2, <2>3, <2>4 DEF Environment
<1> QED BY <1>1, <1>2, <1>3, <1>4 DEF PipelineNext

\* complete_processing_job fills an empty place of the table at most.
LEMMA CompleteJobFillsEmptyPlace ==
    ASSUME ResultTable, NEW w \in Workers, NEW j, CompleteJob(w, j)
    PROVE  /\ ResultTable'
           /\ \A k \in JobIds : result[k] # None => result'[k] = result[k]
<1>1. result' = [result EXCEPT ![j] = IF result[j] = None THEN VersionOf[w]
                                      ELSE result[j]]
  BY DEF CompleteJob
<1>2. VersionOf[w] \in Versions
  BY DEF Versions
<1> QED BY <1>1, <1>2 DEF ResultTable

\* The result table keeps its shape.
LEMMA ResultTableInvariant == PipelineSpec => []ResultTable
<1>1. PipelineInit => ResultTable
  BY DEF PipelineInit, ResultTable, Versions
<1>2. ResultTable /\ [PipelineNext]_pipelineVars => ResultTable'
  <2>1. ASSUME ResultTable, UNCHANGED result PROVE ResultTable'
    BY <2>1 DEF ResultTable
  <2> QED BY <2>1, OnlyCompleteJobWrites, CompleteJobFillsEmptyPlace
          DEF pipelineVars
<1> QED BY <1>1, <1>2, PTL DEF PipelineSpec

\* "No retry creates a second logical payload result": in every behaviour a
\* stored result is never replaced or removed, whatever stops, fails, expires
\* or is delivered again, and whichever versions the workers run.
THEOREM ResultIsFinal == PipelineSpec => ResultWrittenOnce
<1> DEFINE Kept == \A j \in JobIds : result[j] # None => result'[j] = result[j]
<1>1. ResultTable /\ [PipelineNext]_pipelineVars => [Kept]_pipelineVars
  BY OnlyCompleteJobWrites, CompleteJobFillsEmptyPlace
<1> HIDE DEF Kept
<1>2. PipelineSpec => [][Kept]_pipelineVars
  BY <1>1, ResultTableInvariant, PTL DEF PipelineSpec
<1> QED BY <1>2 DEF ResultWrittenOnce, Kept
-----------------------------------------------------------------------------
(* The inductive invariant.                                                *)

Budget == DOMAIN Budgets

WorkerPcs ==
    {"down", "idle", "quarantine", "claimed", "unclaimed", "finish", "park",
     "giveBack", "return", "working", "ack", "failTemporary", "failPermanent",
     "deadLetter", "backoff"}

HandlerStates == [pc : {"idle", "read", "enqueue", "mark"},
                  job : JobIds \cup {None},
                  held : ProcessingJobState \cup {None}]

\* Every table and every local state has its shape.
Tables ==
    /\ QueueTypeOK
    /\ job \in [JobIds -> Jobs \cup {None}]
    /\ ResultTable
    /\ api \in [Handlers -> HandlerStates]
    /\ ground \in [pc : {"up", "down", "next", "enqueue", "mark"},
                   todo : SUBSET JobIds, job : JobIds \cup {None},
                   held : ProcessingJobState \cup {None}]
    /\ worker \in [Workers -> [pc : WorkerPcs, msg : Entry \cup {None}]]
    /\ spent \in [Budget -> Nat]
    /\ \A b \in Budget : spent[b] <= Budgets[b]

\* What may have cost an attempt its end.
Mishaps == spent["faults"] + spent["workerStops"] + spent["slow"] + spent["resubmits"]

\* Redis has kept its data so far.
NoLoss == spent["losses"] = 0

\* The job row has been committed.
Exists(j) == job[j] \in Jobs

\* The queue holds references to existing jobs only.
References ==
    /\ OneReference
    /\ \A j \in JobIds : /\ marker[j] \in {NoMarker, Ref(j)}
                         /\ marker[j] # NoMarker => Exists(j)

\* A handler of ground-api works on a committed job, and marks one that has its
\* queue entry, or had it until its result was stored.
HandlerOK(h) ==
    LET j == api[h].job IN
    /\ api[h].pc = "idle" => api[h] = HandlerIdle
    /\ api[h].pc # "idle" => ground.pc = "up" /\ j \in JobIds /\ Exists(j)
    /\ api[h].pc = "mark" /\ NoLoss => marker[j] = Ref(j) \/ result[j] # None

Recovering(j) == ground.pc \in {"enqueue", "mark"} /\ ground.job = j

\* The recovery at startup: what it holds of a job may be stale, but a job held
\* as PENDING_QUEUE still is, and one held as RETRY_WAIT has not been queued.
RecoveryOK ==
    /\ \A j \in ground.todo : Exists(j)
    /\ ground.pc \in {"enqueue", "mark"} => ground.job \in JobIds
    /\ \A j \in JobIds : Recovering(j) =>
          /\ Exists(j)
          /\ ground.held \in ProcessingJobState
          /\ ground.held = "PENDING_QUEUE" => job[j].state = "PENDING_QUEUE"
          /\ ground.held = "RETRY_WAIT"
                => job[j].state \notin {"PENDING_QUEUE", "QUEUED"}
          /\ ground.pc = "mark" /\ NoLoss => marker[j] = Ref(j) \/ result[j] # None

\* A worker carries a malformed entry or the reference of an existing job; it
\* acknowledges finished work only, gives up for good on corrupt evidence only,
\* and a temporary failure of a claim it still owns comes from a mishap.
WorkerOK(w) ==
    LET pc == worker[w].pc
        m == worker[w].msg IN
    /\ pc = "quarantine" => m \in Malformed
    /\ pc \notin {"down", "idle", "quarantine"} =>
          \E j \in JobIds : /\ m = Ref(j) /\ Exists(j)
                            /\ pc \in {"finish", "ack"} => result[j] # None
                            /\ pc = "failPermanent" => j \in Corrupt
                            /\ pc = "failTemporary" =>
                                  Mishaps >= 1 \/ ~ OwnsClaim(w, j)

\* A recovery may still put the job back to QUEUED although it was claimed ...
Threatened(j) == Recovering(j) /\ ground.held = "RETRY_WAIT"

\* ... and so may each replay that holds, or is about to hold, a row not yet queued.
Replays(j) ==
    {h \in Handlers : /\ api[h].job = j
                      /\ api[h].pc = "read" \/ Queueable(api[h].held)}

\* How often the job may still be taken back from a worker.
Returns(j) == (IF Threatened(j) THEN 1 ELSE 0) + Cardinality(Replays(j))

\* The claims of job j that no later mishap will have to account for.
Foreseen(j) ==
    (IF job[j].state = "QUEUED" THEN 1 ELSE 0)
    + (IF job[j].state = "PROCESSING" /\ ~ (job[j].lease = "live" /\ OwnerBusy(j))
       THEN 1 ELSE 0)
    + Returns(j)

\* A job row agrees with the result table, the queue and the counters.
JobOK(j) ==
    /\ result[j] # None => /\ Exists(j) /\ j \notin Corrupt
                           /\ job[j].state \in {"QUEUED", "COMPLETE"}
    /\ Exists(j) =>
         /\ job[j].state = "PENDING_QUEUE" => job[j].attempts = 0
         /\ job[j].state = "COMPLETE" => result[j] # None
         /\ job[j].state = "FAILED" => j \in Corrupt \/ job[j].attempts >= MaxAttempts
         /\ job[j].state = "RETRY_WAIT" => /\ job[j].attempts < MaxAttempts
                                           /\ Mishaps >= 1
         /\ job[j].attempts + Foreseen(j) <= MaxAttempts + Mishaps
         /\ NoLoss /\ result[j] = None /\ job[j].state # "PENDING_QUEUE"
               => marker[j] = Ref(j)

\* The inductive invariant.
PipelineInv ==
    /\ Tables
    /\ References
    /\ \A h \in Handlers : HandlerOK(h)
    /\ \A j \in JobIds : JobOK(j) /\ Returns(j) <= Mishaps
    /\ RecoveryOK
    /\ \A w \in Workers : WorkerOK(w)
-----------------------------------------------------------------------------
(* The bounds and the counters.                                            *)

\* The counters, by name.
LEMMA BudgetNames ==
    Budget = {"resubmits", "groundStops", "workerStops", "faults", "slow", "losses"}
BY DEF Budget, Budgets

\* What a step adds to the counters.
LEMMA SpendEffect ==
    ASSUME Tables, NEW b \in Budget, Spend(b)
    PROVE  /\ spent' \in [Budget -> Nat]
           /\ \A c \in Budget : spent'[c] <= Budgets[c]
           /\ spent'[b] = spent[b] + 1
           /\ \A c \in Budget : c # b => spent'[c] = spent[c]
<1>1. /\ spent \in [Budget -> Nat] /\ spent[b] \in Nat
      /\ spent[b] < Budgets[b] /\ spent' = [spent EXCEPT ![b] = spent[b] + 1]
      /\ \A c \in Budget : spent[c] <= Budgets[c]
  BY DEF Tables, Spend
<1>2. Budgets[b] \in Nat
  BY BudgetNames, PipelineAssumption DEF Budgets
<1> QED BY <1>1, <1>2

\* A failed call, a stopped or slow worker or a retransmission is a mishap; nothing
\* else is.
LEMMA MishapEffect ==
    ASSUME Tables
    PROVE  /\ Mishaps \in Nat
           /\ (\/ Spend("faults") \/ Spend("workerStops")
               \/ Spend("slow") \/ Spend("resubmits"))
                => Mishaps' = Mishaps + 1 /\ (NoLoss' <=> NoLoss)
           /\ Spend("groundStops") => Mishaps' = Mishaps /\ (NoLoss' <=> NoLoss)
           /\ Spend("losses") => Mishaps' = Mishaps /\ ~ NoLoss'
           /\ UNCHANGED spent => Mishaps' = Mishaps /\ (NoLoss' <=> NoLoss)
<1>1. spent \in [{"resubmits", "groundStops", "workerStops", "faults", "slow", "losses"}
                   -> Nat]
  BY BudgetNames DEF Tables
<1>2. Mishaps \in Nat
  BY <1>1 DEF Mishaps
<1>3. ASSUME NEW b \in {"faults", "workerStops", "slow", "resubmits"}, Spend(b)
      PROVE  Mishaps' = Mishaps + 1 /\ (NoLoss' <=> NoLoss)
  <2>1. /\ spent'[b] = spent[b] + 1
        /\ \A c \in Budget : c # b => spent'[c] = spent[c]
    BY <1>3, BudgetNames, SpendEffect
  <2> QED BY <1>1, <2>1, BudgetNames DEF Mishaps, NoLoss
<1>4. ASSUME Spend("groundStops")
      PROVE  Mishaps' = Mishaps /\ (NoLoss' <=> NoLoss)
  <2>1. \A c \in Budget : c # "groundStops" => spent'[c] = spent[c]
    BY <1>4, BudgetNames, SpendEffect
  <2> QED BY <1>1, <2>1, BudgetNames DEF Mishaps, NoLoss
<1>5. ASSUME Spend("losses") PROVE Mishaps' = Mishaps /\ ~ NoLoss'
  <2>1. /\ spent'["losses"] = spent["losses"] + 1
        /\ \A c \in Budget : c # "losses" => spent'[c] = spent[c]
    BY <1>5, BudgetNames, SpendEffect
  <2> QED BY <1>1, <2>1, BudgetNames DEF Mishaps, NoLoss
<1> QED BY <1>2, <1>3, <1>4, <1>5 DEF Mishaps, NoLoss
-----------------------------------------------------------------------------
(* The queue calls of the pipeline.                                        *)

\* An entry disappears only for a job that has its result.
MarkersKept ==
    \A k \in JobIds : \/ marker'[k] = marker[k]
                      \/ marker'[k] = NoMarker /\ result[k] # None

\* The reference of a job is a well-formed message, and its own.
LEMMA RefIsMessage ==
    \A j \in JobIds : /\ Ref(j) \in QueueMessage /\ Ref(j) \in Entry
                      /\ Ref(j).job_id = j
                      /\ Ref(j) # NoMarker /\ Ref(j) \notin Malformed
                      /\ \A k \in JobIds : Ref(j) = Ref(k) => j = k
<1> TAKE j \in JobIds
<1>1. Ref(j) \in QueueMessage /\ Ref(j).job_id = j
  BY PipelineAssumption DEF Ref, QueueMessage
<1>2. \A k \in JobIds : Ref(j) = Ref(k) => j = k
  BY DEF Ref
<1>3. NoMarker \notin QueueMessage /\ Malformed \cap QueueMessage = {}
  BY QueueAssumption DEF QueueMessage
<1> QED BY <1>1, <1>2, <1>3 DEF Entry

\* enqueue leaves the job with its reference, whoever put it there.
LEMMA EnqueueCall ==
    ASSUME QueueTypeOK, References, NEW j \in JobIds, Enqueue(Ref(j))
    PROVE  /\ QueueTypeOK' /\ OneReference'
           /\ marker'[j] = Ref(j)
           /\ \A k \in JobIds : k # j => marker'[k] = marker[k]
<1>1. Ref(j) \in QueueMessage /\ Ref(j).job_id = j
  BY RefIsMessage
<1>2. QueueNext
  BY <1>1 DEF QueueNext
<1>3. QueueTypeOK' /\ OneReference'
  BY <1>2, TypeStep, ReferenceStep DEF References
<1>4. marker \in [JobIds -> QueueMessage \cup {NoMarker}]
  BY DEF QueueTypeOK
<1>5. CASE marker[j] = NoMarker
  <2>1. marker' = [marker EXCEPT ![j] = Ref(j)]
    BY <1>1, <1>5 DEF Enqueue, EnqueueReply
  <2> QED BY <1>3, <1>4, <2>1
<1>6. CASE marker[j] = Ref(j)
  <2>1. marker' = marker
    BY <1>1, <1>6, RefIsMessage DEF Enqueue, EnqueueReply
  <2> QED BY <1>3, <1>6, <2>1
<1> QED BY <1>5, <1>6 DEF References

\* The calls that move entries between lists leave the markers alone.
LEMMA QuietQueueCalls ==
    ASSUME QueueTypeOK, References,
           \/ Claim \/ RecoverProcessing
           \/ \E e \in Malformed : ForeignPush(e)
           \/ UNCHANGED queueVars
    PROVE  QueueTypeOK' /\ OneReference' /\ UNCHANGED marker
<1>1. [QueueNext]_queueVars
  BY DEF QueueNext
<1>2. QueueTypeOK' /\ OneReference'
  BY <1>1, TypeStep, ReferenceStep DEF References
<1> QED BY <1>2 DEF Claim, RecoverProcessing, ForeignPush, queueVars

\* What is claimed is malformed, or the reference of an existing job.
LEMMA ClaimedEntry ==
    ASSUME QueueTypeOK, References, Claim
    PROVE  /\ Last(pending) \in Entry
           /\ Last(pending) \notin Malformed =>
                 \E j \in JobIds : Last(pending) = Ref(j) /\ Exists(j)
<1>1. pending \in Seq(Entry) /\ pending # <<>>
  BY DEF QueueTypeOK, Claim
<1>2. Last(pending) \in Entry /\ Contains(pending, Last(pending))
  BY <1>1, FrontElements, FrontMembers
<1>3. ASSUME Last(pending) \notin Malformed
      PROVE  \E j \in JobIds : Last(pending) = Ref(j) /\ Exists(j)
  <2> DEFINE m == Last(pending)
  <2>1. m \in QueueMessage /\ m.job_id \in JobIds
    BY <1>2, <1>3, QueueFacts DEF Entry
  <2>2. marker[m.job_id] = m /\ m # NoMarker
    BY <1>2, <2>1, QueueFacts DEF References, OneReference, MarkerMatches
  <2> QED BY <2>1, <2>2 DEF References
<1> QED BY <1>2, <1>3

\* The call a worker makes for the entry it carries.
LEMMA WorkerQueueCall ==
    ASSUME QueueTypeOK, References, NEW w \in Workers, WorkerOK(w),
           worker[w].pc \in WorkerPcs, QueueCall(w) \/ UNCHANGED queueVars
    PROVE  QueueTypeOK' /\ OneReference' /\ MarkersKept
<1>1. CASE UNCHANGED queueVars
  BY <1>1, QuietQueueCalls DEF MarkersKept
<1>2. CASE QueueCall(w)
  <2> DEFINE m == worker[w].msg
             pc == worker[w].pc
  <2>1. CASE pc = "quarantine"
    <3>1. m \in Entry /\ DeadLetter(m)
      BY <1>2, <2>1 DEF QueueCall, WorkerOK, Entry
    <3>2. QueueNext
      BY <3>1 DEF QueueNext
    <3>3. QueueTypeOK' /\ OneReference'
      BY <3>2, TypeStep, ReferenceStep DEF References
    <3>4. UNCHANGED marker
      BY <3>1 DEF DeadLetter
    <3> QED BY <3>3, <3>4 DEF MarkersKept
  <2>2. CASE pc # "quarantine"
    <3>1. PICK j \in JobIds : /\ m = Ref(j)
                              /\ pc \in {"finish", "ack"} => result[j] # None
      BY <1>2, <2>2 DEF QueueCall, WorkerOK
    <3>2. m \in QueueMessage /\ m \in Entry /\ m.job_id = j
      BY <3>1, RefIsMessage
    <3>3. \/ pc \in {"finish", "ack"} /\ Ack(m)
          \/ DeadLetter(m) \/ Retry(m)
      BY <1>2 DEF QueueCall
    <3>4. QueueNext
      BY <3>2, <3>3 DEF QueueNext
    <3>5. QueueTypeOK' /\ OneReference'
      BY <3>4, TypeStep, ReferenceStep DEF References
    <3>6. CASE DeadLetter(m) \/ Retry(m)
      BY <3>5, <3>6 DEF DeadLetter, Retry, MarkersKept
    <3>7. CASE pc \in {"finish", "ack"} /\ Ack(m)
      <4>1. marker' = marker \/ marker' = [marker EXCEPT ![j] = NoMarker]
        BY <3>2, <3>7 DEF Ack
      <4>2. marker \in [JobIds -> QueueMessage \cup {NoMarker}]
        BY DEF QueueTypeOK
      <4>3. result[j] # None
        BY <3>1, <3>7
      <4>4. MarkersKept
        BY <4>1, <4>2, <4>3 DEF MarkersKept
      <4> QED BY <3>5, <4>4
    <3> QED BY <3>3, <3>6, <3>7
  <2> QED BY <2>1, <2>2
<1> QED BY <1>1, <1>2
-----------------------------------------------------------------------------
(* What a step leaves of the invariant.                                    *)

\* The row of job k is the same up to its owner, and so is its result.
Alike(k) ==
    /\ job[k] = None => job'[k] = None
    /\ Exists(k) => /\ job'[k] \in Jobs
                    /\ job'[k].state = job[k].state
                    /\ job'[k].attempts = job[k].attempts
                    /\ job'[k].lease = job[k].lease
    /\ result'[k] = result[k]

\* How far worker w is with job k.
Busy == {"working", "failTemporary", "failPermanent"}

BusyWith(w, k) == OwnsClaim(w, k) /\ worker[w].msg = Ref(k) /\ worker[w].pc \in Busy

\* An owner at work goes on, or its end is a mishap.
BusyKept(k) ==
    \A w \in Workers : Exists(k) /\ BusyWith(w, k) =>
        BusyWith(w, k)' \/ Mishaps' >= Mishaps + 1

\* The columns of a job row.
LEMMA RowFields ==
    \A row \in Jobs : /\ row.state \in ProcessingJobState /\ row.attempts \in Nat
                      /\ row.owner \in Workers \cup {None, Gone}
                      /\ row.lease \in {"none", "live", "expired"}
                      /\ row.due \in BOOLEAN
                      /\ row # None
BY RowAssumption DEF Jobs

\* How often a job may be taken back is a number.
LEMMA ReturnsAreCounted ==
    ASSUME NEW k \in JobIds
    PROVE  /\ IsFiniteSet(Replays(k)) /\ IsFiniteSet(Replays(k)')
           /\ Cardinality(Replays(k)) \in Nat /\ Cardinality(Replays(k)') \in Nat
           /\ Returns(k) \in Nat /\ Returns(k)' \in Nat
<1>1. Replays(k) \subseteq Handlers /\ Replays(k)' \subseteq Handlers
  BY DEF Replays
<1>2. IsFiniteSet(Replays(k)) /\ IsFiniteSet(Replays(k)')
  BY <1>1, FS_Subset, PipelineAssumption
<1>3. Cardinality(Replays(k)) \in Nat /\ Cardinality(Replays(k)') \in Nat
  BY <1>2, FS_CardinalityType
<1> QED BY <1>2, <1>3 DEF Returns

\* No process comes to hold an older row of the job.
LEMMA ReturnsShrink ==
    ASSUME NEW k \in JobIds, Threatened(k)' => Threatened(k),
           Replays(k)' \subseteq Replays(k)
    PROVE  Returns(k)' <= Returns(k)
<1>1. Cardinality(Replays(k)') <= Cardinality(Replays(k))
  BY ReturnsAreCounted, FS_Subset
<1> QED BY <1>1, ReturnsAreCounted DEF Returns

\* Nothing changes where ground-api does not move.
LEMMA ReturnsSame ==
    ASSUME NEW k \in JobIds, UNCHANGED <<api, ground>>
    PROVE  Returns(k)' = Returns(k)
<1>1. Threatened(k)' <=> Threatened(k)
  BY DEF Threatened, Recovering
<1>2. Replays(k)' = Replays(k)
  BY DEF Replays, Queueable
<1> QED BY <1>1, <1>2 DEF Returns

\* Only a mishap lets one process more take the job back.
ReturnsKept(k) ==
    \/ Returns(k)' <= Returns(k)
    \/ /\ Returns(k)' <= Returns(k) + 1 /\ Mishaps' >= Mishaps + 1
       /\ UNCHANGED <<job, worker>>

\* What a job row promises survives a step that leaves the row alike, forgets no
\* reference of an unfinished job and lets no busy owner stop without a mishap.
LEMMA JobFrame ==
    ASSUME Tables, NEW k \in JobIds, JobOK(k), Alike(k), BusyKept(k),
           Mishaps' \in Nat, Mishaps' >= Mishaps, NoLoss' => NoLoss,
           NoLoss' /\ marker[k] = Ref(k) => marker'[k] = Ref(k) \/ result[k] # None,
           ReturnsKept(k), Returns(k) <= Mishaps
    PROVE  JobOK(k)' /\ Returns(k)' <= Mishaps'
<1>1. Mishaps \in Nat
  BY MishapEffect
<1>2. job[k] = None \/ Exists(k)
  BY DEF Tables, Exists
<1> DEFINE t == Returns(k)
<1>r. t \in Nat /\ t' \in Nat /\ t' <= Mishaps'
  BY <1>1, ReturnsAreCounted DEF ReturnsKept
<1>3. CASE job[k] = None
  <2>1. ~ Exists(k) /\ ~ Exists(k)'
    BY <1>3, RowAssumption DEF Alike, Exists
  <2>2. result[k] = None /\ result'[k] = None
    BY <2>1 DEF JobOK, Alike
  <2> QED BY <1>r, <2>1, <2>2 DEF JobOK
<1>4. CASE Exists(k)
  <2>1. /\ Exists(k)'
        /\ job'[k].state = job[k].state /\ job'[k].attempts = job[k].attempts
        /\ job'[k].lease = job[k].lease /\ result'[k] = result[k]
    BY <1>4 DEF Alike, Exists
  <2>2. /\ job[k].attempts \in Nat /\ job[k].owner \in Workers \cup {None, Gone}
    BY <1>4, RowFields DEF Exists
  <2>3. job[k].state = "PROCESSING" /\ OwnerBusy(k)
            => OwnerBusy(k)' \/ Mishaps' >= Mishaps + 1
    <3>1. SUFFICES ASSUME job[k].state = "PROCESSING", NEW w \in Workers,
                          job[k].owner = w, worker[w].msg = Ref(k),
                          worker[w].pc \in Busy
                   PROVE  OwnerBusy(k)' \/ Mishaps' >= Mishaps + 1
      BY DEF OwnerBusy, Busy
    <3>2. BusyWith(w, k)
      BY <3>1 DEF BusyWith, OwnsClaim
    <3>3. BusyWith(w, k)' \/ Mishaps' >= Mishaps + 1
      BY <1>4, <3>2 DEF BusyKept
    <3>4. BusyWith(w, k)' => OwnerBusy(k)'
      BY DEF BusyWith, OwnsClaim, OwnerBusy, Busy, Ref
    <3> QED BY <3>3, <3>4
  <2>4. Foreseen(k) \in Nat /\ Foreseen(k)' \in Nat
    BY ReturnsAreCounted DEF Foreseen
  <2>5. Foreseen(k)' <= Foreseen(k) + (Mishaps' - Mishaps)
    <3> DEFINE open == job[k].state = "PROCESSING"
                         /\ ~ (job[k].lease = "live" /\ OwnerBusy(k))
    <3>1. (IF job'[k].state = "QUEUED" THEN 1 ELSE 0)
            = (IF job[k].state = "QUEUED" THEN 1 ELSE 0)
      BY <2>1
    <3>2. open' => open \/ Mishaps' >= Mishaps + 1
      BY <2>1, <2>3
    <3> HIDE DEF open
    <3> DEFINE q == IF job[k].state = "QUEUED" THEN 1 ELSE 0
               o == IF open THEN 1 ELSE 0
    <3>3. /\ q \in 0 .. 1 /\ o \in 0 .. 1
          /\ q' \in 0 .. 1 /\ o' \in 0 .. 1
      OBVIOUS
    <3>4. q' = q
      BY <3>1
    <3>5. \/ t' <= t /\ (o' <= o \/ Mishaps' >= Mishaps + 1)
          \/ t' <= t + 1 /\ o' <= o /\ Mishaps' >= Mishaps + 1
      <4>1. UNCHANGED <<job, worker>> => (open' <=> open)
        BY DEF open, OwnerBusy, Ref
      <4>2. CASE t' <= t
        BY <3>2, <4>2
      <4>3. CASE t' <= t + 1 /\ Mishaps' >= Mishaps + 1 /\ UNCHANGED <<job, worker>>
        BY <4>1, <4>3
      <4> QED BY <4>2, <4>3 DEF ReturnsKept
    <3>6. Foreseen(k) = q + o + t /\ Foreseen(k)' = q' + o' + t'
      BY DEF Foreseen, open
    <3>7. ASSUME NEW m \in Nat, NEW n \in Nat, n >= m,
                 NEW a \in 0 .. 1, NEW b \in 0 .. 1, NEW c \in Nat,
                 NEW d \in 0 .. 1, NEW e \in Nat,
                 \/ e <= c /\ (d <= b \/ n >= m + 1)
                 \/ e <= c + 1 /\ d <= b /\ n >= m + 1
          PROVE  a + d + e <= a + b + c + (n - m)
      BY <3>7
    <3> HIDE DEF q, o, t
    <3>8. q' + o' + t' <= q + o + t + (Mishaps' - Mishaps)
      BY <1>1, <1>r, <3>3, <3>4, <3>5, <3>7
    <3> QED BY <3>6, <3>8
  <2>6. job'[k].attempts + Foreseen(k)' <= MaxAttempts + Mishaps'
    <3>1. job[k].attempts + Foreseen(k) <= MaxAttempts + Mishaps
      BY <1>4 DEF JobOK
    <3>2. MaxAttempts \in Nat
      BY PipelineAssumption
    <3> QED BY <1>1, <2>1, <2>2, <2>4, <2>5, <3>1, <3>2
  <2>7. Mishaps >= 1 => Mishaps' >= 1
    BY <1>1
  <2>8. Ref(k)' = Ref(k)
    BY DEF Ref
  <2> QED BY <1>4, <1>r, <2>1, <2>6, <2>7, <2>8 DEF JobOK
<1> QED BY <1>2, <1>3, <1>4

\* A handler is not disturbed by a step that keeps rows, results and references.
LEMMA HandlerFrame ==
    ASSUME NEW h \in Handlers, HandlerOK(h), api'[h] = api[h], ground'.pc = ground.pc,
           \A k \in JobIds : Exists(k) => Exists(k)',
           \A k \in JobIds : result[k] # None => result'[k] = result[k],
           NoLoss' => NoLoss,
           \A k \in JobIds :
              NoLoss' /\ marker[k] = Ref(k) => marker'[k] = Ref(k) \/ result[k] # None
    PROVE  HandlerOK(h)'
<1>1. HandlerIdle' = HandlerIdle /\ \A k \in JobIds : Ref(k)' = Ref(k)
  BY DEF HandlerIdle, Ref
<1>2. CASE api[h].pc = "idle"
  BY <1>1, <1>2 DEF HandlerOK
<1>3. CASE api[h].pc # "idle"
  <2> DEFINE j == api[h].job
  <2>1. ground.pc = "up" /\ j \in JobIds /\ Exists(j)
    BY <1>3 DEF HandlerOK
  <2>2. api[h].pc = "mark" /\ NoLoss => marker[j] = Ref(j) \/ result[j] # None
    BY DEF HandlerOK
  <2> QED BY <1>1, <1>3, <2>1, <2>2 DEF HandlerOK
<1> QED BY <1>2, <1>3

\* Nor is the recovery, by rows that only go forward.
LEMMA RecoveryFrame ==
    ASSUME RecoveryOK, UNCHANGED ground, ground.todo \subseteq JobIds,
           \A j \in JobIds : Exists(j) =>
              /\ Exists(j)'
              /\ job[j].state = "PENDING_QUEUE" => job'[j].state = "PENDING_QUEUE"
              /\ job[j].state \notin {"PENDING_QUEUE", "QUEUED"}
                    => job'[j].state \notin {"PENDING_QUEUE", "QUEUED"},
           \A j \in JobIds : result[j] # None => result'[j] = result[j],
           NoLoss' => NoLoss,
           \A j \in JobIds :
              NoLoss' /\ marker[j] = Ref(j) => marker'[j] = Ref(j) \/ result[j] # None
    PROVE  RecoveryOK'
<1>1. \A j \in JobIds : Ref(j)' = Ref(j) /\ (Recovering(j)' <=> Recovering(j))
  BY DEF Ref, Recovering
<1>2. \A j \in ground'.todo : Exists(j)'
  BY DEF RecoveryOK
<1>3. ground'.pc \in {"enqueue", "mark"} => ground'.job \in JobIds
  BY DEF RecoveryOK
<1>4. ASSUME NEW j \in JobIds, Recovering(j)'
      PROVE  /\ Exists(j)'
             /\ ground'.held \in ProcessingJobState
             /\ ground'.held = "PENDING_QUEUE" => job'[j].state = "PENDING_QUEUE"
             /\ ground'.held = "RETRY_WAIT"
                   => job'[j].state \notin {"PENDING_QUEUE", "QUEUED"}
             /\ ground'.pc = "mark" /\ NoLoss' => marker'[j] = Ref(j) \/ result'[j] # None
  BY <1>1, <1>4 DEF RecoveryOK
<1> QED BY <1>1, <1>2, <1>3, <1>4 DEF RecoveryOK

\* Nor is a worker, as long as nobody hands it a claim behind its back.
LEMMA WorkerFrame ==
    ASSUME NEW w \in Workers, WorkerOK(w), worker'[w] = worker[w],
           \A j \in JobIds : Exists(j) => Exists(j)',
           \A j \in JobIds : result[j] # None => result'[j] = result[j],
           Mishaps \in Nat, Mishaps' \in Nat, Mishaps' >= Mishaps,
           \A j \in JobIds : Exists(j) /\ OwnsClaim(w, j)' => OwnsClaim(w, j)
    PROVE  WorkerOK(w)'
<1>1. \A j \in JobIds : Ref(j)' = Ref(j)
  BY DEF Ref
<1>2. CASE worker[w].pc \in {"down", "idle", "quarantine"}
  BY <1>2 DEF WorkerOK
<1>3. CASE worker[w].pc \notin {"down", "idle", "quarantine"}
  <2>1. PICK j \in JobIds :
           /\ worker[w].msg = Ref(j) /\ Exists(j)
           /\ worker[w].pc \in {"finish", "ack"} => result[j] # None
           /\ worker[w].pc = "failPermanent" => j \in Corrupt
           /\ worker[w].pc = "failTemporary" => Mishaps >= 1 \/ ~ OwnsClaim(w, j)
    BY <1>3 DEF WorkerOK
  <2>2. /\ worker'[w].msg = Ref(j)' /\ Exists(j)'
        /\ worker'[w].pc \in {"finish", "ack"} => result'[j] # None
        /\ worker'[w].pc = "failPermanent" => j \in Corrupt
        /\ worker'[w].pc = "failTemporary" => Mishaps' >= 1 \/ ~ OwnsClaim(w, j)'
    BY <1>1, <2>1
  <2> QED BY <1>3, <2>2 DEF WorkerOK
<1> QED BY <1>2, <1>3
-----------------------------------------------------------------------------
(* Steps of a worker.                                                      *)

\* A row that was written goes forward: nothing returns to the queue's care.
Written(k) ==
    /\ Exists(k) /\ Exists(k)' /\ JobOK(k)'
    /\ job[k].state = "PENDING_QUEUE" => job'[k].state = "PENDING_QUEUE"
    /\ job[k].state \notin {"PENDING_QUEUE", "QUEUED"}
          => job'[k].state \notin {"PENDING_QUEUE", "QUEUED"}
    /\ result[k] # None => result'[k] = result[k]

\* What the counters do in a step that loses nothing.
Counted == /\ spent' \in [Budget -> Nat]
           /\ \A b \in Budget : spent'[b] <= Budgets[b]
           /\ Mishaps' \in Nat /\ Mishaps' >= Mishaps
           /\ NoLoss' <=> NoLoss

\* Only a loss of the Redis data changes what is promised of references.
LEMMA CountersKept ==
    ASSUME Tables, \/ UNCHANGED spent
                   \/ \E b \in Budget : b # "losses" /\ Spend(b)
    PROVE  Counted
<1>1. Mishaps \in Nat
  BY MishapEffect
<1>2. CASE UNCHANGED spent
  BY <1>1, <1>2, MishapEffect DEF Counted, Tables
<1>3. ASSUME NEW b \in Budget, b # "losses", Spend(b) PROVE Counted
  <2>1. /\ spent' \in [Budget -> Nat]
        /\ \A c \in Budget : spent'[c] <= Budgets[c]
    BY <1>3, SpendEffect
  <2>2. Mishaps' \in {Mishaps, Mishaps + 1} /\ (NoLoss' <=> NoLoss)
    BY <1>3, BudgetNames, MishapEffect
  <2> QED BY <1>1, <2>1, <2>2 DEF Counted
<1> QED BY <1>2, <1>3

\* A step of worker w keeps the invariant when it treats every row properly and
\* ends in a proper state itself.
LEMMA WorkerMoves ==
    ASSUME PipelineInv, NEW w \in Workers, Tables', OneReference', MarkersKept,
           Counted, UNCHANGED <<api, ground>>,
           \A v \in Workers : v # w => worker'[v] = worker[v],
           WorkerOK(w)',
           \A k \in JobIds : (Alike(k) /\ BusyKept(k)) \/ Written(k),
           \A v \in Workers : \A k \in JobIds :
              v # w /\ Exists(k) /\ OwnsClaim(v, k)' => OwnsClaim(v, k)
    PROVE  PipelineInv'
<1>1. /\ Tables /\ References /\ RecoveryOK /\ Mishaps \in Nat
      /\ Mishaps' \in Nat /\ Mishaps' >= Mishaps /\ (NoLoss' <=> NoLoss)
      /\ \A h \in Handlers : HandlerOK(h)
      /\ \A j \in JobIds : JobOK(j) /\ Returns(j) <= Mishaps
      /\ \A v \in Workers : WorkerOK(v)
  BY MishapEffect DEF PipelineInv, Counted
<1>2. \A k \in JobIds : marker[k] = Ref(k) => marker'[k] = Ref(k) \/ result[k] # None
  BY DEF MarkersKept
<1>3. \A k \in JobIds : Exists(k) =>
         /\ Exists(k)'
         /\ job[k].state = "PENDING_QUEUE" => job'[k].state = "PENDING_QUEUE"
         /\ job[k].state \notin {"PENDING_QUEUE", "QUEUED"}
               => job'[k].state \notin {"PENDING_QUEUE", "QUEUED"}
  BY DEF Alike, Written, Exists
<1>4. \A k \in JobIds : result[k] # None => result'[k] = result[k]
  BY DEF Alike, Written
<1>5. References'
  <2>1. ASSUME NEW k \in JobIds
        PROVE  /\ marker'[k] \in {NoMarker, Ref(k)}
               /\ marker'[k] # NoMarker => Exists(k)'
    BY <1>1, <1>3 DEF MarkersKept, References
  <2> QED BY <2>1 DEF References, Ref
<1>6. ASSUME NEW k \in JobIds PROVE JobOK(k)' /\ Returns(k)' <= Mishaps'
  <2>1. Returns(k)' = Returns(k) /\ Returns(k) \in Nat
    BY ReturnsSame, ReturnsAreCounted
  <2>2. CASE Alike(k) /\ BusyKept(k)
    BY <1>1, <1>2, <2>1, <2>2, JobFrame DEF ReturnsKept
  <2>3. CASE Written(k)
    BY <1>1, <2>1, <2>3 DEF Written
  <2> QED BY <2>2, <2>3
<1>7. ASSUME NEW h \in Handlers PROVE HandlerOK(h)'
  BY <1>1, <1>2, <1>3, <1>4, HandlerFrame
<1>8. RecoveryOK'
  <2>1. ground.todo \subseteq JobIds
    BY <1>1 DEF Tables
  <2> QED BY <1>1, <1>2, <1>3, <1>4, <2>1, RecoveryFrame
<1>9. ASSUME NEW v \in Workers PROVE WorkerOK(v)'
  <2>1. CASE v = w
    BY <2>1
  <2>2. CASE v # w
    BY <1>1, <1>3, <1>4, <2>2, WorkerFrame
  <2> QED BY <2>1, <2>2
<1> QED BY <1>5, <1>6, <1>7, <1>8, <1>9 DEF PipelineInv

\* A step of worker w that leaves the database alone.
LEMMA QuietWorkerStep ==
    ASSUME PipelineInv, NEW w \in Workers,
           QueueTypeOK', OneReference', MarkersKept, Counted,
           UNCHANGED <<job, result, api, ground>>,
           NEW s \in [pc : WorkerPcs, msg : Entry \cup {None}],
           worker' = [worker EXCEPT ![w] = s],
           WorkerOK(w)',
           \A k \in JobIds : Exists(k) /\ BusyWith(w, k)
              => BusyWith(w, k)' \/ Mishaps' >= Mishaps + 1
    PROVE  PipelineInv'
<1>1. Tables'
  BY DEF PipelineInv, Tables, Counted, ResultTable
<1>2. \A v \in Workers : v # w => worker'[v] = worker[v]
  BY DEF PipelineInv, Tables
<1>3. \A k \in JobIds : Alike(k)
  BY DEF Alike, Exists
<1>4. ASSUME NEW k \in JobIds PROVE BusyKept(k)
  <2>1. \A v \in Workers : OwnsClaim(v, k)' <=> OwnsClaim(v, k)
    BY DEF OwnsClaim
  <2>2. \A v \in Workers : v # w /\ BusyWith(v, k) => BusyWith(v, k)'
    BY <1>2, <2>1 DEF BusyWith, Ref
  <2> QED BY <2>2 DEF BusyKept
<1>5. \A v \in Workers : \A k \in JobIds : OwnsClaim(v, k)' => OwnsClaim(v, k)
  BY DEF OwnsClaim
<1> QED BY <1>1, <1>2, <1>3, <1>4, <1>5, WorkerMoves

\* The process of worker w ends, while it is not at work on a claim it owns or
\* with a mishap on the account.
LEMMA DyingStep ==
    ASSUME PipelineInv, NEW w \in Workers, Die(w),
           QueueTypeOK', OneReference', MarkersKept, Counted,
           UNCHANGED <<api, ground>>,
           \A k \in JobIds : Exists(k) /\ BusyWith(w, k) => Mishaps' >= Mishaps + 1
    PROVE  PipelineInv'
<1>1. /\ job \in [JobIds -> Jobs \cup {None}] /\ ResultTable
      /\ worker \in [Workers -> [pc : WorkerPcs, msg : Entry \cup {None}]]
  BY DEF PipelineInv, Tables
<1>2. /\ worker' = [worker EXCEPT ![w] = WorkerDown]
      /\ job' = Orphaned(w, job) /\ result' = result
  BY DEF Die
<1>3. WorkerDown \in [pc : WorkerPcs, msg : Entry \cup {None}]
  BY DEF WorkerDown, WorkerPcs
<1>4. /\ worker' \in [Workers -> [pc : WorkerPcs, msg : Entry \cup {None}]]
      /\ worker'[w].pc = "down"
      /\ \A v \in Workers : v # w => worker'[v] = worker[v]
  BY <1>1, <1>2, <1>3 DEF WorkerDown
<1>5. ASSUME NEW k \in JobIds
      PROVE  /\ job[k] = None => job'[k] = None
             /\ Exists(k) => /\ job'[k] \in Jobs
                             /\ job'[k].state = job[k].state
                             /\ job'[k].attempts = job[k].attempts
                             /\ job'[k].lease = job[k].lease
                             /\ job'[k].owner =
                                   IF job[k].owner = w THEN Gone ELSE job[k].owner
  <2>1. job'[k] = IF job[k] # None /\ job[k].owner = w
                  THEN [job[k] EXCEPT !.owner = Gone] ELSE job[k]
    BY <1>2 DEF Orphaned
  <2>2. CASE job[k] = None
    BY <2>1, <2>2, RowAssumption DEF Exists
  <2>3. CASE Exists(k) /\ job[k].owner = w
    <3>1. job'[k] = [job[k] EXCEPT !.owner = Gone]
      BY <2>1, <2>3, RowFields DEF Exists
    <3> QED BY <2>3, <3>1, RowAssumption DEF Exists, Jobs
  <2>4. CASE Exists(k) /\ job[k].owner # w
    BY <2>1, <2>4, RowAssumption DEF Exists
  <2> QED BY <1>1, <2>2, <2>3, <2>4 DEF Exists
<1>6. Tables'
  <2>1. job' \in [JobIds -> Jobs \cup {None}]
    <3>1. \A k \in JobIds : job'[k] \in Jobs \cup {None}
      BY <1>1, <1>5 DEF Exists
    <3>2. job' = [k \in JobIds |-> job'[k]]
      BY <1>2 DEF Orphaned
    <3> QED BY <3>1, <3>2
  <2> QED BY <1>2, <1>4, <2>1 DEF PipelineInv, Tables, Counted, ResultTable
<1>7. \A k \in JobIds : Alike(k)
  BY <1>2, <1>5 DEF Alike
<1>8. WorkerOK(w)'
  BY <1>4 DEF WorkerOK
<1>9. \A v \in Workers : \A k \in JobIds : v # w /\ Exists(k)
         => (OwnsClaim(v, k)' <=> OwnsClaim(v, k))
  BY <1>5, PipelineAssumption DEF OwnsClaim
<1>10. ASSUME NEW k \in JobIds PROVE BusyKept(k)
  <2>1. \A v \in Workers : v # w /\ Exists(k) /\ BusyWith(v, k) => BusyWith(v, k)'
    BY <1>4, <1>9 DEF BusyWith, Ref
  <2> QED BY <2>1 DEF BusyKept
<1> QED BY <1>4, <1>6, <1>7, <1>8, <1>9, <1>10, WorkerMoves

\* What a worker beyond the queue call carries.
LEMMA Carrier ==
    ASSUME PipelineInv, NEW w \in Workers,
           worker[w].pc \notin {"down", "idle", "quarantine"}
    PROVE  \E j \in JobIds :
              /\ worker[w].msg = Ref(j) /\ Held(w) = j /\ Exists(j)
              /\ worker[w].pc \in {"finish", "ack"} => result[j] # None
              /\ worker[w].pc = "failPermanent" => j \in Corrupt
              /\ worker[w].pc = "failTemporary" => Mishaps >= 1 \/ ~ OwnsClaim(w, j)
<1>1. WorkerOK(w)
  BY DEF PipelineInv
<1> QED BY <1>1, RefIsMessage DEF WorkerOK, Held

\* The program counter moves, the message stays.
LEMMA GoToEffect ==
    ASSUME PipelineInv, NEW w \in Workers, NEW p \in WorkerPcs, GoTo(w, p)
    PROVE  \E s \in [pc : WorkerPcs, msg : Entry \cup {None}] :
              /\ worker' = [worker EXCEPT ![w] = s]
              /\ s.pc = p /\ s.msg = worker[w].msg
              /\ worker'[w] = s
              /\ worker' \in [Workers -> [pc : WorkerPcs, msg : Entry \cup {None}]]
              /\ \A v \in Workers : v # w => worker'[v] = worker[v]
<1>1. worker \in [Workers -> [pc : WorkerPcs, msg : Entry \cup {None}]]
  BY DEF PipelineInv, Tables
<1> DEFINE s == [pc |-> p, msg |-> worker[w].msg]
<1>2. s \in [pc : WorkerPcs, msg : Entry \cup {None}]
  BY <1>1
<1>3. [worker[w] EXCEPT !.pc = p] = s
  BY <1>1
<1>4. worker' = [worker EXCEPT ![w] = s]
  BY <1>3 DEF GoTo
<1> QED BY <1>1, <1>2, <1>4

\* A worker returns to its loop without a message.
LEMMA IdleEffect ==
    ASSUME PipelineInv, NEW w \in Workers, BackToLoop(w)
    PROVE  /\ WorkerIdle \in [pc : WorkerPcs, msg : Entry \cup {None}]
           /\ worker' = [worker EXCEPT ![w] = WorkerIdle]
           /\ worker'[w].pc = "idle" /\ WorkerOK(w)'
           /\ worker' \in [Workers -> [pc : WorkerPcs, msg : Entry \cup {None}]]
           /\ \A v \in Workers : v # w => worker'[v] = worker[v]
<1>1. worker \in [Workers -> [pc : WorkerPcs, msg : Entry \cup {None}]]
  BY DEF PipelineInv, Tables
<1>2. WorkerIdle \in [pc : WorkerPcs, msg : Entry \cup {None}] /\ WorkerIdle.pc = "idle"
  BY DEF WorkerIdle, WorkerPcs
<1>3. worker' = [worker EXCEPT ![w] = WorkerIdle]
  BY DEF BackToLoop
<1>4. worker'[w] = WorkerIdle
  BY <1>1, <1>3
<1>5. WorkerOK(w)'
  BY <1>2, <1>4 DEF WorkerOK
<1> QED BY <1>1, <1>2, <1>3, <1>4, <1>5

\* A worker with a message goes on to another place, the database unchanged.
LEMMA GoToStep ==
    ASSUME PipelineInv, NEW w \in Workers, NEW p \in WorkerPcs, GoTo(w, p),
           QueueTypeOK', OneReference', MarkersKept, Counted,
           UNCHANGED <<job, result, api, ground>>,
           NEW j \in JobIds, worker[w].msg = Ref(j), Exists(j),
           p \notin {"down", "idle", "quarantine"},
           p \in {"finish", "ack"} => result[j] # None,
           p = "failPermanent" => j \in Corrupt,
           p = "failTemporary" => Mishaps' >= 1 \/ ~ OwnsClaim(w, j),
           worker[w].pc \in Busy =>
              p \in Busy \/ Mishaps' >= Mishaps + 1 \/ ~ OwnsClaim(w, j)
    PROVE  PipelineInv'
<1>1. PICK s \in [pc : WorkerPcs, msg : Entry \cup {None}] :
         /\ worker' = [worker EXCEPT ![w] = s]
         /\ s.pc = p /\ s.msg = worker[w].msg /\ worker'[w] = s
  BY GoToEffect
<1>2. Exists(j)' /\ Ref(j)' = Ref(j) /\ (OwnsClaim(w, j)' <=> OwnsClaim(w, j))
  BY DEF Exists, Ref, OwnsClaim
<1>3. WorkerOK(w)'
  <2>1. /\ worker'[w].msg = Ref(j)' /\ worker'[w].pc = p
    BY <1>1, <1>2
  <2> QED BY <1>2, <2>1 DEF WorkerOK
<1>4. ASSUME NEW k \in JobIds, Exists(k), BusyWith(w, k)
      PROVE  BusyWith(w, k)' \/ Mishaps' >= Mishaps + 1
  <2>1. k = j /\ worker[w].pc \in Busy /\ OwnsClaim(w, j)
    BY <1>4, RefIsMessage DEF BusyWith
  <2> QED BY <1>1, <1>2, <2>1 DEF BusyWith
<1> QED BY <1>1, <1>3, <1>4, QuietWorkerStep

\* A worker that is not at work on a claim returns to its loop.
LEMMA IdleStep ==
    ASSUME PipelineInv, NEW w \in Workers, BackToLoop(w),
           QueueTypeOK', OneReference', MarkersKept, Counted,
           UNCHANGED <<job, result, api, ground>>,
           worker[w].pc \notin Busy \/ Mishaps' >= Mishaps + 1
    PROVE  PipelineInv'
<1>1. \A k \in JobIds : BusyWith(w, k) => Mishaps' >= Mishaps + 1
  BY DEF BusyWith
<1> QED BY <1>1, IdleEffect, QuietWorkerStep

\* A worker that is not at work on a claim ends.
LEMMA DeathStep ==
    ASSUME PipelineInv, NEW w \in Workers, Die(w),
           QueueTypeOK', OneReference', MarkersKept, Counted,
           UNCHANGED <<api, ground>>,
           worker[w].pc \notin Busy \/ Mishaps' >= Mishaps + 1
    PROVE  PipelineInv'
<1>1. \A k \in JobIds : BusyWith(w, k) => Mishaps' >= Mishaps + 1
  BY DEF BusyWith
<1> QED BY <1>1, DyingStep

\* The steps of a worker that leave the database alone: WorkerStart, WorkerClaim,
\* Quarantine, _return_or_finish_unclaimed, the acknowledgement and the queue
\* call after a failure.
LEMMA QueueStepsKeep ==
    ASSUME PipelineInv, NEW w \in Workers,
           \/ WorkerStart(w) \/ WorkerClaim(w) \/ Quarantine(w)
           \/ ResolveUnclaimed(w) \/ FinishUnclaimed(w) \/ ReturnMessage(w)
           \/ AckCompleted(w) \/ AfterFailure(w)
    PROVE  PipelineInv'
<1>1. Tables /\ QueueTypeOK /\ References /\ WorkerOK(w) /\ worker[w].pc \in WorkerPcs
  BY DEF PipelineInv, Tables
<1>2. UNCHANGED <<spent, api, ground>>
  BY DEF WorkerStart, WorkerClaim, Quarantine, ResolveUnclaimed, FinishUnclaimed,
         ReturnMessage, AckCompleted, AfterFailure
<1>3. Counted
  BY <1>1, <1>2, CountersKept
<1>4. CASE WorkerStart(w)
  <2>1. /\ RecoverProcessing /\ BackToLoop(w) /\ worker[w].pc = "down"
        /\ UNCHANGED <<job, result>>
    BY <1>4 DEF WorkerStart, At, durable
  <2>2. QueueTypeOK' /\ OneReference' /\ MarkersKept
    BY <1>1, <2>1, QuietQueueCalls DEF MarkersKept
  <2> QED BY <1>2, <1>3, <2>1, <2>2, IdleStep DEF Busy
<1>5. CASE WorkerClaim(w)
  <2> DEFINE s == [pc |-> IF Last(pending) \in Malformed THEN "quarantine" ELSE "claimed",
                   msg |-> Last(pending)]
  <2>1. /\ Claim /\ worker[w].pc = "idle" /\ worker' = [worker EXCEPT ![w] = s]
        /\ UNCHANGED <<job, result>>
    BY <1>5 DEF WorkerClaim, At, durable
  <2>2. QueueTypeOK' /\ OneReference' /\ MarkersKept
    BY <1>1, <2>1, QuietQueueCalls DEF MarkersKept
  <2>3. /\ Last(pending) \in Entry
        /\ Last(pending) \notin Malformed =>
              \E j \in JobIds : Last(pending) = Ref(j) /\ Exists(j)
    BY <1>1, <2>1, ClaimedEntry
  <2>4. s \in [pc : WorkerPcs, msg : Entry \cup {None}]
    BY <2>3 DEF WorkerPcs
  <2>5. worker'[w] = s
    BY <2>1 DEF PipelineInv, Tables
  <2>6. WorkerOK(w)'
    <3>1. CASE Last(pending) \in Malformed
      <4>1. worker'[w].pc = "quarantine" /\ worker'[w].msg = Last(pending)
        BY <2>5, <3>1
      <4> QED BY <3>1, <4>1 DEF WorkerOK
    <3>2. CASE Last(pending) \notin Malformed
      <4>1. worker'[w].pc = "claimed" /\ worker'[w].msg = Last(pending)
        BY <2>5, <3>2
      <4>2. PICK j \in JobIds : Last(pending) = Ref(j) /\ Exists(j)
        BY <2>3, <3>2
      <4>3. worker'[w].msg = Ref(j)' /\ Exists(j)'
        BY <2>1, <4>1, <4>2 DEF Ref, Exists
      <4> QED BY <4>1, <4>3 DEF WorkerOK
    <3> QED BY <3>1, <3>2
  <2>7. \A k \in JobIds : ~ BusyWith(w, k)
    BY <2>1 DEF BusyWith, Busy
  <2> HIDE DEF s
  <2> QED BY <1>2, <1>3, <2>1, <2>2, <2>4, <2>6, <2>7, QuietWorkerStep
<1>6. CASE Quarantine(w)
  <2>1. /\ worker[w].pc = "quarantine" /\ QueueCall(w)
        /\ (BackToLoop(w) /\ UNCHANGED <<job, result>>) \/ Die(w)
    BY <1>6 DEF Quarantine, At, durable
  <2>2. QueueTypeOK' /\ OneReference' /\ MarkersKept
    BY <1>1, <2>1, WorkerQueueCall
  <2> QED BY <1>2, <1>3, <2>1, <2>2, IdleStep, DeathStep DEF Busy
<1>7. CASE ResolveUnclaimed(w)
  <2>1. PICK j \in JobIds : worker[w].msg = Ref(j) /\ Held(w) = j /\ Exists(j)
    BY <1>7, Carrier DEF ResolveUnclaimed, At
  <2>2. PICK p \in {"finish", "park", "giveBack"} :
           GoTo(w, p) /\ (p = "finish" => job[j].state = "COMPLETE")
    <3>1. CASE job[j].state = "COMPLETE"
      BY <1>7, <2>1, <3>1 DEF ResolveUnclaimed
    <3>2. CASE job[j].state = "FAILED"
      BY <1>7, <2>1, <3>2 DEF ResolveUnclaimed
    <3>3. CASE job[j].state \notin {"COMPLETE", "FAILED"}
      BY <1>7, <2>1, <3>3 DEF ResolveUnclaimed
    <3> QED BY <3>1, <3>2, <3>3
  <2>3. p = "finish" => result[j] # None
    BY <2>1, <2>2 DEF PipelineInv, JobOK
  <2>4. UNCHANGED <<job, result>> /\ UNCHANGED queueVars /\ worker[w].pc = "unclaimed"
    BY <1>7 DEF ResolveUnclaimed, At, durable
  <2>5. QueueTypeOK' /\ OneReference' /\ MarkersKept
    BY <1>1, <2>4, WorkerQueueCall
  <2>6. p \in WorkerPcs /\ p \notin {"down", "idle", "quarantine"}
    BY DEF WorkerPcs
  <2> QED BY <1>2, <1>3, <2>1, <2>2, <2>3, <2>4, <2>5, <2>6, GoToStep DEF Busy
<1>8. CASE FinishUnclaimed(w)
  <2>1. /\ worker[w].pc \in {"finish", "park", "giveBack"} /\ QueueCall(w)
        /\ BackToLoop(w) \/ GoTo(w, "return")
        /\ UNCHANGED <<job, result>>
    BY <1>8 DEF FinishUnclaimed, durable
  <2>2. QueueTypeOK' /\ OneReference' /\ MarkersKept
    BY <1>1, <2>1, WorkerQueueCall
  <2>3. PICK j \in JobIds : worker[w].msg = Ref(j) /\ Exists(j)
    BY <2>1, Carrier
  <2>4. "return" \in WorkerPcs /\ worker[w].pc \notin Busy
    BY <2>1 DEF WorkerPcs, Busy
  <2>5. CASE GoTo(w, "return")
    BY <1>2, <1>3, <2>1, <2>2, <2>3, <2>4, <2>5, GoToStep
  <2> QED BY <1>2, <1>3, <2>1, <2>2, <2>4, <2>5, IdleStep
<1>9. CASE ReturnMessage(w) \/ AckCompleted(w)
  <2>1. /\ worker[w].pc \in {"return", "ack"} /\ QueueCall(w) /\ BackToLoop(w)
        /\ UNCHANGED <<job, result>>
    BY <1>9 DEF ReturnMessage, AckCompleted, At, durable
  <2>2. QueueTypeOK' /\ OneReference' /\ MarkersKept
    BY <1>1, <2>1, WorkerQueueCall
  <2> QED BY <1>2, <1>3, <2>1, <2>2, IdleStep DEF Busy
<1>10. CASE AfterFailure(w)
  <2>1. /\ worker[w].pc \in {"deadLetter", "backoff"} /\ QueueCall(w)
        /\ (BackToLoop(w) /\ UNCHANGED <<job, result>>) \/ Die(w)
    BY <1>10 DEF AfterFailure, At, durable
  <2>2. QueueTypeOK' /\ OneReference' /\ MarkersKept
    BY <1>1, <2>1, WorkerQueueCall
  <2> QED BY <1>2, <1>3, <2>1, <2>2, IdleStep, DeathStep DEF Busy
<1> QED BY <1>4, <1>5, <1>6, <1>7, <1>8, <1>9, <1>10

\* A stopped worker and a failed Redis call are mishaps.
LEMMA StopsAndRedisFaultsKeep ==
    ASSUME PipelineInv, NEW w \in Workers, WorkerStop(w) \/ RedisFault(w)
    PROVE  PipelineInv'
<1>1. Tables /\ QueueTypeOK /\ References /\ WorkerOK(w) /\ worker[w].pc \in WorkerPcs
  BY DEF PipelineInv, Tables
<1>2. Spend("workerStops") \/ Spend("faults")
  BY DEF WorkerStop, RedisFault
<1>3. Counted /\ Mishaps' >= Mishaps + 1
  BY <1>1, <1>2, CountersKept, MishapEffect, BudgetNames
<1>4. UNCHANGED <<api, ground>>
  BY DEF WorkerStop, RedisFault
<1>5. CASE WorkerStop(w)
  <2>1. Die(w) /\ UNCHANGED queueVars
    BY <1>5 DEF WorkerStop
  <2>2. QueueTypeOK' /\ OneReference' /\ MarkersKept
    BY <1>1, <2>1, WorkerQueueCall
  <2> QED BY <1>3, <1>4, <2>1, <2>2, DeathStep
<1>6. CASE Claim /\ UNCHANGED <<durable, worker>>
  <2>1. QueueTypeOK' /\ OneReference' /\ MarkersKept
    BY <1>1, <1>6, QuietQueueCalls DEF MarkersKept
  <2>2. worker' = [worker EXCEPT ![w] = worker[w]]
        /\ worker[w] \in [pc : WorkerPcs, msg : Entry \cup {None}]
    BY <1>6 DEF PipelineInv, Tables
  <2>3. WorkerOK(w)'
    <3>1. \A j \in JobIds : OwnsClaim(w, j)' <=> OwnsClaim(w, j)
      BY <1>6 DEF OwnsClaim, durable
    <3>2. \A j \in JobIds : Exists(j)' <=> Exists(j)
      BY <1>6 DEF Exists, durable
    <3>3. Mishaps \in Nat /\ Mishaps' \in Nat /\ Mishaps' >= Mishaps
      BY <1>1, <1>3, MishapEffect DEF Counted
    <3> QED BY <1>1, <1>6, <3>1, <3>2, <3>3, WorkerFrame DEF durable
  <2> QED BY <1>3, <1>4, <1>6, <2>1, <2>2, <2>3, QuietWorkerStep DEF durable
<1>7. CASE /\ UNCHANGED queueVars \/ QueueCall(w)
           /\ BackToLoop(w) /\ UNCHANGED durable
  <2>1. QueueTypeOK' /\ OneReference' /\ MarkersKept
    BY <1>1, <1>7, WorkerQueueCall
  <2> QED BY <1>3, <1>4, <1>7, <2>1, IdleStep DEF durable
<1>8. CASE /\ worker[w].pc \in {"finish", "park", "giveBack"}
           /\ UNCHANGED queueVars \/ QueueCall(w)
           /\ GoTo(w, "return") /\ UNCHANGED durable
  <2>1. QueueTypeOK' /\ OneReference' /\ MarkersKept
    BY <1>1, <1>8, WorkerQueueCall
  <2>2. PICK j \in JobIds : worker[w].msg = Ref(j) /\ Exists(j)
    BY <1>8, Carrier
  <2>3. "return" \in WorkerPcs /\ worker[w].pc \notin Busy
    BY <1>8 DEF WorkerPcs, Busy
  <2> QED BY <1>3, <1>4, <1>8, <2>1, <2>2, <2>3, GoToStep DEF durable
<1>9. CASE (UNCHANGED queueVars \/ QueueCall(w)) /\ Die(w)
  <2>1. QueueTypeOK' /\ OneReference' /\ MarkersKept
    BY <1>1, <1>9, WorkerQueueCall
  <2> QED BY <1>3, <1>4, <1>9, <2>1, DeathStep
<1> QED BY <1>5, <1>6, <1>7, <1>8, <1>9 DEF RedisFault
-----------------------------------------------------------------------------
(* The transactions of the worker.                                         *)

\* The claims a job may still see without a mishap, by its state.
LEMMA ForeseenCases ==
    ASSUME NEW j \in JobIds
    PROVE  /\ Returns(j) \in Nat /\ Foreseen(j) \in Nat
           /\ Foreseen(j) >= Returns(j)
           /\ job[j].state = "QUEUED" => Foreseen(j) = 1 + Returns(j)
           /\ job[j].state = "PROCESSING" => Foreseen(j) <= 1 + Returns(j)
           /\ job[j].state = "PROCESSING" /\ job[j].lease # "live"
                 => Foreseen(j) = 1 + Returns(j)
           /\ job[j].state = "PROCESSING" /\ ~ OwnerBusy(j)
                 => Foreseen(j) = 1 + Returns(j)
           /\ job[j].state = "PROCESSING" /\ job[j].lease = "live" /\ OwnerBusy(j)
                 => Foreseen(j) = Returns(j)
           /\ job[j].state \notin {"QUEUED", "PROCESSING"} => Foreseen(j) = Returns(j)
BY ReturnsAreCounted DEF Foreseen

\* The same after a step.
LEMMA ForeseenCasesNext ==
    ASSUME NEW j \in JobIds
    PROVE  /\ Returns(j)' \in Nat /\ Foreseen(j)' \in Nat
           /\ job'[j].state = "QUEUED" => Foreseen(j)' = 1 + Returns(j)'
           /\ job'[j].state = "PROCESSING" => Foreseen(j)' <= 1 + Returns(j)'
           /\ job'[j].state = "PROCESSING" /\ job'[j].lease = "live" /\ OwnerBusy(j)'
                 => Foreseen(j)' = Returns(j)'
           /\ job'[j].state \notin {"QUEUED", "PROCESSING"}
                 => Foreseen(j)' = Returns(j)'
BY ReturnsAreCounted DEF Foreseen

\* One row is replaced.
LEMMA RowReplaced ==
    ASSUME PipelineInv, NEW j \in JobIds, NEW row \in Jobs,
           job' = [job EXCEPT ![j] = row]
    PROVE  /\ job' \in [JobIds -> Jobs \cup {None}]
           /\ job'[j] = row
           /\ \A k \in JobIds : k # j => job'[k] = job[k]
BY DEF PipelineInv, Tables

\* The rows a step leaves as they are, as WorkerMoves wants them.
LEMMA OtherRows ==
    ASSUME PipelineInv, NEW w \in Workers, NEW j \in JobIds,
           \A k \in JobIds : k # j => job'[k] = job[k] /\ result'[k] = result[k],
           \A v \in Workers : v # w => worker'[v] = worker[v],
           \A k \in JobIds : k # j => ~ BusyWith(w, k)
    PROVE  \A k \in JobIds : k # j => Alike(k) /\ BusyKept(k)
<1> TAKE k \in JobIds
<1> HAVE k # j
<1>1. Alike(k)
  BY DEF Alike, Exists
<1>2. \A v \in Workers : OwnsClaim(v, k)' <=> OwnsClaim(v, k)
  BY DEF OwnsClaim
<1>3. \A v \in Workers : v # w /\ BusyWith(v, k) => BusyWith(v, k)'
  BY <1>2 DEF BusyWith, Ref
<1> QED BY <1>1, <1>3 DEF BusyKept

\* claim_processing_job, committed: either the worker is at work on the claim
\* afterwards, or a failed call has to account for it.
LEMMA ClaimKeeps ==
    ASSUME PipelineInv, NEW w \in Workers, NEW j \in JobIds, NEW p \in WorkerPcs,
           worker[w].pc = "claimed", worker[w].msg = Ref(j), Exists(j),
           job' = [job EXCEPT ![j] = ClaimedRow(w, j)],
           GoTo(w, p), p \in {"working", "unclaimed", "return"},
           UNCHANGED <<queueVars, result, api, ground>>, Counted,
           \/ p = "working"
           \/ result[j] # None \/ ~ Claimable(job[j])
           \/ Mishaps' >= Mishaps + 1
    PROVE  PipelineInv'
<1>1. /\ Tables /\ QueueTypeOK /\ References /\ WorkerOK(w) /\ JobOK(j)
      /\ Mishaps \in Nat /\ Mishaps' \in Nat /\ Mishaps' >= Mishaps
      /\ (NoLoss' <=> NoLoss) /\ MaxAttempts \in Nat /\ MaxAttempts >= 1
  BY MishapEffect, PipelineAssumption DEF PipelineInv, Tables, Counted
<1>2. QueueTypeOK' /\ OneReference' /\ MarkersKept /\ marker' = marker
  BY <1>1, QuietQueueCalls DEF MarkersKept
<1>3. PICK s \in [pc : WorkerPcs, msg : Entry \cup {None}] :
         /\ s.pc = p /\ s.msg = Ref(j) /\ worker'[w] = s
         /\ worker' \in [Workers -> [pc : WorkerPcs, msg : Entry \cup {None}]]
         /\ \A v \in Workers : v # w => worker'[v] = worker[v]
  BY GoToEffect
<1>4. /\ job[j].state \in ProcessingJobState /\ job[j].attempts \in Nat
      /\ job[j].owner \in Workers \cup {None, Gone}
      /\ job[j].lease \in {"none", "live", "expired"} /\ job[j].due \in BOOLEAN
  BY RowFields DEF Exists
<1> DEFINE row == ClaimedRow(w, j)
           Treated == /\ row \in Jobs
                      /\ (Alike(j) /\ BusyKept(j)) \/ Written(j)
                      /\ \A v \in Workers : v # w /\ OwnsClaim(v, j)' => OwnsClaim(v, j)
<1>5. ASSUME result[j] # None PROVE Treated
  <2>1. row = [job[j] EXCEPT !.state = "COMPLETE",
                 !.lease = IF job[j].state = "COMPLETE" THEN job[j].lease ELSE "none"]
    BY <1>5 DEF ClaimedRow
  <2>2. /\ row \in Jobs /\ row.state = "COMPLETE" /\ row.attempts = job[j].attempts
    BY <1>4, <2>1 DEF Exists, Jobs, ProcessingJobState
  <2>3. row \in Jobs /\ Written(j)
    <3>1. job'[j] = row /\ Exists(j)'
      BY <2>2, RowReplaced DEF Exists
    <3>2. job[j].state \in {"QUEUED", "COMPLETE"} /\ j \notin Corrupt
      BY <1>1, <1>5 DEF JobOK
    <3>3. job[j].attempts + Foreseen(j) <= MaxAttempts + Mishaps
      BY <1>1 DEF JobOK
    <3>4. Returns(j)' = Returns(j)
      BY ReturnsSame
    <3>5. job'[j].attempts + Foreseen(j)' <= MaxAttempts + Mishaps'
      BY <1>1, <1>4, <2>2, <3>1, <3>3, <3>4, ForeseenCases, ForeseenCasesNext
    <3>6. JobOK(j)'
      BY <1>5, <2>2, <3>1, <3>2, <3>5 DEF JobOK
    <3> QED BY <2>2, <3>1, <3>2, <3>6 DEF Written
  <2>4. \A v \in Workers : ~ OwnsClaim(v, j)'
    BY <2>2, <2>3, RowReplaced DEF OwnsClaim
  <2> QED BY <2>3, <2>4
<1>6. ASSUME result[j] = None, Claimable(job[j]) PROVE Treated
  <2>1. row = [state |-> "PROCESSING", attempts |-> job[j].attempts + 1, owner |-> w,
               lease |-> "live", due |-> FALSE]
    BY <1>6 DEF ClaimedRow
  <2>2. /\ row \in Jobs /\ row.state = "PROCESSING" /\ row.owner = w
        /\ row.attempts = job[j].attempts + 1 /\ row.lease = "live"
    BY <1>4, <2>1 DEF Jobs, ProcessingJobState
  <2>3. job'[j] = row /\ Exists(j)'
    BY <2>2, RowReplaced DEF Exists
  <2>4. Returns(j)' = Returns(j)
    BY ReturnsSame
  <2>5. job[j].attempts + 1 + Returns(j) <= MaxAttempts + Mishaps
    <3>1. job[j].attempts + Foreseen(j) <= MaxAttempts + Mishaps
      BY <1>1 DEF JobOK
    <3>2. CASE job[j].state = "QUEUED"
      BY <1>1, <1>4, <3>1, <3>2, ForeseenCases
    <3>3. CASE job[j].state = "PROCESSING" /\ job[j].lease = "expired"
      BY <1>1, <1>4, <3>1, <3>3, ForeseenCases
    <3>4. CASE job[j].state = "RETRY_WAIT"
      <4>1. job[j].attempts < MaxAttempts /\ Returns(j) <= Mishaps
        BY <1>1, <3>4 DEF JobOK, PipelineInv
      <4> QED BY <1>1, <1>4, <4>1, ForeseenCases
    <3> QED BY <1>6, <3>2, <3>3, <3>4 DEF Claimable
  <2>6. p = "working" => OwnerBusy(j)'
    BY <1>3, <2>2, <2>3 DEF OwnerBusy, Ref
  <2>7. \/ Foreseen(j)' = Returns(j)
        \/ Foreseen(j)' <= 1 + Returns(j) /\ Mishaps' >= Mishaps + 1
    BY <1>6, <2>2, <2>3, <2>4, <2>6, ForeseenCasesNext
  <2>8. job'[j].attempts + Foreseen(j)' <= MaxAttempts + Mishaps'
    <3>1. Returns(j) \in Nat /\ Foreseen(j)' \in Nat
      BY ForeseenCases, ForeseenCasesNext
    <3> QED BY <1>1, <1>4, <2>2, <2>3, <2>5, <2>7, <3>1
  <2>9. JobOK(j)'
    <3>1. NoLoss' => marker'[j] = Ref(j)'
      <4>1. job[j].state # "PENDING_QUEUE"
        BY <1>6 DEF Claimable
      <4> QED BY <1>1, <1>2, <1>6, <4>1 DEF JobOK, Ref
    <3> QED BY <1>6, <2>2, <2>3, <2>8, <3>1 DEF JobOK
  <2>10. Written(j)
    BY <1>6, <2>2, <2>3, <2>9 DEF Written, Claimable
  <2>11. \A v \in Workers : v # w => ~ OwnsClaim(v, j)'
    BY <2>2, <2>3 DEF OwnsClaim
  <2> QED BY <2>2, <2>10, <2>11
<1>7. ASSUME result[j] = None, ~ Claimable(job[j]) PROVE Treated
  <2>1. row = job[j]
    BY <1>7 DEF ClaimedRow
  <2>2. row \in Jobs /\ job'[j] = job[j]
    BY <2>1, RowReplaced DEF Exists
  <2>3. Alike(j)
    BY <2>2 DEF Alike, Exists
  <2>4. \A v \in Workers : OwnsClaim(v, j)' <=> OwnsClaim(v, j)
    BY <2>2 DEF OwnsClaim
  <2>5. ~ BusyWith(w, j) /\ \A v \in Workers : v # w /\ BusyWith(v, j) => BusyWith(v, j)'
    BY <1>3, <2>4 DEF BusyWith, Busy, Ref
  <2>6. BusyKept(j)
    BY <2>5 DEF BusyKept
  <2> QED BY <2>2, <2>3, <2>4, <2>6
<1>8. Treated
  BY <1>5, <1>6, <1>7
<1> HIDE DEF row
<1>9. /\ job' \in [JobIds -> Jobs \cup {None}] /\ Exists(j)'
      /\ \A k \in JobIds : k # j => job'[k] = job[k] /\ result'[k] = result[k]
  BY <1>8, RowReplaced DEF row, Exists
<1>10. \A k \in JobIds : k # j => Alike(k) /\ BusyKept(k)
  <2>1. \A k \in JobIds : ~ BusyWith(w, k)
    BY DEF BusyWith, Busy
  <2> QED BY <1>3, <1>9, <2>1, OtherRows
<1>11. \A v \in Workers : \A k \in JobIds :
          v # w /\ Exists(k) /\ OwnsClaim(v, k)' => OwnsClaim(v, k)
  BY <1>8, <1>9 DEF OwnsClaim
<1>12. WorkerOK(w)'
  <2>1. worker'[w].pc = p /\ worker'[w].msg = Ref(j)'
    BY <1>3 DEF Ref
  <2> QED BY <1>9, <2>1 DEF WorkerOK
<1>13. Tables'
  BY <1>1, <1>2, <1>3, <1>9 DEF Tables, ResultTable, Counted
<1> QED BY <1>2, <1>3, <1>8, <1>10, <1>11, <1>12, <1>13, WorkerMoves

\* complete_processing_job, committed.
LEMMA CompleteKeeps ==
    ASSUME PipelineInv, NEW w \in Workers, NEW j \in JobIds, NEW p \in WorkerPcs,
           worker[w].pc = "working", worker[w].msg = Ref(j), Exists(j),
           j \notin Corrupt, CompleteJob(w, j),
           GoTo(w, p), p \in {"ack", "failTemporary"},
           UNCHANGED <<queueVars, api, ground>>, Counted
    PROVE  PipelineInv'
<1>1. /\ Tables /\ QueueTypeOK /\ References /\ WorkerOK(w) /\ JobOK(j)
      /\ Mishaps \in Nat /\ Mishaps' \in Nat /\ Mishaps' >= Mishaps
      /\ (NoLoss' <=> NoLoss) /\ MaxAttempts \in Nat /\ MaxAttempts >= 1
  BY MishapEffect, PipelineAssumption DEF PipelineInv, Tables, Counted
<1>2. QueueTypeOK' /\ OneReference' /\ marker' = marker
  BY <1>1, QuietQueueCalls
<1>3. PICK s \in [pc : WorkerPcs, msg : Entry \cup {None}] :
         /\ s.pc = p /\ s.msg = Ref(j) /\ worker'[w] = s
         /\ worker' \in [Workers -> [pc : WorkerPcs, msg : Entry \cup {None}]]
         /\ \A v \in Workers : v # w => worker'[v] = worker[v]
  BY GoToEffect
<1>4. /\ job[j].state \in ProcessingJobState /\ job[j].attempts \in Nat
      /\ job[j] \in Jobs
  BY RowFields DEF Exists
<1>5. /\ ResultTable' /\ result'[j] # None
      /\ \A k \in JobIds : k # j => result'[k] = result[k]
      /\ result[j] # None => result'[j] = result[j]
  <2>1. result' = [result EXCEPT ![j] = IF result[j] = None THEN VersionOf[w]
                                        ELSE result[j]]
    BY DEF CompleteJob
  <2>2. ResultTable' /\ \A k \in JobIds : result[k] # None => result'[k] = result[k]
    BY <1>1, CompleteJobFillsEmptyPlace DEF Tables
  <2>3. result \in [JobIds -> Versions]
    BY <1>1 DEF Tables, ResultTable
  <2> QED BY <2>1, <2>2, <2>3, RowAssumption
<1> DEFINE row == [job[j] EXCEPT !.state = "COMPLETE", !.lease = "none", !.due = FALSE]
<1>6. /\ row \in Jobs /\ row.state = "COMPLETE" /\ row.attempts = job[j].attempts
  BY <1>4 DEF Jobs, ProcessingJobState
<1>7. job' = [job EXCEPT ![j] = row]
  BY <1>1, <1>4 DEF CompleteJob, Tables
<1> HIDE DEF row
<1>8. /\ job' \in [JobIds -> Jobs \cup {None}] /\ job'[j] = row /\ Exists(j)'
      /\ \A k \in JobIds : k # j => job'[k] = job[k]
  BY <1>6, <1>7, RowReplaced DEF Exists
<1>9. Written(j)
  <2>1. job[j].state # "PENDING_QUEUE"
    BY <1>1 DEF CompleteJob, CanComplete, JobOK, OwnsClaim
  <2>2. Returns(j)' = Returns(j)
    BY ReturnsSame
  <2>3. job[j].attempts + Foreseen(j) <= MaxAttempts + Mishaps
    BY <1>1 DEF JobOK
  <2>4. job'[j].attempts + Foreseen(j)' <= MaxAttempts + Mishaps'
    BY <1>1, <1>4, <1>6, <1>8, <2>2, <2>3, ForeseenCases, ForeseenCasesNext
  <2>5. JobOK(j)'
    BY <1>5, <1>6, <1>8, <2>4 DEF JobOK
  <2> QED BY <1>5, <1>6, <1>8, <2>1, <2>5 DEF Written
<1>10. \A v \in Workers : ~ OwnsClaim(v, j)'
  BY <1>6, <1>8 DEF OwnsClaim
<1>11. \A k \in JobIds : k # j => Alike(k) /\ BusyKept(k)
  <2>1. \A k \in JobIds : k # j => ~ BusyWith(w, k)
    BY RefIsMessage DEF BusyWith
  <2> QED BY <1>3, <1>5, <1>8, <2>1, OtherRows
<1>12. \A v \in Workers : \A k \in JobIds :
          v # w /\ Exists(k) /\ OwnsClaim(v, k)' => OwnsClaim(v, k)
  BY <1>8, <1>10 DEF OwnsClaim
<1>13. WorkerOK(w)'
  <2>1. worker'[w].pc = p /\ worker'[w].msg = Ref(j)'
    BY <1>3 DEF Ref
  <2> QED BY <1>5, <1>8, <1>10, <2>1 DEF WorkerOK
<1>14. Tables' /\ MarkersKept
  BY <1>1, <1>2, <1>3, <1>5, <1>8 DEF Tables, Counted, MarkersKept
<1> QED BY <1>2, <1>3, <1>9, <1>11, <1>12, <1>13, <1>14, WorkerMoves

\* fail_processing_attempt, committed by the owner of the claim.
LEMMA FailKeeps ==
    ASSUME PipelineInv, NEW w \in Workers, NEW j \in JobIds, NEW temporary \in BOOLEAN,
           worker[w].msg = Ref(j), Exists(j), OwnsClaim(w, j),
           ~ temporary => j \in Corrupt, temporary => Mishaps' >= 1,
           job' = [job EXCEPT ![j] = FailedRow(j, temporary)],
           NEW s \in [pc : WorkerPcs, msg : Entry \cup {None}],
           worker' = [worker EXCEPT ![w] = s], WorkerOK(w)',
           UNCHANGED <<queueVars, result, api, ground>>, Counted
    PROVE  PipelineInv'
<1>1. /\ Tables /\ QueueTypeOK /\ References /\ JobOK(j)
      /\ Mishaps \in Nat /\ Mishaps' \in Nat /\ Mishaps' >= Mishaps
      /\ (NoLoss' <=> NoLoss) /\ MaxAttempts \in Nat /\ MaxAttempts >= 1
  BY MishapEffect, PipelineAssumption DEF PipelineInv, Tables, Counted
<1>2. QueueTypeOK' /\ OneReference' /\ marker' = marker
  BY <1>1, QuietQueueCalls
<1>3. /\ worker' \in [Workers -> [pc : WorkerPcs, msg : Entry \cup {None}]]
      /\ \A v \in Workers : v # w => worker'[v] = worker[v]
  BY <1>1 DEF Tables
<1>4. /\ job[j].state \in ProcessingJobState /\ job[j].attempts \in Nat
      /\ job[j] \in Jobs /\ job[j].state = "PROCESSING"
  BY RowFields DEF Exists, OwnsClaim
<1>5. result[j] = None
  BY <1>1, <1>4 DEF JobOK
<1> DEFINE row == FailedRow(j, temporary)
           new == IF ~ temporary \/ Exhausted(j) THEN "FAILED" ELSE "RETRY_WAIT"
<1>6. new \in {"FAILED", "RETRY_WAIT"}
  OBVIOUS
<1>7. /\ new = "FAILED" => j \in Corrupt \/ job[j].attempts >= MaxAttempts
      /\ new = "RETRY_WAIT" => job[j].attempts < MaxAttempts /\ Mishaps' >= 1
  BY <1>1, <1>4 DEF Exhausted
<1>8. row = [job[j] EXCEPT !.lease = "none", !.due = FALSE, !.state = new]
  BY DEF FailedRow
<1> HIDE DEF new
<1>9. row \in Jobs /\ row.state = new /\ row.attempts = job[j].attempts
  BY <1>4, <1>6, <1>8 DEF Jobs, ProcessingJobState
<1> HIDE DEF row
<1>10. /\ job' \in [JobIds -> Jobs \cup {None}] /\ job'[j] = row /\ Exists(j)'
       /\ \A k \in JobIds : k # j => job'[k] = job[k]
  BY <1>9, RowReplaced DEF Exists, row
<1>11. Written(j)
  <2>1. Returns(j)' = Returns(j)
    BY ReturnsSame
  <2>2. job[j].attempts + Foreseen(j) <= MaxAttempts + Mishaps
    BY <1>1 DEF JobOK
  <2>3. job'[j].attempts + Foreseen(j)' <= MaxAttempts + Mishaps'
    BY <1>1, <1>4, <1>6, <1>9, <1>10, <2>1, <2>2, ForeseenCases, ForeseenCasesNext
  <2>4. NoLoss' => marker'[j] = Ref(j)'
    BY <1>1, <1>2, <1>4, <1>5 DEF JobOK, Ref
  <2>5. JobOK(j)'
    BY <1>5, <1>6, <1>7, <1>9, <1>10, <2>3, <2>4 DEF JobOK
  <2> QED BY <1>4, <1>5, <1>6, <1>9, <1>10, <2>5 DEF Written
<1>12. \A k \in JobIds : k # j => Alike(k) /\ BusyKept(k)
  <2>1. \A k \in JobIds : k # j => ~ BusyWith(w, k)
    BY RefIsMessage DEF BusyWith
  <2> QED BY <1>3, <1>10, <2>1, OtherRows
<1>13. \A v \in Workers : \A k \in JobIds :
          v # w /\ Exists(k) /\ OwnsClaim(v, k)' => OwnsClaim(v, k)
  BY <1>6, <1>9, <1>10 DEF OwnsClaim
<1>14. Tables' /\ MarkersKept
  BY <1>1, <1>2, <1>3, <1>10 DEF Tables, Counted, MarkersKept, ResultTable
<1> QED BY <1>2, <1>3, <1>11, <1>12, <1>13, <1>14, WorkerMoves

\* claim_processing_job, processing and fail_processing_attempt.
LEMMA TransactionsKeep ==
    ASSUME PipelineInv, NEW w \in Workers, ClaimJob(w) \/ Process(w) \/ FailAttempt(w)
    PROVE  PipelineInv'
<1>1. Tables /\ QueueTypeOK /\ References /\ WorkerOK(w) /\ Mishaps \in Nat
  BY MishapEffect DEF PipelineInv, Tables
<1>2. UNCHANGED <<queueVars, spent, api, ground>>
  BY DEF ClaimJob, Process, FailAttempt
<1>3. Counted /\ Mishaps' = Mishaps
  BY <1>1, <1>2, CountersKept, MishapEffect
<1>4. QueueTypeOK' /\ OneReference' /\ MarkersKept
  BY <1>1, <1>2, QuietQueueCalls DEF MarkersKept
<1>5. PICK j \in JobIds :
         /\ worker[w].msg = Ref(j) /\ Held(w) = j /\ Exists(j)
         /\ worker[w].pc = "failPermanent" => j \in Corrupt
         /\ worker[w].pc = "failTemporary" => Mishaps >= 1 \/ ~ OwnsClaim(w, j)
  BY Carrier DEF ClaimJob, Process, FailAttempt, At
<1>6. WorkerPcs = {"down", "idle", "quarantine", "claimed", "unclaimed", "finish",
         "park", "giveBack", "return", "working", "ack", "failTemporary",
         "failPermanent", "deadLetter", "backoff"}
  BY DEF WorkerPcs
<1>7. CASE ClaimJob(w)
  <2>1. /\ worker[w].pc = "claimed" /\ UNCHANGED result
        /\ job' = [job EXCEPT ![j] = ClaimedRow(w, j)]
    BY <1>5, <1>7 DEF ClaimJob, At
  <2>2. CASE result[j] = None /\ Claimable(job[j])
    <3>1. GoTo(w, "working")
      BY <1>5, <1>7, <2>2 DEF ClaimJob
    <3> QED BY <1>2, <1>3, <1>5, <1>6, <2>1, <3>1, ClaimKeeps
  <2>3. CASE ~ (result[j] = None /\ Claimable(job[j]))
    <3>1. GoTo(w, "unclaimed")
      BY <1>5, <1>7, <2>3 DEF ClaimJob
    <3> QED BY <1>2, <1>3, <1>5, <1>6, <2>1, <2>3, <3>1, ClaimKeeps
  <2> QED BY <2>2, <2>3
<1>8. CASE Process(w)
  <2>1. /\ worker[w].pc = "working"
        /\ \/ j \in Corrupt /\ GoTo(w, "failPermanent") /\ UNCHANGED <<job, result>>
           \/ j \notin Corrupt /\ CompleteJob(w, j) /\ GoTo(w, "ack")
           \/ /\ ~ CanComplete(w, j)
              /\ GoTo(w, "failTemporary") /\ UNCHANGED <<job, result>>
    BY <1>5, <1>8 DEF Process, At, durable
  <2>2. CASE j \in Corrupt /\ GoTo(w, "failPermanent") /\ UNCHANGED <<job, result>>
    BY <1>2, <1>3, <1>4, <1>5, <1>6, <2>2, GoToStep DEF Busy
  <2>3. CASE j \notin Corrupt /\ CompleteJob(w, j) /\ GoTo(w, "ack")
    BY <1>2, <1>3, <1>5, <1>6, <2>1, <2>3, CompleteKeeps
  <2>4. CASE /\ ~ CanComplete(w, j)
             /\ GoTo(w, "failTemporary") /\ UNCHANGED <<job, result>>
    <3>1. ~ OwnsClaim(w, j)
      BY <1>5, <2>4 DEF PipelineInv, JobOK, CanComplete, OwnsClaim
    <3> QED BY <1>2, <1>3, <1>4, <1>5, <1>6, <2>4, <3>1, GoToStep DEF Busy
  <2> QED BY <2>1, <2>2, <2>3, <2>4
<1>9. CASE FailAttempt(w)
  <2> DEFINE temporary == worker[w].pc = "failTemporary"
  <2>1. worker[w].pc \in {"failTemporary", "failPermanent"}
    BY <1>9 DEF FailAttempt, At
  <2>2. CASE job[j].state = "FAILED" /\ GoTo(w, "deadLetter") /\ UNCHANGED <<job, result>>
    <3>1. ~ OwnsClaim(w, j)
      BY <2>2 DEF OwnsClaim
    <3> QED BY <1>2, <1>3, <1>4, <1>5, <1>6, <2>2, <3>1, GoToStep
  <2>3. CASE ~ OwnsClaim(w, j) /\ Die(w)
    <3>1. \A k \in JobIds : ~ BusyWith(w, k)
      BY <1>5, <2>3, RefIsMessage DEF BusyWith
    <3> QED BY <1>2, <1>3, <1>4, <2>3, <3>1, DyingStep
  <2>4. CASE /\ OwnsClaim(w, j) /\ job' = [job EXCEPT ![j] = FailedRow(j, temporary)]
             /\ UNCHANGED result
             /\ GoTo(w, "deadLetter") \/ GoTo(w, "backoff")
    <3>1. PICK p \in {"deadLetter", "backoff"} : GoTo(w, p)
      BY <2>4
    <3>2. PICK s \in [pc : WorkerPcs, msg : Entry \cup {None}] :
             /\ worker' = [worker EXCEPT ![w] = s]
             /\ s.pc = p /\ s.msg = worker[w].msg /\ worker'[w] = s
      BY <1>6, <3>1, GoToEffect
    <3>3. FailedRow(j, temporary) \in Jobs
      BY <1>5, RowFields DEF FailedRow, Exists, Jobs, ProcessingJobState
    <3>4. WorkerOK(w)'
      <4>1. Exists(j)'
        BY <2>4, <3>3, RowReplaced DEF Exists
      <4>2. worker'[w].msg = Ref(j)' /\ worker'[w].pc \in {"deadLetter", "backoff"}
        BY <1>5, <3>2 DEF Ref
      <4> QED BY <4>1, <4>2 DEF WorkerOK
    <3>5. (~ temporary => j \in Corrupt) /\ (temporary => Mishaps' >= 1)
      BY <1>3, <1>5, <2>1, <2>4
    <3> HIDE DEF temporary
    <3>6. temporary \in BOOLEAN
      BY DEF temporary
    <3> QED BY <1>2, <1>3, <1>5, <2>4, <3>2, <3>4, <3>5, <3>6, FailKeeps
  <2> QED BY <1>5, <1>9, <2>2, <2>3, <2>4 DEF FailAttempt, durable, At
<1> QED BY <1>7, <1>8, <1>9

\* The same when the call to the database fails, before or after its effect.
LEMMA DatabaseFaultKeeps ==
    ASSUME PipelineInv, NEW w \in Workers, DatabaseFault(w)
    PROVE  PipelineInv'
<1>1. Tables /\ QueueTypeOK /\ References /\ WorkerOK(w) /\ Mishaps \in Nat
  BY MishapEffect DEF PipelineInv, Tables
<1>2. UNCHANGED <<queueVars, api, ground>> /\ Spend("faults")
  BY DEF DatabaseFault
<1>3. Counted /\ Mishaps' = Mishaps + 1 /\ Mishaps' >= Mishaps + 1 /\ Mishaps' >= 1
  BY <1>1, <1>2, CountersKept, MishapEffect, BudgetNames
<1>4. QueueTypeOK' /\ OneReference' /\ MarkersKept
  BY <1>1, <1>2, QuietQueueCalls DEF MarkersKept
<1>5. PICK j \in JobIds :
         /\ worker[w].msg = Ref(j) /\ Held(w) = j /\ Exists(j)
         /\ worker[w].pc = "failPermanent" => j \in Corrupt
  BY Carrier DEF DatabaseFault, At
<1>6. WorkerPcs = {"down", "idle", "quarantine", "claimed", "unclaimed", "finish",
         "park", "giveBack", "return", "working", "ack", "failTemporary",
         "failPermanent", "deadLetter", "backoff"}
  BY DEF WorkerPcs
<1>7. CASE UNCHANGED <<job, result>> /\ GoTo(w, "return")
  BY <1>2, <1>3, <1>4, <1>5, <1>6, <1>7, GoToStep
<1>8. CASE /\ worker[w].pc = "claimed" /\ job' = [job EXCEPT ![j] = ClaimedRow(w, j)]
           /\ GoTo(w, "return") /\ UNCHANGED result
  BY <1>2, <1>3, <1>5, <1>6, <1>8, ClaimKeeps
<1>9. CASE UNCHANGED <<job, result>> /\ GoTo(w, "failTemporary")
  BY <1>2, <1>3, <1>4, <1>5, <1>6, <1>9, GoToStep
<1>10. CASE /\ worker[w].pc = "working" /\ j \notin Corrupt /\ CompleteJob(w, j)
            /\ GoTo(w, "failTemporary")
  BY <1>2, <1>3, <1>5, <1>6, <1>10, CompleteKeeps
<1>11. CASE UNCHANGED <<job, result>> /\ BackToLoop(w)
  BY <1>2, <1>3, <1>4, <1>11, IdleStep
<1>12. CASE /\ worker[w].pc \in {"failTemporary", "failPermanent"} /\ OwnsClaim(w, j)
            /\ job' = [job EXCEPT ![j] = FailedRow(j, worker[w].pc = "failTemporary")]
            /\ BackToLoop(w) /\ UNCHANGED result
  <2> DEFINE temporary == worker[w].pc = "failTemporary"
  <2>1. /\ ~ temporary => j \in Corrupt
        /\ job' = [job EXCEPT ![j] = FailedRow(j, temporary)]
        /\ temporary \in BOOLEAN
    BY <1>5, <1>12
  <2> HIDE DEF temporary
  <2> QED BY <1>2, <1>3, <1>5, <1>12, <2>1, IdleEffect, FailKeeps
<1> QED BY <1>5, <1>7, <1>8, <1>9, <1>10, <1>11, <1>12 DEF DatabaseFault, durable, At
-----------------------------------------------------------------------------
(* Steps of ground-api, of time and of the environment.                    *)

\* A row nobody touches.
LEMMA UntouchedRow ==
    ASSUME NEW k \in JobIds, job'[k] = job[k], result'[k] = result[k], UNCHANGED worker
    PROVE  Alike(k) /\ BusyKept(k)
<1>1. Alike(k)
  BY DEF Alike, Exists
<1>2. \A v \in Workers : BusyWith(v, k) => BusyWith(v, k)'
  BY DEF BusyWith, OwnsClaim, Ref
<1> QED BY <1>1, <1>2 DEF BusyKept

\* A step outside the workers keeps the invariant when it forgets no reference
\* unless Redis loses its data, takes no claim away from its owner to give it to
\* another, and treats the rows, the handlers and the recovery properly.
LEMMA GroundMoves ==
    ASSUME PipelineInv, Tables', OneReference', UNCHANGED <<worker, result>>,
           Mishaps' >= Mishaps, NoLoss' => NoLoss,
           \A k \in JobIds : Exists(k) => Exists(k)',
           \A k \in JobIds : \/ marker'[k] \in {NoMarker, marker[k]}
                             \/ marker'[k] = Ref(k) /\ Exists(k),
           NoLoss' => \A k \in JobIds : marker[k] # NoMarker => marker'[k] = marker[k],
           \A v \in Workers : \A k \in JobIds :
              Exists(k) /\ OwnsClaim(v, k)' => OwnsClaim(v, k),
           \A k \in JobIds : \/ Alike(k) /\ BusyKept(k) /\ ReturnsKept(k)
                             \/ JobOK(k)' /\ Returns(k)' <= Mishaps',
           \A h \in Handlers : HandlerOK(h)',
           RecoveryOK'
    PROVE  PipelineInv'
<1>1. /\ Tables /\ References /\ Mishaps \in Nat /\ Mishaps' \in Nat
      /\ \A j \in JobIds : JobOK(j) /\ Returns(j) <= Mishaps
      /\ \A v \in Workers : WorkerOK(v)
  <2>1. Tables /\ Mishaps \in Nat
    BY MishapEffect DEF PipelineInv
  <2>2. spent' \in [{"resubmits", "groundStops", "workerStops", "faults", "slow", "losses"}
                     -> Nat]
    BY BudgetNames DEF Tables, Budget, Budgets
  <2>3. Mishaps' \in Nat
    BY <2>2 DEF Mishaps
  <2> QED BY <2>1, <2>3 DEF PipelineInv
<1>2. References'
  <2>1. ASSUME NEW k \in JobIds
        PROVE  /\ marker'[k] \in {NoMarker, Ref(k)}
               /\ marker'[k] # NoMarker => Exists(k)'
    BY <1>1 DEF References
  <2> QED BY <2>1 DEF References, Ref
<1>3. \A k \in JobIds : NoLoss' /\ marker[k] = Ref(k) => marker'[k] = Ref(k)
  BY RefIsMessage
<1>4. ASSUME NEW k \in JobIds PROVE JobOK(k)' /\ Returns(k)' <= Mishaps'
  <2>1. CASE Alike(k) /\ BusyKept(k) /\ ReturnsKept(k)
    BY <1>1, <1>3, <2>1, JobFrame
  <2> QED BY <2>1
<1>5. ASSUME NEW v \in Workers PROVE WorkerOK(v)'
  BY <1>1, WorkerFrame
<1> QED BY <1>2, <1>4, <1>5 DEF PipelineInv

\* The same for a step that leaves the database and the startup alone.
LEMMA QuietGroundStep ==
    ASSUME PipelineInv, Tables', OneReference', UNCHANGED <<worker, result, job, ground>>,
           Mishaps' >= Mishaps, NoLoss' => NoLoss,
           \A k \in JobIds : \/ marker'[k] \in {NoMarker, marker[k]}
                             \/ marker'[k] = Ref(k) /\ Exists(k),
           NoLoss' => \A k \in JobIds : marker[k] # NoMarker => marker'[k] = marker[k],
           \A h \in Handlers : HandlerOK(h)' \/ api'[h] = api[h],
           \A k \in JobIds : ReturnsKept(k)
    PROVE  PipelineInv'
<1>1. /\ \A k \in JobIds : Exists(k)' <=> Exists(k)
      /\ \A v \in Workers : \A k \in JobIds : OwnsClaim(v, k)' <=> OwnsClaim(v, k)
  BY DEF Exists, OwnsClaim
<1>2. \A k \in JobIds : NoLoss' /\ marker[k] = Ref(k) => marker'[k] = Ref(k)
  BY RefIsMessage
<1>3. ASSUME NEW h \in Handlers, api'[h] = api[h] PROVE HandlerOK(h)'
  <2>1. HandlerOK(h)
    BY DEF PipelineInv
  <2> QED BY <1>1, <1>2, <1>3, <2>1, HandlerFrame
<1>4. RecoveryOK'
  <2>1. RecoveryOK /\ ground.todo \subseteq JobIds
    BY DEF PipelineInv, Tables
  <2> QED BY <1>1, <1>2, <2>1, RecoveryFrame
<1> QED BY <1>1, <1>3, <1>4, UntouchedRow, GroundMoves

\* One handler moves: whether it may take its job back afterwards, and that the
\* others are where they were.
LEMMA OneHandlerMoves ==
    ASSUME PipelineInv, NEW h \in Handlers, NEW s \in HandlerStates,
           api' = [api EXCEPT ![h] = s], UNCHANGED ground, NEW k \in JobIds
    PROVE  /\ api' \in [Handlers -> HandlerStates] /\ api'[h] = s
           /\ \A g \in Handlers : g # h => api'[g] = api[g]
           /\ Returns(k)' <= Returns(k) + 1
           /\ (\/ ~ (s.pc = "read" \/ Queueable(s.held)) \/ s.job # k
               \/ h \in Replays(k))
                 => Returns(k)' <= Returns(k)
           /\ h \in Replays(k) /\ s.job # k => Returns(k)' = Returns(k) - 1
<1>1. /\ api' \in [Handlers -> HandlerStates] /\ api'[h] = s
      /\ \A g \in Handlers : g # h => api'[g] = api[g]
  BY DEF PipelineInv, Tables
<1>2. Threatened(k)' <=> Threatened(k)
  BY DEF Threatened, Recovering
<1>3. \A g \in Handlers : g # h => (g \in Replays(k)' <=> g \in Replays(k))
  BY <1>1 DEF Replays, Queueable
<1>4. h \in Replays(k)' <=> s.job = k /\ (s.pc = "read" \/ Queueable(s.held))
  BY <1>1 DEF Replays, Queueable
<1>5. Replays(k) \subseteq Handlers /\ Replays(k)' \subseteq Handlers
  BY DEF Replays
<1>6. Returns(k)' <= Returns(k) + 1
  <2>1. Replays(k)' \subseteq Replays(k) \cup {h}
    BY <1>3, <1>5
  <2>2. /\ IsFiniteSet(Replays(k) \cup {h})
        /\ Cardinality(Replays(k) \cup {h}) \in {Cardinality(Replays(k)), Cardinality(Replays(k)) + 1}
    BY ReturnsAreCounted, FS_AddElement
  <2>3. Cardinality(Replays(k)') <= Cardinality(Replays(k) \cup {h})
    BY <2>1, <2>2, FS_Subset
  <2> QED BY <1>2, <2>2, <2>3, ReturnsAreCounted DEF Returns
<1>7. ASSUME h \in Replays(k)' => h \in Replays(k)
      PROVE  Returns(k)' <= Returns(k)
  <2>1. Replays(k)' \subseteq Replays(k)
    BY <1>3, <1>5, <1>7
  <2> QED BY <1>2, <2>1, ReturnsShrink
<1>8. ASSUME h \in Replays(k), s.job # k PROVE Returns(k)' = Returns(k) - 1
  <2>1. Replays(k)' = Replays(k) \ {h}
    BY <1>3, <1>4, <1>5, <1>8
  <2>2. Cardinality(Replays(k) \ {h}) = Cardinality(Replays(k)) - 1
    BY <1>8, ReturnsAreCounted, FS_RemoveElement
  <2> QED BY <1>2, <2>1, <2>2, ReturnsAreCounted DEF Returns
<1> QED BY <1>1, <1>4, <1>6, <1>7, <1>8

\* A handler or nobody calls the queue: Resubmit, ApiRead, ApiEnqueue, ApiFault and
\* a foreign entry leave the database and the startup alone.
LEMMA HandlerQueueStepsKeep ==
    ASSUME PipelineInv,
           \/ \E h \in Handlers : \/ \E j \in JobIds : Resubmit(h, j)
                                  \/ ApiRead(h) \/ ApiEnqueue(h) \/ ApiFault(h)
           \/ ForeignEntry \/ UNCHANGED pipelineVars
    PROVE  PipelineInv'
<1>1. /\ Tables /\ QueueTypeOK /\ References /\ Mishaps \in Nat
      /\ api \in [Handlers -> HandlerStates]
  BY MishapEffect DEF PipelineInv, Tables
<1>2. UNCHANGED <<worker, result, job, ground>>
  BY DEF Resubmit, ApiRead, ApiEnqueue, ApiFault, ForeignEntry, pipelineVars, durable
<1>3. Counted
  BY <1>1, BudgetNames, CountersKept
     DEF Resubmit, ApiRead, ApiEnqueue, ApiFault, ForeignEntry, pipelineVars
<1>4. CASE ForeignEntry \/ UNCHANGED pipelineVars
  <2>1. QueueTypeOK' /\ OneReference' /\ UNCHANGED marker
    BY <1>1, <1>4, QuietQueueCalls DEF ForeignEntry, pipelineVars
  <2>2. UNCHANGED api
    BY <1>4 DEF ForeignEntry, pipelineVars
  <2>3. Tables'
    BY <1>1, <1>2, <1>3, <2>1, <2>2 DEF Tables, ResultTable, Counted
  <2>4. Mishaps' >= Mishaps /\ (NoLoss' => NoLoss)
    BY <1>3 DEF Counted
  <2>5. \A k \in JobIds : ReturnsKept(k)
    BY <1>2, <2>2, ReturnsSame, ReturnsAreCounted DEF ReturnsKept
  <2> QED BY <1>2, <2>1, <2>2, <2>3, <2>4, <2>5, QuietGroundStep
<1>5. ASSUME NEW h \in Handlers, NEW s \in HandlerStates, NEW j \in JobIds, Exists(j),
             api' = [api EXCEPT ![h] = s],
             Enqueue(Ref(j)) \/ UNCHANGED queueVars,
             s = HandlerIdle \/ (s.pc # "idle" /\ s.job = j /\ ground.pc = "up"),
             s.pc = "mark" => Enqueue(Ref(j)),
             \/ ~ (s.pc = "read" \/ Queueable(s.held))
             \/ s.job = None
             \/ h \in Replays(j)
             \/ Mishaps' >= Mishaps + 1
      PROVE  PipelineInv'
  <2>1. /\ QueueTypeOK' /\ OneReference'
        /\ s.pc = "mark" => marker'[j] = Ref(j)
        /\ \A k \in JobIds : marker[k] # NoMarker => marker'[k] = marker[k]
        /\ \A k \in JobIds : marker'[k] = marker[k] \/ (marker'[k] = Ref(k) /\ Exists(k))
    <3>1. CASE Enqueue(Ref(j))
      <4>1. /\ QueueTypeOK' /\ OneReference' /\ marker'[j] = Ref(j)
            /\ \A k \in JobIds : k # j => marker'[k] = marker[k]
        BY <1>1, <3>1, EnqueueCall
      <4>2. marker[j] \in {NoMarker, Ref(j)}
        BY <1>1 DEF References
      <4> QED BY <1>5, <4>1, <4>2
    <3>2. CASE UNCHANGED queueVars
      <4>1. QueueTypeOK' /\ OneReference' /\ UNCHANGED marker
        BY <1>1, <3>2, QuietQueueCalls
      <4>2. Enqueue(Ref(j)) => marker'[j] = Ref(j)
        BY <1>1, EnqueueCall
      <4> QED BY <1>5, <4>1, <4>2
    <3> QED BY <1>5, <3>1, <3>2
  <2>2. /\ api' \in [Handlers -> HandlerStates]
        /\ api'[h] = s /\ \A g \in Handlers : g # h => api'[g] = api[g]
    BY <1>1, <1>5
  <2>3. Tables'
    BY <1>1, <1>2, <1>3, <2>1, <2>2 DEF Tables, ResultTable, Counted
  <2>4. HandlerOK(h)'
    <3>1. CASE s = HandlerIdle
      BY <2>2, <3>1 DEF HandlerOK, HandlerIdle
    <3>2. CASE s.pc # "idle" /\ s.job = j /\ ground.pc = "up"
      <4>1. Exists(j)' /\ Ref(j)' = Ref(j)
        BY <1>2, <1>5 DEF Exists, Ref
      <4> QED BY <1>2, <2>1, <2>2, <3>2, <4>1 DEF HandlerOK
    <3> QED BY <1>5, <3>1, <3>2
  <2>5. ASSUME NEW k \in JobIds PROVE ReturnsKept(k)
    <3>1. s.job \in {j, None} /\ None \notin JobIds
      BY <1>5, PipelineAssumption DEF HandlerIdle
    <3>2. /\ Returns(k)' <= Returns(k) + 1
          /\ (\/ ~ (s.pc = "read" \/ Queueable(s.held)) \/ s.job # k
              \/ h \in Replays(k))
                => Returns(k)' <= Returns(k)
      BY <1>2, <1>5, OneHandlerMoves
    <3>3. CASE Mishaps' >= Mishaps + 1
      BY <1>2, <3>2, <3>3 DEF ReturnsKept
    <3>4. CASE ~ (Mishaps' >= Mishaps + 1)
      BY <1>5, <3>1, <3>2, <3>4 DEF ReturnsKept
    <3> QED BY <3>3, <3>4
  <2> QED BY <1>2, <1>3, <2>1, <2>2, <2>3, <2>4, <2>5, QuietGroundStep DEF Counted
<1>6. ASSUME NEW h \in Handlers, NEW j \in JobIds, Resubmit(h, j) PROVE PipelineInv'
  <2>1. PICK pc \in {"read", "enqueue"} :
           api' = [api EXCEPT ![h] = [pc |-> pc, job |-> j, held |-> None]]
    BY <1>6 DEF Resubmit
  <2>2. /\ ground.pc = "up" /\ job[j] # None /\ UNCHANGED queueVars
        /\ Spend("resubmits")
    BY <1>6 DEF Resubmit
  <2>3. Exists(j)
    BY <1>1, <2>2 DEF Tables, Exists
  <2>4. Mishaps' >= Mishaps + 1
    BY <1>1, <2>2, MishapEffect
  <2> DEFINE s == [pc |-> pc, job |-> j, held |-> None]
  <2>5. s \in HandlerStates /\ s.pc \notin {"idle", "mark"} /\ s.job = j
    BY DEF HandlerStates
  <2> HIDE DEF s
  <2> QED BY <1>5, <2>1, <2>2, <2>3, <2>4, <2>5 DEF s
<1>7. ASSUME NEW h \in Handlers, api[h].pc # "idle"
      PROVE  /\ ground.pc = "up" /\ api[h].job \in JobIds /\ Exists(api[h].job)
             /\ api[h] = [pc |-> api[h].pc, job |-> api[h].job, held |-> api[h].held]
             /\ api[h] \in HandlerStates
  BY <1>1, <1>7 DEF PipelineInv, HandlerOK, HandlerStates
<1>8. ASSUME NEW h \in Handlers, ApiRead(h) PROVE PipelineInv'
  <2> DEFINE j == api[h].job
             s == [pc |-> "enqueue", job |-> j, held |-> job[j].state]
  <2>1. api[h].pc = "read" /\ UNCHANGED queueVars /\ api' = [api EXCEPT ![h] = s]
    BY <1>8 DEF ApiRead
  <2>2. /\ ground.pc = "up" /\ j \in JobIds /\ Exists(j)
    BY <1>7, <2>1
  <2>3. s \in HandlerStates
    BY <2>2, RowFields DEF HandlerStates, Exists
  <2>4. h \in Replays(j)
    BY <2>1 DEF Replays
  <2>5. s.pc = "enqueue" /\ s.job = j
    OBVIOUS
  <2> HIDE DEF s, j
  <2> QED BY <1>5, <2>1, <2>2, <2>3, <2>4, <2>5
<1>9. ASSUME NEW h \in Handlers, ApiEnqueue(h) PROVE PipelineInv'
  <2> DEFINE j == api[h].job
             s == [pc |-> "mark", job |-> j, held |-> api[h].held]
  <2>1. /\ api[h].pc = "enqueue" /\ Enqueue(Ref(j))
        /\ api' = [api EXCEPT ![h].pc = "mark"]
    BY <1>9 DEF ApiEnqueue
  <2>2. /\ ground.pc = "up" /\ j \in JobIds /\ Exists(j)
    BY <1>7, <2>1
  <2>3. s \in HandlerStates /\ s.pc = "mark" /\ s.job = j /\ s.held = api[h].held
    BY <1>1 DEF HandlerStates
  <2>4. api' = [api EXCEPT ![h] = s]
    <3>1. api[h] \in HandlerStates
      BY <1>1
    <3>2. [api[h] EXCEPT !.pc = "mark"] = s
      BY <3>1 DEF HandlerStates
    <3> QED BY <1>1, <2>1, <3>2
  <2>5. Queueable(s.held) => h \in Replays(j)
    BY <2>3 DEF Replays
  <2> HIDE DEF s, j
  <2> QED BY <1>5, <2>1, <2>2, <2>3, <2>4, <2>5
<1>10. ASSUME NEW h \in Handlers, ApiFault(h) PROVE PipelineInv'
  <2> DEFINE j == api[h].job
  <2>1. /\ api' = [api EXCEPT ![h] = HandlerIdle] /\ api[h].pc # "idle"
        /\ Enqueue(Ref(j)) \/ UNCHANGED queueVars
    BY <1>10 DEF ApiFault
  <2>2. j \in JobIds /\ Exists(j)
    BY <1>7, <2>1
  <2>3. HandlerIdle \in HandlerStates /\ HandlerIdle.pc = "idle" /\ HandlerIdle.job = None
    BY DEF HandlerIdle, HandlerStates
  <2> HIDE DEF j
  <2> QED BY <1>5, <2>1, <2>2, <2>3
<1> QED BY <1>4, <1>6, <1>8, <1>9, <1>10

\* A new row is PENDING_QUEUE and nothing refers to it yet.
LEMMA SubmitKeeps ==
    ASSUME PipelineInv, NEW h \in Handlers, NEW j \in JobIds, Submit(h, j)
    PROVE  PipelineInv'
<1>1. /\ Tables /\ QueueTypeOK /\ References /\ Mishaps \in Nat
      /\ JobOK(j) /\ RecoveryOK
  BY MishapEffect DEF PipelineInv, Tables
<1> DEFINE row == [state |-> "PENDING_QUEUE", attempts |-> 0,
                   owner |-> None, lease |-> "none", due |-> FALSE]
           s == [pc |-> "enqueue", job |-> j, held |-> None]
<1>2. /\ ground.pc = "up" /\ job[j] = None /\ job' = [job EXCEPT ![j] = row]
      /\ api' = [api EXCEPT ![h] = s]
      /\ UNCHANGED <<queueVars, result, ground, worker, spent>>
  BY DEF Submit
<1>3. row \in Jobs
  BY DEF Jobs, ProcessingJobState
<1>4. /\ job' \in [JobIds -> Jobs \cup {None}] /\ job'[j] = row
      /\ \A k \in JobIds : k # j => job'[k] = job[k]
  BY <1>2, <1>3, RowReplaced
<1>5. ~ Exists(j) /\ result[j] = None
  BY <1>1, <1>2, RowAssumption DEF Exists, JobOK
<1>6. /\ s \in HandlerStates /\ s.pc = "enqueue" /\ s.job = j /\ ~ Queueable(s.held)
  BY RowAssumption DEF HandlerStates, Queueable, ProcessingJobState
<1> HIDE DEF s
<1>7. /\ api' \in [Handlers -> HandlerStates] /\ api'[h] = s
      /\ \A g \in Handlers : g # h => api'[g] = api[g]
      /\ \A k \in JobIds : Returns(k)' <= Returns(k)
  BY <1>2, <1>6, OneHandlerMoves
<1>8. QueueTypeOK' /\ OneReference' /\ UNCHANGED marker /\ Counted /\ Mishaps' = Mishaps
  BY <1>1, <1>2, QuietQueueCalls, CountersKept, MishapEffect
<1>9. Tables'
  BY <1>1, <1>2, <1>4, <1>7, <1>8 DEF Tables, ResultTable, Counted
<1>10. /\ \A k \in JobIds : Exists(k) => Exists(k)' /\ job'[k] = job[k]
       /\ Exists(j)'
  BY <1>3, <1>4, <1>5 DEF Exists
<1>11. \A g \in Handlers : HandlerOK(g)'
  <2>1. HandlerOK(h)'
    BY <1>2, <1>6, <1>7, <1>10 DEF HandlerOK
  <2>2. ASSUME NEW g \in Handlers, g # h PROVE HandlerOK(g)'
    <3>1. HandlerOK(g)
      BY DEF PipelineInv
    <3> QED BY <1>2, <1>7, <1>8, <1>10, <2>2, <3>1, HandlerFrame DEF Counted
  <2> QED BY <2>1, <2>2
<1>12. RecoveryOK'
  <2>1. ground.todo \subseteq JobIds
    BY <1>1 DEF Tables
  <2> QED BY <1>1, <1>2, <1>8, <1>10, <2>1, RecoveryFrame DEF Counted
<1>13. JobOK(j)' /\ Returns(j)' <= Mishaps'
  <2>1. Returns(j)' <= Mishaps'
    BY <1>1, <1>7, <1>8, ReturnsAreCounted DEF PipelineInv
  <2>2. job'[j].state = "PENDING_QUEUE" /\ job'[j].attempts = 0
    BY <1>4
  <2>3. Foreseen(j)' = Returns(j)'
    BY <2>2, ForeseenCasesNext
  <2>4. MaxAttempts \in Nat
    BY PipelineAssumption
  <2>5. job'[j].attempts + Foreseen(j)' <= MaxAttempts + Mishaps'
    BY <1>1, <1>8, <2>1, <2>2, <2>3, <2>4, ReturnsAreCounted
  <2> QED BY <1>1, <1>2, <1>5, <1>8, <1>10, <2>1, <2>2, <2>5 DEF JobOK
<1>14. \A k \in JobIds : \/ Alike(k) /\ BusyKept(k) /\ ReturnsKept(k)
                         \/ JobOK(k)' /\ Returns(k)' <= Mishaps'
  BY <1>2, <1>4, <1>7, <1>13, UntouchedRow DEF ReturnsKept
<1>15. \A v \in Workers : \A k \in JobIds :
          Exists(k) /\ OwnsClaim(v, k)' => OwnsClaim(v, k)
  BY <1>10 DEF OwnsClaim
<1>16. Mishaps' >= Mishaps /\ (NoLoss' => NoLoss)
  BY <1>8 DEF Counted
<1> QED BY <1>2, <1>8, <1>9, <1>10, <1>11, <1>12, <1>14, <1>15, <1>16, GroundMoves

\* Time: a lease that runs out under its owner is a mishap, any other was
\* foreseen; the end of a backoff changes nothing the invariant sees.
LEMMA TimeKeeps ==
    ASSUME PipelineInv, NEW j \in JobIds, LeaseExpires(j) \/ RetryDue(j)
    PROVE  PipelineInv'
<1>1. /\ Tables /\ QueueTypeOK /\ References /\ Mishaps \in Nat
      /\ JobOK(j) /\ RecoveryOK /\ MaxAttempts \in Nat
  BY MishapEffect, PipelineAssumption DEF PipelineInv, Tables
<1>2. /\ job[j] # None /\ UNCHANGED <<queueVars, result, api, ground, worker>>
      /\ UNCHANGED spent \/ Spend("slow")
  BY DEF LeaseExpires, RetryDue
<1>3. Exists(j)
  BY <1>1, <1>2 DEF Tables, Exists
<1>4. /\ job[j].state \in ProcessingJobState /\ job[j].attempts \in Nat
      /\ job[j].owner \in Workers \cup {None, Gone}
      /\ job[j].lease \in {"none", "live", "expired"} /\ job[j].due \in BOOLEAN
  BY <1>3, RowFields DEF Exists
<1>5. PICK row \in Jobs :
         /\ job' = [job EXCEPT ![j] = row]
         /\ row.state = job[j].state /\ row.attempts = job[j].attempts
         /\ row.owner = job[j].owner
         /\ LeaseExpires(j) => row.lease = "expired"
         /\ ~ LeaseExpires(j) => row.lease = job[j].lease
  <2>1. CASE LeaseExpires(j)
    <3> DEFINE row == [job[j] EXCEPT !.lease = "expired"]
    <3>1. /\ row \in Jobs /\ row.state = job[j].state /\ row.attempts = job[j].attempts
          /\ row.owner = job[j].owner /\ row.lease = "expired"
      BY <1>3 DEF Exists, Jobs
    <3>2. job' = [job EXCEPT ![j] = row]
      BY <2>1 DEF LeaseExpires
    <3> QED BY <2>1, <3>1, <3>2
  <2>2. CASE RetryDue(j) /\ ~ LeaseExpires(j)
    <3> DEFINE row == [job[j] EXCEPT !.due = TRUE]
    <3>1. /\ row \in Jobs /\ row.state = job[j].state /\ row.attempts = job[j].attempts
          /\ row.owner = job[j].owner /\ row.lease = job[j].lease
      BY <1>3 DEF Exists, Jobs
    <3>2. job' = [job EXCEPT ![j] = row]
      BY <2>2 DEF RetryDue
    <3> QED BY <2>2, <3>1, <3>2
  <2> QED BY <2>1, <2>2
<1>6. /\ job' \in [JobIds -> Jobs \cup {None}] /\ job'[j] = row
      /\ \A k \in JobIds : k # j => job'[k] = job[k]
  BY <1>5, RowReplaced
<1>7. QueueTypeOK' /\ OneReference' /\ UNCHANGED marker /\ Counted
  BY <1>1, <1>2, QuietQueueCalls, CountersKept, BudgetNames
<1>8. Mishaps' \in Nat /\ Mishaps' >= Mishaps /\ (NoLoss' <=> NoLoss)
  BY <1>7 DEF Counted
<1>9. Tables'
  BY <1>1, <1>2, <1>6, <1>7 DEF Tables, ResultTable, Counted
<1>10. \A k \in JobIds : /\ Exists(k) <=> Exists(k)'
                         /\ Exists(k) => job'[k].state = job[k].state
                         /\ Returns(k)' = Returns(k) /\ Returns(k) \in Nat
                         /\ Returns(k)' <= Mishaps'
  BY <1>1, <1>2, <1>3, <1>5, <1>6, <1>8, ReturnsSame, ReturnsAreCounted
     DEF Exists, PipelineInv
<1>11. \A v \in Workers : \A k \in JobIds : OwnsClaim(v, k)' <=> OwnsClaim(v, k)
  BY <1>5, <1>6 DEF OwnsClaim
<1>12. \A h \in Handlers : HandlerOK(h)'
  BY <1>2, <1>7, <1>8, <1>10, HandlerFrame DEF PipelineInv
<1>13. RecoveryOK'
  <2>1. ground.todo \subseteq JobIds
    BY <1>1 DEF Tables
  <2> QED BY <1>1, <1>2, <1>7, <1>8, <1>10, <2>1, RecoveryFrame
<1>14. (Alike(j) /\ BusyKept(j)) \/ JobOK(j)'
  <2>1. CASE ~ LeaseExpires(j)
    <3>1. Alike(j)
      BY <1>2, <1>3, <1>5, <1>6, <2>1, RowFields DEF Alike, Exists
    <3>2. \A v \in Workers : BusyWith(v, j) => BusyWith(v, j)'
      BY <1>2, <1>11 DEF BusyWith, Ref
    <3> QED BY <3>1, <3>2 DEF BusyKept
  <2>2. CASE LeaseExpires(j)
    <3>1. /\ job[j].state = "PROCESSING" /\ job[j].lease = "live"
          /\ IF OwnerBusy(j) THEN Spend("slow") ELSE UNCHANGED spent
      BY <2>2 DEF LeaseExpires
    <3>2. Returns(j)' = Returns(j)
      BY <1>10
    <3>3. Foreseen(j)' <= 1 + Returns(j)
      BY <1>5, <1>6, <3>1, <3>2, ForeseenCasesNext
    <3>4. 1 + Returns(j) <= Foreseen(j) + (Mishaps' - Mishaps)
      <4>1. CASE OwnerBusy(j)
        <5>1. Mishaps' = Mishaps + 1 /\ Foreseen(j) >= Returns(j)
          BY <1>1, <3>1, <4>1, MishapEffect, ForeseenCases
        <5> QED BY <1>1, <5>1, ForeseenCases
      <4>2. CASE ~ OwnerBusy(j)
        <5>1. Foreseen(j) = 1 + Returns(j)
          BY <3>1, <4>2, ForeseenCases
        <5> QED BY <1>1, <1>8, <5>1, ForeseenCases
      <4> QED BY <4>1, <4>2
    <3>5. job'[j].attempts + Foreseen(j)' <= MaxAttempts + Mishaps'
      <4>1. job[j].attempts + Foreseen(j) <= MaxAttempts + Mishaps
        BY <1>1, <1>3 DEF JobOK
      <4>2. Foreseen(j) \in Nat /\ Foreseen(j)' \in Nat /\ Returns(j) \in Nat
        BY ForeseenCases, ForeseenCasesNext
      <4>3. job'[j].attempts = job[j].attempts
        BY <1>5, <1>6
      <4> QED BY <1>1, <1>4, <1>8, <3>3, <3>4, <4>1, <4>2, <4>3
    <3>6. job'[j].state = "PROCESSING" /\ result'[j] = None /\ result[j] = None
      BY <1>1, <1>2, <1>5, <1>6, <3>1 DEF JobOK
    <3>7. NoLoss' => marker'[j] = Ref(j)'
      BY <1>1, <1>3, <1>7, <1>8, <3>1, <3>6 DEF JobOK, Ref
    <3> QED BY <3>5, <3>6, <3>7 DEF JobOK
  <2> QED BY <2>1, <2>2
<1>15. \A k \in JobIds : \/ Alike(k) /\ BusyKept(k) /\ ReturnsKept(k)
                         \/ JobOK(k)' /\ Returns(k)' <= Mishaps'
  BY <1>2, <1>6, <1>10, <1>14, UntouchedRow DEF ReturnsKept
<1> QED BY <1>2, <1>7, <1>8, <1>9, <1>10, <1>11, <1>12, <1>13, <1>15, GroundMoves

\* Redis comes back empty: nothing is promised of references any more.
LEMMA RedisLossKeeps ==
    ASSUME PipelineInv, RedisLoss
    PROVE  PipelineInv'
<1>1. Tables /\ QueueTypeOK /\ Mishaps \in Nat
  BY MishapEffect DEF PipelineInv, Tables
<1>2. /\ pending' = <<>> /\ processing' = <<>> /\ failed' = <<>>
      /\ marker' = [j \in JobIds |-> NoMarker]
      /\ UNCHANGED <<foreign, job, result, api, ground, worker>>
      /\ Spend("losses")
  BY DEF RedisLoss, durable
<1>3. Mishaps' = Mishaps /\ ~ NoLoss'
  BY <1>1, <1>2, MishapEffect
<1>4. QueueTypeOK'
  BY <1>1, <1>2 DEF QueueTypeOK
<1>5. OneReference'
  <2>1. \A m \in QueueMessage : m.job_id \in JobIds /\ m # NoMarker
    BY <1>1, QueueFacts
  <2>2. \A m \in QueueMessage : marker'[m.job_id] # m
    BY <1>2, <2>1
  <2> QED BY <1>2, <2>2, EmptyMembers DEF OneReference, SinglePlace, MarkerMatches
<1>6. /\ spent' \in [Budget -> Nat]
      /\ \A b \in Budget : spent'[b] <= Budgets[b]
  BY <1>1, <1>2, BudgetNames, SpendEffect
<1>7. Tables'
  BY <1>1, <1>2, <1>4, <1>6 DEF Tables, ResultTable
<1>8. \A k \in JobIds : ReturnsKept(k)
  BY <1>2, ReturnsSame, ReturnsAreCounted DEF ReturnsKept
<1> QED BY <1>1, <1>2, <1>3, <1>5, <1>7, <1>8, QuietGroundStep

\* mark_job_queued on a row that is there.
LEMMA MarkEffect ==
    ASSUME PipelineInv, NEW j \in JobIds, Exists(j), NEW state, MarkJobQueued(j, state)
    PROVE  /\ job' \in [JobIds -> Jobs \cup {None}]
           /\ Exists(j)'
           /\ \A k \in JobIds : k # j => job'[k] = job[k]
           /\ ~ Queueable(state) => job'[j] = job[j]
           /\ Queueable(state) => /\ job'[j].state = "QUEUED"
                                  /\ job'[j].attempts = job[j].attempts
<1>1. CASE ~ Queueable(state)
  BY <1>1 DEF MarkJobQueued, PipelineInv, Tables, Exists
<1>2. CASE Queueable(state)
  <2> DEFINE row == [job[j] EXCEPT !.state = "QUEUED", !.due = FALSE]
  <2>1. row \in Jobs /\ row.state = "QUEUED" /\ row.attempts = job[j].attempts
    BY DEF Exists, Jobs, ProcessingJobState
  <2>2. job \in [JobIds -> Jobs \cup {None}]
    BY DEF PipelineInv, Tables
  <2>3. job' = [job EXCEPT ![j] = row]
    BY <1>2, <2>2 DEF MarkJobQueued
  <2>4. /\ job' \in [JobIds -> Jobs \cup {None}] /\ job'[j] = row
        /\ \A k \in JobIds : k # j => job'[k] = job[k]
    BY <2>1, <2>3, RowReplaced
  <2> QED BY <1>2, <2>1, <2>4 DEF Exists
<1> QED BY <1>1, <1>2

\* A handler marks the job it has enqueued by the row it holds or by the one it
\* finds.  A held row may be stale: a job that was claimed, or even settled, since
\* goes back to QUEUED, and that claim was foreseen when the replay arrived.
LEMMA ApiMarkKeeps ==
    ASSUME PipelineInv, NEW h \in Handlers, ApiMark(h)
    PROVE  PipelineInv'
<1>1. /\ Tables /\ QueueTypeOK /\ References /\ Mishaps \in Nat
      /\ HandlerOK(h) /\ RecoveryOK
      /\ MaxAttempts \in Nat /\ MaxAttempts >= 1
  BY MishapEffect, PipelineAssumption DEF PipelineInv, Tables
<1>2. PICK j \in JobIds : j = api[h].job /\ Exists(j)
  BY <1>1 DEF ApiMark, HandlerOK
<1> DEFINE shown == IF api[h].held = None THEN job[j].state ELSE api[h].held
<1>3. /\ api[h].pc = "mark" /\ api' = [api EXCEPT ![h] = HandlerIdle]
      /\ MarkJobQueued(j, shown)
      /\ UNCHANGED <<queueVars, result, ground, worker, spent>>
  BY <1>2 DEF ApiMark
<1>4. /\ ground.pc = "up" /\ JobOK(j) /\ Returns(j) <= Mishaps
      /\ NoLoss => marker[j] = Ref(j) \/ result[j] # None
  BY <1>1, <1>2, <1>3 DEF HandlerOK, PipelineInv
<1>5. /\ job' \in [JobIds -> Jobs \cup {None}] /\ Exists(j)'
      /\ \A k \in JobIds : k # j => job'[k] = job[k]
      /\ ~ Queueable(shown) => job'[j] = job[j]
      /\ Queueable(shown) => /\ job'[j].state = "QUEUED"
                             /\ job'[j].attempts = job[j].attempts
  <2> HIDE DEF shown
  <2> QED BY <1>2, <1>3, MarkEffect
<1>6. HandlerIdle \in HandlerStates /\ HandlerIdle.job = None /\ None \notin JobIds
  BY PipelineAssumption DEF HandlerIdle, HandlerStates
<1>7. /\ api' \in [Handlers -> HandlerStates] /\ api'[h] = HandlerIdle
      /\ \A g \in Handlers : g # h => api'[g] = api[g]
      /\ \A k \in JobIds : Returns(k)' <= Returns(k)
      /\ h \in Replays(j) => Returns(j)' = Returns(j) - 1
  <2>1. UNCHANGED ground
    BY <1>3
  <2> QED BY <1>3, <1>6, <2>1, OneHandlerMoves
<1>8. /\ QueueTypeOK' /\ OneReference' /\ UNCHANGED marker /\ Counted
      /\ Mishaps' = Mishaps /\ (NoLoss' <=> NoLoss)
  BY <1>1, <1>3, QuietQueueCalls, CountersKept, MishapEffect
<1>9. Tables'
  BY <1>1, <1>3, <1>5, <1>7, <1>8 DEF Tables, ResultTable, Counted
<1>10. \A k \in JobIds : Exists(k) => Exists(k)'
  BY <1>5 DEF Exists
<1>11. \A g \in Handlers : HandlerOK(g)'
  <2>1. HandlerOK(h)'
    BY <1>7 DEF HandlerOK, HandlerIdle
  <2>2. ASSUME NEW g \in Handlers, g # h PROVE HandlerOK(g)'
    <3>1. HandlerOK(g)
      BY DEF PipelineInv
    <3> QED BY <1>3, <1>7, <1>8, <1>10, <2>2, <3>1, HandlerFrame
  <2> QED BY <2>1, <2>2
<1>12. RecoveryOK'
  <2>1. ground.todo \subseteq JobIds
    BY <1>1 DEF Tables
  <2>2. \A k \in JobIds : ~ Recovering(k)'
    BY <1>3, <1>4 DEF Recovering
  <2> QED BY <1>1, <1>3, <1>4, <1>10, <2>1, <2>2 DEF RecoveryOK
<1>13. ASSUME Queueable(shown) PROVE JobOK(j)' /\ Returns(j)' <= Mishaps'
  <2>1. /\ Foreseen(j)' = 1 + Returns(j)'
        /\ Returns(j) \in Nat /\ Returns(j)' \in Nat
    BY <1>5, <1>13, ForeseenCasesNext, ReturnsAreCounted
  <2>2. job[j].attempts \in Nat
    BY <1>2, RowFields DEF Exists
  <2>3. job[j].attempts + 1 + Returns(j)' <= MaxAttempts + Mishaps
    <3>1. CASE api[h].held # None
      <4>1. h \in Replays(j)
        BY <1>2, <1>13, <3>1 DEF Replays
      <4>2. job[j].attempts + Foreseen(j) <= MaxAttempts + Mishaps
        BY <1>2, <1>4 DEF JobOK
      <4>3. Foreseen(j) >= Returns(j) /\ Foreseen(j) \in Nat
        BY ForeseenCases
      <4> QED BY <1>1, <1>7, <2>1, <2>2, <4>1, <4>2, <4>3
    <3>2. CASE api[h].held = None
      <4>1. job[j].state \in {"PENDING_QUEUE", "RETRY_WAIT"}
        BY <1>13, <3>2 DEF Queueable
      <4>2. job[j].attempts < MaxAttempts
        BY <1>1, <1>2, <1>4, <4>1 DEF JobOK
      <4> QED BY <1>1, <1>4, <1>7, <2>1, <2>2, <4>2
    <3> QED BY <3>1, <3>2
  <2>4. job'[j].attempts + Foreseen(j)' <= MaxAttempts + Mishaps'
    BY <1>5, <1>8, <1>13, <2>1, <2>2, <2>3
  <2>5. Returns(j)' <= Mishaps'
    BY <1>1, <1>4, <1>7, <1>8, <2>1
  <2>6. result[j] # None => j \notin Corrupt
    BY <1>4 DEF JobOK
  <2> QED BY <1>3, <1>4, <1>5, <1>8, <1>13, <2>4, <2>5, <2>6 DEF JobOK, Ref
<1>14. \A k \in JobIds : \/ Alike(k) /\ BusyKept(k) /\ ReturnsKept(k)
                         \/ JobOK(k)' /\ Returns(k)' <= Mishaps'
  <2> HIDE DEF shown
  <2> QED BY <1>3, <1>5, <1>7, <1>13, UntouchedRow DEF ReturnsKept
<1>15. \A v \in Workers : \A k \in JobIds : OwnsClaim(v, k)' => OwnsClaim(v, k)
  BY <1>5 DEF OwnsClaim
<1>16. Mishaps' >= Mishaps
  BY <1>1, <1>8
<1> QED BY <1>3, <1>8, <1>9, <1>10, <1>11, <1>12, <1>14, <1>15, <1>16, GroundMoves

\* No handler, no replay.
LEMMA NobodyReplays ==
    ASSUME NEW k \in JobIds, \A h \in Handlers : api'[h] = HandlerIdle
    PROVE  /\ Replays(k)' \subseteq Replays(k)
           /\ Returns(k)' = IF Threatened(k)' THEN 1 ELSE 0
<1>1. Replays(k)' = {}
  BY PipelineAssumption DEF Replays, HandlerIdle
<1>2. Cardinality(Replays(k)') = 0
  BY <1>1, FS_EmptySet
<1> QED BY <1>1, <1>2 DEF Returns

\* ground-api stops and starts, and its recovery goes through its list.
LEMMA StartupKeeps ==
    ASSUME PipelineInv, GroundStop \/ GroundStart \/ RecoverNext \/ RecoverEnqueue
    PROVE  PipelineInv'
<1>1. /\ Tables /\ QueueTypeOK /\ References /\ Mishaps \in Nat /\ RecoveryOK
      /\ MaxAttempts \in Nat
      /\ job \in [JobIds -> Jobs \cup {None}]
      /\ api \in [Handlers -> HandlerStates]
      /\ ground \in [pc : {"up", "down", "next", "enqueue", "mark"},
                     todo : SUBSET JobIds, job : JobIds \cup {None},
                     held : ProcessingJobState \cup {None}]
  BY MishapEffect, PipelineAssumption DEF PipelineInv, Tables
<1>2. UNCHANGED <<worker, job, result>>
  BY DEF GroundStop, GroundStart, RecoverNext, RecoverEnqueue, durable
<1>3. UNCHANGED spent \/ Spend("groundStops")
  BY DEF GroundStop, GroundStart, RecoverNext, RecoverEnqueue
<1>4. Counted /\ Mishaps' = Mishaps /\ Mishaps' >= Mishaps /\ (NoLoss' <=> NoLoss)
  BY <1>1, <1>3, CountersKept, MishapEffect, BudgetNames
<1>5. /\ \A k \in JobIds : Exists(k)' <=> Exists(k)
      /\ \A v \in Workers : \A k \in JobIds : OwnsClaim(v, k)' <=> OwnsClaim(v, k)
  BY <1>2 DEF Exists, OwnsClaim
<1>6. \A k \in JobIds : Alike(k) /\ BusyKept(k)
  BY <1>2, UntouchedRow
<1>7. /\ \A h \in Handlers : HandlerOK(h)' /\ api'[h] = HandlerIdle
      /\ api' \in [Handlers -> HandlerStates]
  <2>1. CASE GroundStop
    <3>1. api' = [h \in Handlers |-> HandlerIdle]
      BY <2>1 DEF GroundStop
    <3> QED BY <3>1 DEF HandlerOK, HandlerIdle, HandlerStates
  <2>2. CASE GroundStart \/ RecoverNext \/ RecoverEnqueue
    <3>1. ground.pc # "up" /\ UNCHANGED api
      BY <2>2 DEF GroundStart, RecoverNext, RecoverEnqueue
    <3>2. ASSUME NEW h \in Handlers PROVE HandlerOK(h)' /\ api'[h] = HandlerIdle
      <4>1. HandlerOK(h)
        BY DEF PipelineInv
      <4>2. api'[h] = HandlerIdle
        BY <3>1, <4>1 DEF HandlerOK
      <4> QED BY <4>2 DEF HandlerOK, HandlerIdle
    <3> QED BY <1>1, <3>1, <3>2
  <2> QED BY <2>1, <2>2
<1>r. ASSUME NEW k \in JobIds
      PROVE  /\ Returns(k)' = IF Threatened(k)' THEN 1 ELSE 0
             /\ (Threatened(k)' => Threatened(k)) => Returns(k)' <= Returns(k)
  BY <1>7, NobodyReplays, ReturnsShrink
<1>8. ASSUME UNCHANGED queueVars,
             \A k \in JobIds : Recovering(k)' => JobOK(k)' /\ Returns(k)' <= Mishaps',
             RecoveryOK',
             ground' \in [pc : {"up", "down", "next", "enqueue", "mark"},
                          todo : SUBSET JobIds, job : JobIds \cup {None},
                          held : ProcessingJobState \cup {None}]
      PROVE  PipelineInv'
  <2>1. QueueTypeOK' /\ OneReference' /\ UNCHANGED marker
    BY <1>1, <1>8, QuietQueueCalls
  <2>2. Tables'
    BY <1>1, <1>2, <1>4, <1>7, <1>8, <2>1 DEF Tables, ResultTable, Counted
  <2>3. \A k \in JobIds : \/ Alike(k) /\ BusyKept(k) /\ ReturnsKept(k)
                          \/ JobOK(k)' /\ Returns(k)' <= Mishaps'
    BY <1>6, <1>8, <1>r DEF Threatened, ReturnsKept
  <2> QED BY <1>2, <1>4, <1>5, <1>7, <1>8, <2>1, <2>2, <2>3, GroundMoves
<1>9. CASE GroundStop
  <2>1. ground' = [pc |-> "down", todo |-> {}, job |-> None, held |-> None]
    BY <1>9 DEF GroundStop, GroundUp
  <2>2. \A k \in JobIds : ~ Recovering(k)'
    BY <2>1 DEF Recovering
  <2>3. RecoveryOK' /\ UNCHANGED queueVars
    BY <1>9, <2>1, <2>2 DEF RecoveryOK, GroundStop
  <2> QED BY <1>8, <2>1, <2>2, <2>3
<1>10. CASE GroundStart
  <2>1. /\ ground' = [pc |-> "next", todo |-> Recoverable, job |-> None, held |-> None]
        /\ UNCHANGED queueVars
    BY <1>10 DEF GroundStart
  <2>2. Recoverable \subseteq JobIds /\ \A k \in Recoverable : Exists(k)
    BY <1>1 DEF Recoverable, Exists
  <2>3. \A k \in JobIds : ~ Recovering(k)'
    BY <2>1 DEF Recovering
  <2>4. \A k \in Recoverable : Exists(k)'
    BY <1>5, <2>2
  <2> HIDE DEF Recoverable
  <2>5. RecoveryOK'
    BY <2>1, <2>3, <2>4 DEF RecoveryOK
  <2> QED BY <1>8, <2>1, <2>2, <2>3, <2>5
<1>11. CASE RecoverNext /\ ground' = GroundUp
  <2>1. ground' = [pc |-> "up", todo |-> {}, job |-> None, held |-> None]
    BY <1>11 DEF GroundUp
  <2>2. \A k \in JobIds : ~ Recovering(k)'
    BY <2>1 DEF Recovering
  <2>3. RecoveryOK' /\ UNCHANGED queueVars
    BY <1>11, <2>1, <2>2 DEF RecoveryOK, RecoverNext
  <2> QED BY <1>8, <2>1, <2>2, <2>3
<1>12. CASE RecoverNext /\ ground' # GroundUp
  <2>1. /\ ground.pc = "next" /\ UNCHANGED <<queueVars, spent>>
        /\ \E j \in ground.todo :
             ground' = [pc |-> "enqueue", todo |-> ground.todo \ {j},
                        job |-> j, held |-> job[j].state]
    BY <1>12 DEF RecoverNext
  <2>2. PICK j \in ground.todo :
           ground' = [pc |-> "enqueue", todo |-> ground.todo \ {j},
                      job |-> j, held |-> job[j].state]
    BY <2>1
  <2>3. j \in JobIds /\ Exists(j) /\ JobOK(j) /\ job[j].state \in ProcessingJobState
    BY <1>1, RowFields DEF PipelineInv, RecoveryOK, Exists
  <2>4. \A k \in JobIds : ~ Recovering(k) /\ (Recovering(k)' => k = j)
    BY <2>1, <2>2 DEF Recovering
  <2>5. RecoveryOK'
    <3>1. \A k \in ground'.todo : Exists(k)'
      BY <1>1, <1>5, <2>2 DEF RecoveryOK
    <3> QED BY <1>2, <1>5, <2>2, <2>3, <2>4, <3>1 DEF RecoveryOK
  <2>6. JobOK(j)' /\ Returns(j)' <= Mishaps'
    <3>1. CASE Threatened(j)' => Threatened(j)
      <4>1. /\ Tables /\ BusyKept(j) /\ Alike(j) /\ Mishaps' \in Nat
            /\ ReturnsKept(j) /\ Returns(j) <= Mishaps
        BY <1>1, <1>4, <1>6, <1>r, <2>3, <3>1 DEF ReturnsKept, PipelineInv
      <4>2. UNCHANGED marker
        BY <2>1 DEF queueVars
      <4> QED BY <1>4, <2>3, <3>1, <4>1, <4>2, JobFrame
    <3>2. CASE Threatened(j)' /\ ~ Threatened(j)
      <4>1. job[j].state = "RETRY_WAIT"
        BY <2>2, <3>2 DEF Threatened
      <4>2. job[j].attempts < MaxAttempts /\ job[j].attempts \in Nat /\ Mishaps >= 1
            /\ result[j] = None
        BY <2>3, <4>1, RowFields DEF JobOK, Exists
      <4>3. Foreseen(j)' = 1 /\ Returns(j)' = 1
        BY <1>2, <1>r, <2>3, <3>2, <4>1, ForeseenCasesNext
      <4>4. job'[j].attempts + Foreseen(j)' <= MaxAttempts + Mishaps'
        BY <1>1, <1>2, <1>4, <4>2, <4>3
      <4>5. UNCHANGED marker
        BY <2>1 DEF queueVars
      <4> QED BY <1>2, <1>4, <1>5, <2>3, <4>1, <4>2, <4>3, <4>4, <4>5 DEF JobOK, Ref
    <3> QED BY <3>1, <3>2
  <2> QED BY <1>1, <1>8, <2>1, <2>2, <2>3, <2>4, <2>5, <2>6
<1>13. CASE RecoverEnqueue
  <2> DEFINE j == ground.job
  <2>1. ground.pc = "enqueue" /\ Enqueue(Ref(j)) /\ ground' = [ground EXCEPT !.pc = "mark"]
    BY <1>13 DEF RecoverEnqueue
  <2>2. j \in JobIds /\ Recovering(j)
    BY <1>1, <2>1 DEF RecoveryOK, Recovering
  <2>3. Exists(j)
    BY <1>1, <2>2 DEF RecoveryOK
  <2>4. /\ QueueTypeOK' /\ OneReference' /\ marker'[j] = Ref(j)
        /\ \A k \in JobIds : k # j => marker'[k] = marker[k]
    BY <1>1, <2>1, <2>2, EnqueueCall
  <2>5. /\ ground' \in [pc : {"up", "down", "next", "enqueue", "mark"},
                        todo : SUBSET JobIds, job : JobIds \cup {None},
                        held : ProcessingJobState \cup {None}]
        /\ ground'.pc = "mark" /\ ground'.todo = ground.todo
        /\ ground'.job = j /\ ground'.held = ground.held
    BY <1>1, <2>1
  <2>6. Tables'
    BY <1>1, <1>2, <1>4, <1>7, <2>4, <2>5 DEF Tables, ResultTable, Counted
  <2> HIDE DEF j
  <2>7. \A k \in JobIds : /\ Recovering(k)' <=> k = j
                          /\ Recovering(k) <=> k = j
                          /\ Threatened(k)' <=> Threatened(k)
    BY <2>1, <2>5 DEF Recovering, Threatened, j
  <2>8. RecoveryOK'
    <3>1. \A k \in ground'.todo : Exists(k)'
      BY <1>1, <1>5, <2>5 DEF RecoveryOK
    <3>2. /\ ground.held \in ProcessingJobState
          /\ ground.held = "PENDING_QUEUE" => job[j].state = "PENDING_QUEUE"
          /\ ground.held = "RETRY_WAIT" => job[j].state \notin {"PENDING_QUEUE", "QUEUED"}
      BY <1>1, <2>2 DEF RecoveryOK
    <3> QED BY <1>2, <1>5, <2>2, <2>3, <2>4, <2>5, <2>7, <3>1, <3>2 DEF RecoveryOK, Ref
  <2>9. \A k \in JobIds : marker[k] # NoMarker => marker'[k] = marker[k]
    BY <1>1, <2>2, <2>4 DEF References
  <2>10. \A k \in JobIds : ReturnsKept(k)
    BY <1>r, <2>7 DEF ReturnsKept
  <2> QED BY <1>2, <1>4, <1>5, <1>6, <1>7, <2>3, <2>4, <2>6, <2>8, <2>9, <2>10, GroundMoves
<1> QED BY <1>9, <1>10, <1>11, <1>12, <1>13

\* The recovery marks the job it has enqueued by the state it holds, which may be
\* stale: a job that was claimed meanwhile goes back to QUEUED, and that claim
\* was foreseen when the recovery read the row.
LEMMA RecoverMarkKeeps ==
    ASSUME PipelineInv, RecoverMark
    PROVE  PipelineInv'
<1>1. /\ Tables /\ QueueTypeOK /\ References /\ Mishaps \in Nat /\ RecoveryOK
      /\ MaxAttempts \in Nat /\ MaxAttempts >= 1
      /\ ground \in [pc : {"up", "down", "next", "enqueue", "mark"},
                     todo : SUBSET JobIds, job : JobIds \cup {None},
                     held : ProcessingJobState \cup {None}]
  BY MishapEffect, PipelineAssumption DEF PipelineInv, Tables
<1>2. /\ ground.pc = "mark" /\ MarkJobQueued(ground.job, ground.held)
      /\ UNCHANGED <<queueVars, result, api, worker, spent>>
  BY DEF RecoverMark
<1>3. PICK pc \in {"next", "down"}, todo \in {ground.todo, {}} :
         ground' = [pc |-> pc, todo |-> todo, job |-> None, held |-> None]
  BY DEF RecoverMark, GroundUp
<1>4. PICK j \in JobIds : j = ground.job /\ Recovering(j)
  BY <1>1, <1>2 DEF RecoveryOK, Recovering
<1>5. /\ Exists(j) /\ JobOK(j)
      /\ ground.held = "PENDING_QUEUE" => job[j].state = "PENDING_QUEUE"
      /\ NoLoss => marker[j] = Ref(j) \/ result[j] # None
  BY <1>1, <1>2, <1>4 DEF RecoveryOK, PipelineInv
<1>6. /\ job' \in [JobIds -> Jobs \cup {None}] /\ Exists(j)'
      /\ \A k \in JobIds : k # j => job'[k] = job[k]
      /\ ~ Queueable(ground.held) => job'[j] = job[j]
      /\ Queueable(ground.held) => /\ job'[j].state = "QUEUED"
                                   /\ job'[j].attempts = job[j].attempts
  BY <1>2, <1>4, <1>5, MarkEffect
<1>7. \A k \in JobIds : ~ Recovering(k)' /\ ~ Threatened(k)'
  BY <1>3 DEF Recovering, Threatened
<1>8. /\ QueueTypeOK' /\ OneReference' /\ UNCHANGED marker /\ Counted
      /\ Mishaps' = Mishaps /\ Mishaps' >= Mishaps /\ (NoLoss' <=> NoLoss)
  BY <1>1, <1>2, QuietQueueCalls, CountersKept, MishapEffect
<1>9. Tables'
  <2>1. ground' \in [pc : {"up", "down", "next", "enqueue", "mark"},
                     todo : SUBSET JobIds, job : JobIds \cup {None},
                     held : ProcessingJobState \cup {None}]
    BY <1>1, <1>3
  <2> QED BY <1>1, <1>2, <1>6, <1>8, <2>1 DEF Tables, ResultTable, Counted
<1>10. \A k \in JobIds : Exists(k) => Exists(k)'
  BY <1>6 DEF Exists
<1>11. RecoveryOK'
  <2>1. \A k \in ground'.todo : Exists(k)'
    <3>1. \A k \in ground.todo : k \in JobIds /\ Exists(k)
      BY <1>1 DEF RecoveryOK
    <3> QED BY <1>3, <1>10, <3>1
  <2>2. ground'.pc \notin {"enqueue", "mark"}
    BY <1>3
  <2> QED BY <1>7, <2>1, <2>2 DEF RecoveryOK
<1>12. ASSUME NEW h \in Handlers PROVE HandlerOK(h)' /\ api'[h] = HandlerIdle
  <2>1. HandlerOK(h)
    BY DEF PipelineInv
  <2>2. api'[h] = HandlerIdle
    BY <1>2, <2>1 DEF HandlerOK
  <2> QED BY <2>2 DEF HandlerOK, HandlerIdle
<1>r. \A k \in JobIds : Returns(k)' = 0 /\ Returns(k)' <= Returns(k)
  BY <1>7, <1>12, NobodyReplays, ReturnsAreCounted
<1>13. ASSUME Queueable(ground.held) PROVE JobOK(j)' /\ Returns(j)' <= Mishaps'
  <2>1. Foreseen(j)' = 1
    BY <1>4, <1>6, <1>r, <1>13, ForeseenCasesNext
  <2>2. job[j].attempts \in Nat
    BY <1>5, RowFields DEF Exists
  <2>3. job[j].attempts + 1 <= MaxAttempts + Mishaps
    <3>1. CASE ground.held = "PENDING_QUEUE"
      <4>1. job[j].attempts = 0
        BY <1>5, <3>1 DEF JobOK
      <4> QED BY <1>1, <4>1
    <3>2. CASE ground.held = "RETRY_WAIT"
      <4>1. Returns(j) >= 1
        BY <1>4, <3>2, ReturnsAreCounted DEF Returns, Threatened
      <4>2. job[j].attempts + Foreseen(j) <= MaxAttempts + Mishaps
        BY <1>5 DEF JobOK
      <4>3. Foreseen(j) >= 1 /\ Foreseen(j) \in Nat
        BY <1>4, <4>1, ForeseenCases
      <4> QED BY <1>1, <2>2, <4>2, <4>3
    <3> QED BY <1>13, <3>1, <3>2 DEF Queueable
  <2>4. job'[j].attempts + Foreseen(j)' <= MaxAttempts + Mishaps'
    BY <1>6, <1>8, <1>13, <2>1, <2>3
  <2>5. result[j] # None => j \notin Corrupt
    BY <1>5 DEF JobOK
  <2>6. Returns(j)' <= Mishaps'
    BY <1>1, <1>8, <1>r
  <2> QED BY <1>2, <1>5, <1>6, <1>8, <1>13, <2>4, <2>5, <2>6 DEF JobOK, Ref
<1>14. \A k \in JobIds : \/ Alike(k) /\ BusyKept(k) /\ ReturnsKept(k)
                         \/ JobOK(k)' /\ Returns(k)' <= Mishaps'
  BY <1>2, <1>6, <1>13, <1>r, UntouchedRow DEF ReturnsKept
<1>15. \A v \in Workers : \A k \in JobIds : OwnsClaim(v, k)' => OwnsClaim(v, k)
  BY <1>6 DEF OwnsClaim
<1> QED BY <1>2, <1>8, <1>9, <1>10, <1>11, <1>12, <1>14, <1>15, GroundMoves
-----------------------------------------------------------------------------
(* The invariant and what follows from it.                                 *)

\* Nothing exists at first.
LEMMA PipelineInvInitially == PipelineInit => PipelineInv
<1> SUFFICES ASSUME PipelineInit PROVE PipelineInv
  OBVIOUS
<1>1. /\ pending = <<>> /\ processing = <<>> /\ failed = <<>> /\ foreign = 0
      /\ marker = [j \in JobIds |-> NoMarker]
      /\ job = [j \in JobIds |-> None] /\ result = [j \in JobIds |-> None]
      /\ api = [h \in Handlers |-> HandlerIdle]
      /\ ground = [pc |-> "up", todo |-> {}, job |-> None, held |-> None]
      /\ worker = [w \in Workers |-> [pc |-> "down", msg |-> None]]
      /\ spent = [b \in Budget |-> 0]
  BY DEF PipelineInit, QueueInit, GroundUp, WorkerDown, Budget
<1>2. QueueTypeOK
  BY <1>1, QueueAssumption DEF QueueTypeOK
<1>3. \A b \in Budget : Budgets[b] \in Nat
  BY BudgetNames, PipelineAssumption DEF Budgets
<1>4. Tables
  <2>1. spent \in [Budget -> Nat] /\ \A b \in Budget : spent[b] <= Budgets[b]
    BY <1>1, <1>3
  <2> QED BY <1>1, <1>2, <2>1
          DEF Tables, ResultTable, Versions, WorkerPcs, HandlerIdle, HandlerStates
<1>5. \A j \in JobIds : ~ Exists(j) /\ marker[j] = NoMarker /\ result[j] = None
  BY <1>1, RowAssumption DEF Exists
<1>6. References
  <2>1. \A m \in QueueMessage : m.job_id \in JobIds /\ m # NoMarker
    BY <1>2, QueueFacts
  <2>2. \A m \in QueueMessage : marker[m.job_id] # m
    BY <1>1, <2>1
  <2>3. OneReference
    BY <1>1, <2>2, EmptyMembers DEF OneReference, SinglePlace, MarkerMatches
  <2> QED BY <1>5, <2>3 DEF References
<1>7. /\ \A h \in Handlers : HandlerOK(h)
      /\ \A j \in JobIds : JobOK(j) /\ Returns(j) <= Mishaps
  <2>1. \A h \in Handlers : HandlerOK(h)
    BY <1>1 DEF HandlerOK, HandlerIdle
  <2>2. ASSUME NEW j \in JobIds PROVE Returns(j) = 0
    <3>1. ~ Threatened(j)
      BY <1>1 DEF Threatened, Recovering
    <3>2. Replays(j) = {}
      BY <1>1, PipelineAssumption DEF Replays, HandlerIdle
    <3> QED BY <3>1, <3>2, FS_EmptySet DEF Returns
  <2>3. Mishaps = 0
    BY <1>1, BudgetNames DEF Mishaps
  <2> QED BY <1>5, <2>1, <2>2, <2>3 DEF JobOK
<1>8. RecoveryOK
  BY <1>1 DEF RecoveryOK, Recovering
<1>9. \A w \in Workers : WorkerOK(w)
  BY <1>1 DEF WorkerOK
<1> QED BY <1>4, <1>6, <1>7, <1>8, <1>9 DEF PipelineInv

\* Every step of every process keeps the invariant.
LEMMA PipelineInvKept == PipelineInv /\ [PipelineNext]_pipelineVars => PipelineInv'
<1> SUFFICES ASSUME PipelineInv, [PipelineNext]_pipelineVars PROVE PipelineInv'
  OBVIOUS
<1>1. CASE GroundStep
  BY <1>1, StartupKeeps, RecoverMarkKeeps, HandlerQueueStepsKeep, ApiMarkKeeps
     DEF GroundStep
<1>2. ASSUME NEW w \in Workers, WorkerStep(w) PROVE PipelineInv'
  BY <1>2, QueueStepsKeep, TransactionsKeep DEF WorkerStep
<1>3. CASE TimePasses
  BY <1>3, TimeKeeps DEF TimePasses
<1>4. CASE Environment
  BY <1>4, SubmitKeeps, HandlerQueueStepsKeep, StopsAndRedisFaultsKeep,
     DatabaseFaultKeeps, StartupKeeps, RedisLossKeeps DEF Environment
<1>5. CASE UNCHANGED pipelineVars
  BY <1>5, HandlerQueueStepsKeep
<1> QED BY <1>1, <1>2, <1>3, <1>4, <1>5 DEF PipelineNext

\* So it holds always.
LEMMA PipelineInvariant == PipelineSpec => []PipelineInv
BY PipelineInvInitially, PipelineInvKept, PTL DEF PipelineSpec

\* Rows, handlers, workers and counters always have the shape the code gives them.
THEOREM PipelineTypes == PipelineSpec => []PipelineTypeOK
<1>1. PipelineInv => PipelineTypeOK
  <2> SUFFICES ASSUME PipelineInv PROVE PipelineTypeOK
    OBVIOUS
  <2>1. \A b \in Budget : spent[b] \in Nat /\ Budgets[b] \in Nat /\ spent[b] <= Budgets[b]
    BY BudgetNames, PipelineAssumption DEF PipelineInv, Tables, Budgets
  <2>2. \A b \in DOMAIN Budgets : spent[b] \in 0..Budgets[b]
    BY <2>1 DEF Budget
  <2> QED BY <2>2 
          DEF PipelineInv, Tables, ResultTable, Versions, WorkerPcs, HandlerStates,
              PipelineTypeOK
<1> QED BY <1>1, PipelineInvariant, PTL

\* A job is COMPLETE only with a result, FAILED only for corrupt evidence or after
\* its last attempt, and every attempt beyond the maximum is paid for by a failed
\* call, a stopped or slow worker, or a retransmission: for any number of jobs,
\* concurrent handlers, workers and failures.
THEOREM OutcomesAreJustified == PipelineSpec => []OutcomeJustified
<1>1. PipelineInv => OutcomeJustified
  <2> SUFFICES ASSUME PipelineInv, NEW j \in JobIds, job[j] # None
               PROVE  /\ job[j].state = "COMPLETE" => result[j] # None
                      /\ result[j] # None => j \notin Corrupt
                      /\ job[j].state = "FAILED"
                            => j \in Corrupt \/ job[j].attempts >= MaxAttempts
                      /\ job[j].state = "RETRY_WAIT" => job[j].attempts < MaxAttempts
                      /\ job[j].attempts <= MaxAttempts + spent["faults"]
                                               + spent["workerStops"] + spent["slow"]
                                               + spent["resubmits"]
    BY DEF OutcomeJustified
  <2>1. Exists(j) /\ JobOK(j)
    BY DEF PipelineInv, Tables, Exists
  <2>2. job[j].attempts + Foreseen(j) <= MaxAttempts + Mishaps
    BY <2>1 DEF JobOK
  <2>3. /\ job[j].attempts \in Nat /\ Foreseen(j) \in Nat /\ MaxAttempts \in Nat
        /\ spent["faults"] \in Nat /\ spent["workerStops"] \in Nat /\ spent["slow"] \in Nat
        /\ spent["resubmits"] \in Nat
    BY <2>1, RowFields, ForeseenCases, BudgetNames, PipelineAssumption
       DEF Exists, PipelineInv, Tables
  <2>4. job[j].attempts <= MaxAttempts + spent["faults"]
                             + spent["workerStops"] + spent["slow"]
                             + spent["resubmits"]
    BY <2>2, <2>3 DEF Mishaps
  <2> QED BY <2>1, <2>4 DEF JobOK
<1> QED BY <1>1, PipelineInvariant, PTL

\* A job reported as queued keeps exactly one queue entry until it has its
\* result, unless Redis loses its data.
THEOREM QueuedWorkStaysReferenced == PipelineSpec => []QueuedWorkIsReferenced
<1>1. PipelineInv => QueuedWorkIsReferenced
  <2> SUFFICES ASSUME PipelineInv PROVE QueuedWorkIsReferenced
    OBVIOUS
  <2>1. OneReference
    BY DEF PipelineInv, References
  <2>2. ASSUME NEW j \in JobIds, spent["losses"] = 0, job[j] # None,
               job[j].state \in {"QUEUED", "PROCESSING", "RETRY_WAIT", "FAILED"},
               result[j] = None
        PROVE  marker[j] = Ref(j)
    <3>1. Exists(j) /\ JobOK(j)
      BY <2>2 DEF PipelineInv, Tables, Exists
    <3> QED BY <2>2, <3>1 DEF JobOK, NoLoss
  <2> QED BY <2>1, <2>2 DEF QueuedWorkIsReferenced
<1> QED BY <1>1, PipelineInvariant, PTL

\* Every call that a step makes on the queue keeps the markers of unfinished
\* jobs, RedisLoss apart, and that one is counted.
LEMMA MarkersGoWithResults ==
    ASSUME PipelineInv, [PipelineNext]_pipelineVars, NEW j \in JobIds,
           marker[j] # NoMarker, marker'[j] = NoMarker,
           spent'["losses"] = spent["losses"]
    PROVE  result[j] # None
<1>1. Tables /\ QueueTypeOK /\ References
  BY DEF PipelineInv, Tables
<1>2. ~ Spend("losses")
  <2>1. spent["losses"] \in Nat
    BY <1>1, BudgetNames DEF Tables
  <2>2. Spend("losses") => spent'["losses"] = spent["losses"] + 1
    BY <1>1, BudgetNames, SpendEffect
  <2> QED BY <2>1, <2>2
<1>3. ~ UNCHANGED marker
  OBVIOUS
<1>4. ASSUME NEW k \in JobIds PROVE ~ Enqueue(Ref(k))
  BY <1>1, EnqueueCall, RefIsMessage
<1>5. ~ RecoverEnqueue
  <2>1. RecoverEnqueue => ground.job \in JobIds
    BY DEF RecoverEnqueue, PipelineInv, RecoveryOK
  <2> QED BY <1>4, <2>1 DEF RecoverEnqueue
<1>6. ASSUME NEW w \in Workers, QueueCall(w) PROVE result[j] # None
  <2>1. WorkerOK(w) /\ worker[w].pc \in WorkerPcs
    BY DEF PipelineInv, Tables
  <2> QED BY <1>1, <1>6, <2>1, WorkerQueueCall DEF MarkersKept
<1>7. ASSUME NEW w \in Workers, WorkerStep(w) PROVE \E v \in Workers : QueueCall(v)
  BY <1>3, <1>7
     DEF WorkerStep, WorkerStart, WorkerClaim, Quarantine, ClaimJob, ResolveUnclaimed,
         FinishUnclaimed, ReturnMessage, Process, AckCompleted, FailAttempt, AfterFailure,
         RecoverProcessing, Claim, queueVars
<1>8. ~ GroundStep
  <2>1. \A h \in Handlers : ~ ApiRead(h) /\ ~ ApiEnqueue(h) /\ ~ ApiMark(h)
    <3>1. \A h \in Handlers : ApiEnqueue(h) => api[h].job \in JobIds
      BY DEF ApiEnqueue, PipelineInv, HandlerOK
    <3> QED BY <1>3, <1>4, <3>1 DEF ApiRead, ApiEnqueue, ApiMark, queueVars
  <2> QED BY <1>3, <1>5, <2>1 DEF GroundStep, GroundStart, RecoverNext, RecoverMark, queueVars
<1>9. ~ TimePasses /\ ~ UNCHANGED pipelineVars
  BY <1>3 DEF TimePasses, LeaseExpires, RetryDue, queueVars, pipelineVars
<1>10. ASSUME Environment PROVE \E v \in Workers : QueueCall(v)
  <2>1. \A h \in Handlers : /\ ~ ApiFault(h)
                            /\ \A k \in JobIds : ~ Submit(h, k) /\ ~ Resubmit(h, k)
    <3>1. \A h \in Handlers : ApiFault(h) => api[h].job \in JobIds
      BY DEF ApiFault, PipelineInv, HandlerOK
    <3> QED BY <1>3, <1>4, <3>1 DEF Submit, Resubmit, ApiFault, queueVars
  <2>2. ~ GroundStop /\ ~ RedisLoss /\ ~ ForeignEntry
    BY <1>2, <1>3 DEF GroundStop, RedisLoss, ForeignEntry, ForeignPush, queueVars
  <2>3. \A w \in Workers : ~ WorkerStop(w) /\ ~ DatabaseFault(w)
    BY <1>3 DEF WorkerStop, DatabaseFault, queueVars
  <2>4. \A w \in Workers : RedisFault(w) => QueueCall(w)
    BY <1>3 DEF RedisFault, Claim, queueVars
  <2> QED BY <1>10, <2>1, <2>2, <2>3, <2>4 DEF Environment
<1> QED BY <1>6, <1>7, <1>8, <1>9, <1>10 DEF PipelineNext

\* The queue forgets a job only after its result is committed: of all steps only
\* an acknowledgement removes a marker, and a worker acknowledges finished work.
THEOREM OnlyFinishedIsForgotten == PipelineSpec => ForgottenOnlyWhenDone
<1> DEFINE Remembered ==
      \A j \in JobIds :
         (/\ marker[j] # NoMarker /\ marker'[j] = NoMarker
          /\ spent'["losses"] = spent["losses"]) => result[j] # None
<1>1. PipelineInv /\ [PipelineNext]_pipelineVars => [Remembered]_pipelineVars
  BY MarkersGoWithResults
<1>2. PipelineSpec => [][Remembered]_pipelineVars
  BY <1>1, PipelineInvariant, PTL DEF PipelineSpec
<1> QED BY <1>2 DEF ForgottenOnlyWhenDone, Remembered
=============================================================================
