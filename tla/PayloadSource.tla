--------------------------- MODULE PayloadSource ---------------------------
(***************************************************************************)
(* The payload simulator and the vendor forwarder of                       *)
(* mission_ground/services/vendor_simulator.py.                            *)
(*                                                                         *)
(* The process takes a boot identifier from a file when it starts, numbers *)
(* its frames, and forwards each with up to three tries under one request  *)
(* identifier.  Frames are made under a lock and without an await, so      *)
(* making one is a single action; forwarding is outside the lock, so       *)
(* submissions overlap.  The process may stop at any moment, also between  *)
(* writing the file and using what it wrote, and writing it may fail.      *)
(*                                                                         *)
(* What is sent may be lost, doubled or overtaken: properties speak of all *)
(* that was sent, so they hold of whatever part of it ground receives.     *)
(*                                                                         *)
(* A frame is its packet key, the body it was filled with, and what        *)
(* _apply_wire_failure did to its bytes.                                   *)
(***************************************************************************)
EXTENDS Integers

CONSTANTS
    Submitters,      \* HTTP clients and the automatic loop, one request each
    NoFrame,         \* last_raw = None
    MaxBoot,         \* UINT32_MAX for boot identifiers
    MaxSequence,     \* UINT32_MAX for sequence numbers
    MaxSubmissions,  \* bound: requests in a behaviour
    MaxStops,        \* bound: stops of the process
    MaxWriteFaults   \* bound: failed writes of the boot identifier

ASSUME SourceAssumption ==
    /\ MaxBoot \in Nat \ {0}
    /\ MaxSequence \in Nat
    /\ MaxSubmissions \in Nat
    /\ MaxStops \in Nat
    /\ MaxWriteFaults \in Nat
    /\ NoFrame \notin [boot : 1 .. MaxBoot, seq : 0 .. MaxSequence,
                       body : 1 .. MaxSubmissions,
                       wire : {"intact", "crc", "version"}]

VARIABLES
    bootFile,      \* the identifier in the file, 0 without a file
    running,       \* lifespan has passed start-up
    boot_id,       \* PayloadSimulator.boot_id
    next_sequence, \* PayloadSimulator.next_sequence
    last_raw,      \* app.state.last_raw
    submission,    \* submission[s]: the request s waits for
    sent,          \* history: POSTs; ground gets some of them, in any order
    made,          \* history: frames made
    newest,        \* history: the key of the frame made last
    submissions,   \* history: requests so far; names request ids and bodies
    stops, writeFaults

sessionVars == <<bootFile, running, boot_id, next_sequence, last_raw>>
historyVars == <<made, newest>>
sourceVars == <<sessionVars, submission, sent, historyVars,
                submissions, stops, writeFaults>>

MakingModes == {"NONE", "CORRUPT_CRC", "UNSUPPORTED_VERSION", "SKIP_SEQUENCE"}

Frames == [boot : 1 .. MaxBoot, seq : 0 .. MaxSequence,
           body : 1 .. MaxSubmissions, wire : {"intact", "crc", "version"}]

\* What DUPLICATE_LAST may repeat: frames not spoilt on purpose.
IntactFrames == {f \in Frames : f.wire = "intact"}

\* One POST: the request identifier and the bytes.
Deliveries == [request : 1 .. MaxSubmissions, raw : Frames]

Idle == [pc |-> "idle"]

\* forward is awaiting an answer, or sleeping before the next try.
Forwarding ==
    [pc : {"posted"}, request : 1 .. MaxSubmissions, raw : Frames,
     attempt : 1 .. 3]
    \cup [pc : {"backoff"}, request : 1 .. MaxSubmissions, raw : Frames,
          attempt : 1 .. 2]

Key(f) == <<f.boot, f.seq>>

SourceInit ==
    /\ bootFile = 0
    /\ running = FALSE
    /\ boot_id = 0
    /\ next_sequence = 0
    /\ last_raw = NoFrame
    /\ submission = [s \in Submitters |-> Idle]
    /\ sent = {}
    /\ made = {}
    /\ newest = <<0, 0>>
    /\ submissions = 0
    /\ stops = 0
    /\ writeFaults = 0
-----------------------------------------------------------------------------
(* Start and stop.                                                         *)

\* Mutant: the identifier would be used before it is stored.
StartWithoutPersist ==
    /\ ~running
    /\ bootFile < MaxBoot
    /\ running' = TRUE
    /\ boot_id' = bootFile + 1
    /\ next_sequence' = 0
    /\ last_raw' = NoFrame
    /\ UNCHANGED <<bootFile, submission, sent, historyVars,
                   submissions, stops, writeFaults>>

\* _load_next_boot_id stores the next identifier before lifespan uses it.  A
\* file that holds the last identifier refuses every start.
Start ==
    /\ ~running
    /\ bootFile < MaxBoot
    /\ bootFile' = bootFile + 1
    /\ running' = TRUE
    /\ boot_id' = bootFile + 1
    /\ next_sequence' = 0
    /\ last_raw' = NoFrame
    /\ UNCHANGED <<submission, sent, historyVars,
                   submissions, stops, writeFaults>>

\* The process stops after os.replace and before it serves a request.
StopWhileStarting ==
    /\ ~running
    /\ bootFile < MaxBoot
    /\ stops < MaxStops
    /\ stops' = stops + 1
    /\ bootFile' = bootFile + 1
    /\ UNCHANGED <<running, boot_id, next_sequence, last_raw, submission,
                   sent, historyVars, submissions, writeFaults>>

\* A stop takes the memory and the requests in flight.
StopLeaving(file) ==
    /\ running
    /\ stops < MaxStops
    /\ stops' = stops + 1
    /\ running' = FALSE
    /\ bootFile' = file
    /\ last_raw' = NoFrame
    /\ submission' = [s \in Submitters |-> Idle]
    /\ UNCHANGED <<boot_id, next_sequence, sent, historyVars,
                   submissions, writeFaults>>

Stop == StopLeaving(bootFile)
-----------------------------------------------------------------------------
(* make_frame, under the lock.                                             *)

\* The number the session would use next, SKIP_SEQUENCE applied.
Skipped(mode) ==
    IF mode = "SKIP_SEQUENCE" THEN next_sequence + 1 ELSE next_sequence

\* _apply_wire_failure changes bytes, never the key the frame was made with.
WireFailure(mode) ==
    CASE mode = "CORRUPT_CRC" -> "crc"
      [] mode = "UNSUPPORTED_VERSION" -> "version"
      [] OTHER -> "intact"

\* Mutant: every frame would be remembered.
RemembersAll(mode) == mode \in MakingModes

\* Frames spoilt on purpose are not remembered for DUPLICATE_LAST.
Remembers(mode) == mode \in {"NONE", "SKIP_SEQUENCE"}

\* A request comes in while the process serves and s has none waiting.
Begin(s) ==
    /\ running
    /\ submission[s] = Idle
    /\ submissions < MaxSubmissions
    /\ submissions' = submissions + 1

\* forward posts the bytes for the first time, under a new request id.
FirstPost(s, raw) ==
    /\ submission' = [submission EXCEPT ![s] =
                        [pc |-> "posted", request |-> submissions + 1,
                         raw |-> raw, attempt |-> 1]]
    /\ sent' = sent \cup {[request |-> submissions + 1, raw |-> raw]}

\* The frame made with the identifier and the number given, and forwarded.
MakeAndForward(s, mode, boot, seq) ==
    LET raw == [boot |-> boot, seq |-> seq, body |-> submissions + 1,
                wire |-> WireFailure(mode)]
    IN  /\ made' = made \cup {raw}
        /\ newest' = Key(raw)
        /\ last_raw' = IF Remembers(mode) THEN raw ELSE last_raw
        /\ FirstPost(s, raw)

\* The session still has numbers.
MakeInSession(s, mode) ==
    /\ Begin(s)
    /\ Skipped(mode) <= MaxSequence
    /\ next_sequence' = Skipped(mode) + 1
    /\ MakeAndForward(s, mode, boot_id, Skipped(mode))
    /\ UNCHANGED <<bootFile, running, boot_id, stops, writeFaults>>

\* The session is used up and another identifier is left.
MustRoll(mode) ==
    /\ Skipped(mode) > MaxSequence
    /\ boot_id < MaxBoot

\* _roll_session_if_needed: the next identifier, stored, then number zero.
MakeAfterRoll(s, mode) ==
    /\ Begin(s)
    /\ MustRoll(mode)
    /\ boot_id' = boot_id + 1
    /\ bootFile' = boot_id + 1
    /\ next_sequence' = 1
    /\ MakeAndForward(s, mode, boot_id + 1, 0)
    /\ UNCHANGED <<running, stops, writeFaults>>

\* The process stops after the new identifier is stored and before a frame
\* carries it.
StopWhileRolling(s, mode) ==
    /\ running
    /\ submission[s] = Idle
    /\ MustRoll(mode)
    /\ StopLeaving(boot_id + 1)

\* Mutant: the counter would be reset before the identifier is stored.
RollFailsAfterReset(s, mode) ==
    /\ Begin(s)
    /\ MustRoll(mode)
    /\ writeFaults < MaxWriteFaults
    /\ writeFaults' = writeFaults + 1
    /\ boot_id' = boot_id + 1
    /\ next_sequence' = 0
    /\ UNCHANGED <<bootFile, running, last_raw, submission, sent,
                   historyVars, stops>>

\* Storing the identifier fails: memory is ahead of the file, the counter is
\* not reset and the request ends with an error.
RollFails(s, mode) ==
    /\ Begin(s)
    /\ MustRoll(mode)
    /\ writeFaults < MaxWriteFaults
    /\ writeFaults' = writeFaults + 1
    /\ boot_id' = boot_id + 1
    /\ next_sequence' = Skipped(mode)
    /\ UNCHANGED <<bootFile, running, last_raw, submission, sent,
                   historyVars, stops>>

\* No identifier is left: the request ends with an error, the number
\* SKIP_SEQUENCE stepped over stays stepped over.
SpaceExhausted(s, mode) ==
    /\ Begin(s)
    /\ Skipped(mode) > MaxSequence
    /\ boot_id = MaxBoot
    /\ next_sequence' = Skipped(mode)
    /\ UNCHANGED <<bootFile, running, boot_id, last_raw, submission, sent,
                   historyVars, stops, writeFaults>>

\* DUPLICATE_LAST forwards the remembered bytes under a new request id;
\* without any the request is refused with 409 and nothing changes.
DuplicateLast(s) ==
    /\ Begin(s)
    /\ last_raw # NoFrame
    /\ FirstPost(s, last_raw)
    /\ UNCHANGED <<sessionVars, historyVars, stops, writeFaults>>
-----------------------------------------------------------------------------
(* VendorForwarder.forward.                                                *)

\* An answer below 500, or any answer to the third try, ends the request.
Answered(s) ==
    /\ submission[s].pc = "posted"
    /\ submission' = [submission EXCEPT ![s] = Idle]
    /\ UNCHANGED <<sessionVars, sent, historyVars, submissions,
                   stops, writeFaults>>

\* An answer of 500 or more, a refused connection or a time-out: the request
\* ends after the third try and sleeps before the next otherwise.
TryFails(s) ==
    /\ submission[s].pc = "posted"
    /\ submission' = [submission EXCEPT ![s] =
                        IF submission[s].attempt = 3 THEN Idle
                        ELSE [submission[s] EXCEPT !.pc = "backoff"]]
    /\ UNCHANGED <<sessionVars, sent, historyVars, submissions,
                   stops, writeFaults>>

\* The next try of the request of s, with the bytes given.
RetryWith(s, raw) ==
    /\ submission' = [submission EXCEPT ![s] =
                        [pc |-> "posted", request |-> submission[s].request,
                         raw |-> raw, attempt |-> submission[s].attempt + 1]]
    /\ sent' = sent \cup {[request |-> submission[s].request, raw |-> raw]}
    /\ UNCHANGED <<sessionVars, historyVars, submissions, stops, writeFaults>>

\* Mutant: the retry would read the bytes from the application state.
RetryLastRaw(s) ==
    /\ last_raw # NoFrame
    /\ submission[s].pc = "backoff"
    /\ RetryWith(s, last_raw)

\* The sleep is over: the same bytes under the same request identifier.
RetryPost(s) ==
    /\ submission[s].pc = "backoff"
    /\ RetryWith(s, submission[s].raw)
-----------------------------------------------------------------------------
Forward(s) == Answered(s) \/ TryFails(s) \/ RetryPost(s)

Make(s) ==
    \/ \E mode \in MakingModes :
         \/ MakeInSession(s, mode)
         \/ MakeAfterRoll(s, mode)
         \/ StopWhileRolling(s, mode)
         \/ RollFails(s, mode)
         \/ SpaceExhausted(s, mode)
    \/ DuplicateLast(s)

SourceNext ==
    \/ Start
    \/ StopWhileStarting
    \/ Stop
    \/ \E s \in Submitters : Make(s) \/ Forward(s)

SourceSpec == SourceInit /\ [][SourceNext]_sourceVars

-----------------------------------------------------------------------------
(* Properties.                                                             *)

SourceTypeOK ==
    /\ bootFile \in 0 .. MaxBoot
    /\ running \in BOOLEAN
    /\ boot_id \in 0 .. MaxBoot
    /\ next_sequence \in Nat
    /\ last_raw \in IntactFrames \cup {NoFrame}
    /\ submission \in [Submitters -> {Idle} \cup Forwarding]
    /\ sent \in SUBSET Deliveries
    /\ made \in SUBSET Frames
    /\ newest \in (0 .. MaxBoot) \X (0 .. MaxSequence)
    /\ submissions \in 0 .. MaxSubmissions
    /\ stops \in 0 .. MaxStops
    /\ writeFaults \in 0 .. MaxWriteFaults

\* Whatever the restarts, rollovers, skipped numbers, failed writes and
\* duplicates, no packet key is ever sent with two different contents:
\* an honest source causes no SEQUENCE_CONFLICT (make_frame, DUPLICATE_LAST).
KeysNameOneFrame ==
    \A d, e \in sent : Key(d.raw) = Key(e.raw) => d.raw = e.raw

\* All tries made under one request identifier carry the same bytes, also
\* when they arrive late or twice and other requests run in between
\* (VendorForwarder.forward: "the same identity and exact bytes").
RetriesAreExact ==
    \A d, e \in sent : d.request = e.request => d.raw = e.raw

\* The source hands keys out in strictly increasing order over all restarts:
\* it implements KeyIssuer.
Issuer == INSTANCE KeyIssuer
IssuesIncreasingKeys == Issuer!IssuerSpec
-----------------------------------------------------------------------------
(* The inductive invariant behind the proofs.                              *)

\* The file is never behind an identifier that was used; memory may be ahead
\* of the file, after a failed write, but then has no number to hand out.
FileCoversKeys ==
    /\ newest[1] <= bootFile
    /\ running => /\ boot_id >= 1
                  /\ bootFile <= boot_id
                  /\ next_sequence <= MaxSequence => bootFile = boot_id
                  /\ boot_id = newest[1] => newest[2] < next_sequence

\* No frame made so far has a key after the newest, and no two share one.
MadeInOrder ==
    /\ \A f \in made : Key(f) = newest \/ Issuer!Before(Key(f), newest)
    /\ \A f, g \in made : Key(f) = Key(g) => f = g

\* Everything remembered, held or sent is a frame that was made, and a request
\* in progress has been sent as it stands.
FramesTraced ==
    /\ last_raw = NoFrame \/ last_raw \in made
    /\ \A d \in sent : d.raw \in made /\ d.request <= submissions
    /\ \A s \in Submitters : submission[s] # Idle =>
          [request |-> submission[s].request, raw |-> submission[s].raw] \in sent

SourceInv == SourceTypeOK /\ FileCoversKeys /\ MadeInOrder /\ FramesTraced
             /\ RetriesAreExact
=============================================================================
