---------------------------- MODULE CommandPath ----------------------------
(***************************************************************************)
(* The legacy command path: mission-api stores and publishes a command,    *)
(* command-dispatcher sends it to the spacecraft over UDP, the spacecraft  *)
(* applies it and answers, telemetry-ingest publishes the answer, and      *)
(* telemetry-processor writes the status.                                  *)
(*                                                                         *)
(* A JetStream subject with its durable consumer is a sequence: the head is *)
(* delivered next, nak and redelivery put a message behind what came in    *)
(* meanwhile.  nats-py awaits one callback at a time per subscription, and *)
(* the subscriptions are independent.  UDP may lose, double and reorder.   *)
(* Every statement runs in its own transaction (autocommit).               *)
(***************************************************************************)
EXTENDS Integers, Sequences

CONSTANTS
    Requests,     \* bodies and headers of POST /commands
    MaxCommands,  \* bound: commands stored in a behaviour
    MaxFaults,    \* bound: failed calls and stopped services
    MaxSpace,     \* bound: datagrams lost or doubled, spacecraft restarts
    None          \* no row, no cached result

ASSUME CommandAssumption ==
    /\ MaxCommands \in Nat /\ MaxFaults \in Nat
    /\ MaxSpace \in Nat
    /\ Requests \subseteq [name : {"SET_MODE", "SET_WHEEL_RPM", "RESET_FAULTS",
                                   "OTHER"},
                           argument : Int, dry_run : BOOLEAN,
                           operator : BOOLEAN, armed : BOOLEAN]
    /\ None \notin {0, 1} /\ None \notin {"ACKED", "REJECTED"}

VARIABLES
    request,     \* request[c]: what command row c was created from, or None
    status,      \* status[c]: column status of the row
    api,         \* api[c]: how far create_command came for c
    audit,       \* audit_events: [action, id]
    dispatchQ,   \* commands.dispatch
    dispatcher,  \* the callback dispatch
    statusQ,     \* commands.status
    uplink,      \* uplink[c]: command datagrams in flight
    vehicle,     \* SpacecraftState: mode, wheel_rpm, fault_flags
    results,     \* SpacecraftState.command_results
    downlink,    \* downlink[a]: acknowledgement datagrams in flight
    ackQ,        \* telemetry.command_ack
    applied,     \* history: applied[c], times in this run of the spacecraft
    everApplied, \* history: commands applied in any run
    lost,        \* history: commands one of whose datagrams was lost
    faults,      \* failed calls and stopped services so far
    space        \* faults of the links and the spacecraft so far

apiVars == <<request, status, api, audit>>
groundVars == <<dispatchQ, dispatcher, statusQ, ackQ>>
linkVars == <<uplink, downlink, lost>>
craftVars == <<vehicle, results, applied, everApplied, space>>
commandVars == <<apiVars, groundVars, linkVars, craftVars, faults>>

Ids == 1 .. MaxCommands

\* CommandAck, without its time: 0 is accepted, 1 rejected.
Acks == [id : Ids, status : {0, 1}]

DispatcherIdle == [pc |-> "idle"]

PoweredOn == [mode |-> 1, wheel_rpm |-> 1200, fault_flags |-> 0]

CommandInit ==
    /\ request = [c \in Ids |-> None]
    /\ status = [c \in Ids |-> None]
    /\ api = [c \in Ids |-> "unused"]
    /\ audit = {}
    /\ dispatchQ = <<>>
    /\ dispatcher = DispatcherIdle
    /\ statusQ = <<>>
    /\ uplink = [c \in Ids |-> 0]
    /\ vehicle = PoweredOn
    /\ results = [c \in Ids |-> None]
    /\ downlink = [a \in Acks |-> 0]
    /\ ackQ = <<>>
    /\ applied = [c \in Ids |-> 0]
    /\ everApplied = {}
    /\ lost = {}
    /\ faults = 0
    /\ space = 0

Fault == faults < MaxFaults /\ faults' = faults + 1

Audited(action, c) == audit \cup {[action |-> action, id |-> c]}
-----------------------------------------------------------------------------
(* mission-api: create_command.                                            *)

\* COMMANDS: the least and the greatest argument of each allowed command.
COMMANDS ==
    [SET_MODE |-> [minimum |-> 0, maximum |-> 3],
     SET_WHEEL_RPM |-> [minimum |-> -6000, maximum |-> 6000],
     RESET_FAULTS |-> [minimum |-> 0, maximum |-> 0]]

\* validate_command.
Valid(r) ==
    /\ r.name \in DOMAIN COMMANDS
    /\ COMMANDS[r.name].minimum <= r.argument
    /\ r.argument <= COMMANDS[r.name].maximum

\* A live command needs the operator token and the arm token.
Permitted(r) == r.dry_run \/ (r.operator /\ r.armed)

\* A valid and permitted request becomes a row; others end with 422, 401 or
\* 409 and change nothing.
InsertCommand(c, r) ==
    /\ api[c] = "unused"
    /\ \A d \in Ids : d < c => api[d] # "unused"
    /\ Valid(r)
    /\ Permitted(r)
    /\ request' = [request EXCEPT ![c] = r]
    /\ status' = [status EXCEPT ![c] = IF r.dry_run THEN "DRY_RUN_VALIDATED"
                                       ELSE "QUEUED"]
    /\ api' = [api EXCEPT ![c] = "stored"]
    /\ UNCHANGED <<audit, groundVars, linkVars, craftVars, faults>>

\* Mutant: the dispatcher would hear of dry runs too.
InsertAuditPublishingAll(c) ==
    /\ api[c] = "stored"
    /\ audit' = Audited("COMMAND_CREATED", c)
    /\ api' = [api EXCEPT ![c] = "audited"]
    /\ UNCHANGED <<request, status, groundVars, linkVars, craftVars, faults>>

InsertAudit(c) ==
    /\ api[c] = "stored"
    /\ audit' = Audited("COMMAND_CREATED", c)
    /\ api' = [api EXCEPT ![c] = IF request[c].dry_run THEN "accepted"
                                 ELSE "audited"]
    /\ UNCHANGED <<request, status, groundVars, linkVars, craftVars, faults>>

PublishCommand(c) ==
    /\ api[c] = "audited"
    /\ dispatchQ' = Append(dispatchQ, c)
    /\ api' = [api EXCEPT ![c] = "accepted"]
    /\ UNCHANGED <<request, status, audit, dispatcher, statusQ, ackQ,
                   linkVars, craftVars, faults>>

\* A statement or the publish fails, or the service stops: the row stays.  A
\* publish may time out although the stream has stored the message.
ApiFails(c) ==
    /\ api[c] \in {"stored", "audited"}
    /\ Fault
    /\ api' = [api EXCEPT ![c] = "failed"]
    /\ dispatchQ' \in IF api[c] = "audited"
                      THEN {dispatchQ, Append(dispatchQ, c)} ELSE {dispatchQ}
    /\ UNCHANGED <<request, status, audit, dispatcher, statusQ, ackQ,
                   linkVars, craftVars>>
-----------------------------------------------------------------------------
(* command-dispatcher: dispatch.                                           *)

DispatchTake ==
    /\ dispatcher = DispatcherIdle
    /\ dispatchQ # <<>>
    /\ dispatcher' = [pc |-> "send", id |-> Head(dispatchQ)]
    /\ dispatchQ' = Tail(dispatchQ)
    /\ UNCHANGED <<apiVars, statusQ, ackQ, linkVars, craftVars, faults>>

DispatchSend ==
    /\ dispatcher.pc = "send"
    /\ uplink' = [uplink EXCEPT ![dispatcher.id] = @ + 1]
    /\ dispatcher' = [dispatcher EXCEPT !.pc = "report"]
    /\ UNCHANGED <<apiVars, dispatchQ, statusQ, ackQ, downlink, lost,
                   craftVars, faults>>

\* Publish a status event for the command in hand.
Report(s) == statusQ' = Append(statusQ, [id |-> dispatcher.id, status |-> s])

DispatchReport ==
    /\ dispatcher.pc = "report"
    /\ Report("DISPATCHED")
    /\ dispatcher' = [dispatcher EXCEPT !.pc = "ack"]
    /\ UNCHANGED <<apiVars, dispatchQ, ackQ, linkVars, craftVars, faults>>

DispatchAck ==
    /\ dispatcher.pc = "ack"
    /\ dispatcher' = DispatcherIdle
    /\ UNCHANGED <<apiVars, dispatchQ, statusQ, ackQ, linkVars, craftVars,
                   faults>>

\* Any of the calls raises, a publish possibly after the stream stored it.
DispatchFails ==
    /\ dispatcher.pc \in {"send", "report", "ack"}
    /\ Fault
    /\ \/ UNCHANGED statusQ
       \/ dispatcher.pc = "report" /\ Report("DISPATCHED")
    /\ dispatcher' = [dispatcher EXCEPT !.pc = "failed"]
    /\ UNCHANGED <<apiVars, dispatchQ, ackQ, linkVars, craftVars>>

\* Mutant: a failed dispatch would be acknowledged.
ReportErrorAndAck ==
    /\ dispatcher.pc = "failed"
    /\ Report("DISPATCH_ERROR")
    /\ dispatcher' = DispatcherIdle
    /\ UNCHANGED <<apiVars, dispatchQ, ackQ, linkVars, craftVars, faults>>

\* The exception handler: report if that works, then nak in any case.
DispatchReportError ==
    /\ dispatcher.pc = "failed"
    /\ Report("DISPATCH_ERROR") \/ UNCHANGED statusQ
    /\ dispatchQ' = Append(dispatchQ, dispatcher.id)
    /\ dispatcher' = DispatcherIdle
    /\ UNCHANGED <<apiVars, ackQ, linkVars, craftVars, faults>>

\* The dispatcher stops with a message in hand: it is delivered again.
DispatcherStops ==
    /\ dispatcher # DispatcherIdle
    /\ Fault
    /\ dispatchQ' = Append(dispatchQ, dispatcher.id)
    /\ dispatcher' = DispatcherIdle
    /\ UNCHANGED <<apiVars, statusQ, ackQ, linkVars, craftVars>>
-----------------------------------------------------------------------------
(* The spacecraft: datagram_received and SpacecraftState.apply.            *)

\* Mutant: the lower limits would be taken as excluded.
CraftAcceptsInside(r) ==
    \/ r.name = "SET_MODE" /\ 0 < r.argument /\ r.argument <= 3
    \/ r.name = "SET_WHEEL_RPM" /\ -6000 < r.argument /\ r.argument <= 6000
    \/ r.name = "RESET_FAULTS" /\ r.argument = 0

\* The tests of apply, by opcode and argument as the frame carries them.
CraftAccepts(r) ==
    \/ r.name = "SET_MODE" /\ 0 <= r.argument /\ r.argument <= 3
    \/ r.name = "SET_WHEEL_RPM" /\ -6000 <= r.argument /\ r.argument <= 6000
    \/ r.name = "RESET_FAULTS" /\ r.argument = 0

Apply(r) ==
    [mode |-> IF r.name = "SET_MODE" THEN r.argument ELSE vehicle.mode,
     wheel_rpm |-> IF r.name = "SET_WHEEL_RPM" THEN r.argument
                   ELSE vehicle.wheel_rpm,
     fault_flags |-> IF r.name = "RESET_FAULTS" THEN 0 ELSE vehicle.fault_flags]

Answer(c, s) == downlink' = [downlink EXCEPT ![[id |-> c, status |-> s]] = @ + 1]

Arrives(c) ==
    /\ uplink[c] > 0
    /\ uplink' = [uplink EXCEPT ![c] = @ - 1]

\* Mutant: the cache of results would not be asked.
ReceiveAgainApplies(c) ==
    /\ Arrives(c)
    /\ results[c] # None
    /\ vehicle' = Apply(request[c])
    /\ applied' = [applied EXCEPT ![c] = @ + 1]
    /\ Answer(c, results[c])
    /\ UNCHANGED <<apiVars, groundVars, lost, results, everApplied,
                   space, faults>>

\* A known command is answered from the cache.
ReceiveAgain(c) ==
    /\ Arrives(c)
    /\ results[c] # None
    /\ Answer(c, results[c])
    /\ UNCHANGED <<apiVars, groundVars, lost, craftVars, faults>>

\* A new one is applied or refused, and the answer is kept and sent: one callback
\* without an await, so a kill in its middle is not modelled.
ReceiveFirst(c) ==
    LET ok == CraftAccepts(request[c])
    IN  /\ Arrives(c)
        /\ results[c] = None
        /\ vehicle' = IF ok THEN Apply(request[c]) ELSE vehicle
        /\ results' = [results EXCEPT ![c] = IF ok THEN 0 ELSE 1]
        /\ applied' = [applied EXCEPT ![c] = IF ok THEN @ + 1 ELSE @]
        /\ everApplied' = IF ok THEN everApplied \cup {c} ELSE everApplied
        /\ Answer(c, results'[c])
        /\ UNCHANGED <<apiVars, groundVars, lost, space, faults>>

\* A restart forgets vehicle state and results; the links keep what flies.
SpacecraftRestarts ==
    /\ space < MaxSpace
    /\ space' = space + 1
    /\ vehicle' = PoweredOn
    /\ results' = [c \in Ids |-> None]
    /\ applied' = [c \in Ids |-> 0]
    /\ UNCHANGED <<apiVars, groundVars, linkVars, everApplied, faults>>

\* UDP loses or doubles a datagram.
LinkFault ==
    /\ space < MaxSpace
    /\ space' = space + 1
    /\ \/ \E c \in Ids : /\ uplink[c] > 0
                         /\ uplink' = [uplink EXCEPT ![c] = @ - 1]
                         /\ lost' = lost \cup {c}
                         /\ UNCHANGED downlink
       \/ \E c \in Ids : /\ uplink[c] > 0
                         /\ uplink' = [uplink EXCEPT ![c] = @ + 1]
                         /\ UNCHANGED <<downlink, lost>>
       \/ \E a \in Acks : /\ downlink[a] > 0
                          /\ downlink' = [downlink EXCEPT ![a] = @ - 1]
                          /\ lost' = lost \cup {a.id}
                          /\ UNCHANGED uplink
    /\ UNCHANGED <<apiVars, groundVars, vehicle, results, applied, everApplied,
                   faults>>
-----------------------------------------------------------------------------
(* telemetry-ingest and telemetry-processor.                               *)

\* _process publishes the answer; if that fails the datagram is gone.
Ingest(a) ==
    /\ downlink[a] > 0
    /\ downlink' = [downlink EXCEPT ![a] = @ - 1]
    /\ \/ ackQ' = Append(ackQ, a) /\ UNCHANGED <<lost, faults>>
       \/ Fault /\ lost' = lost \cup {a.id} /\ UNCHANGED ackQ
    /\ UNCHANGED <<apiVars, dispatchQ, dispatcher, statusQ, uplink,
                   craftVars>>

Redeliver(q) == Append(Tail(q), Head(q))

AckStatus(ack) == IF ack.status = 0 THEN "ACKED" ELSE "REJECTED"

\* A handler updates the row, adds the audit row and acknowledges.  When it
\* fails, or the service stops, some of the first two are done and the message
\* is delivered again.
Handled(c, new, action) ==
    /\ status' = [status EXCEPT ![c] = new]
    /\ audit' = Audited(action, c)
    /\ UNCHANGED faults

HandledInPart(c, new, action) ==
    /\ Fault
    /\ \/ UNCHANGED <<status, audit>>
       \/ status' = [status EXCEPT ![c] = new] /\ UNCHANGED audit
       \/ status' = [status EXCEPT ![c] = new] /\ audit' = Audited(action, c)

\* Mutant: a handler that could not reach the database would acknowledge.
AckDropsUntouched ==
    /\ ackQ # <<>>
    /\ LET a == Head(ackQ)
       IN  \/ Handled(a.id, AckStatus(a), "COMMAND_ACK")
           \/ Fault /\ UNCHANGED <<status, audit>>
    /\ ackQ' = Tail(ackQ)
    /\ UNCHANGED <<request, api, dispatchQ, dispatcher, statusQ, linkVars, craftVars>>

\* process_ack.
ProcessAck ==
    /\ ackQ # <<>>
    /\ LET a == Head(ackQ)
       IN  \/ /\ Handled(a.id, AckStatus(a), "COMMAND_ACK")
              /\ ackQ' = Tail(ackQ)
           \/ /\ HandledInPart(a.id, AckStatus(a), "COMMAND_ACK")
              /\ ackQ' = Redeliver(ackQ)
    /\ UNCHANGED <<request, api, dispatchQ, dispatcher, statusQ, linkVars, craftVars>>

\* process_status.
ProcessStatus ==
    /\ statusQ # <<>>
    /\ LET e == Head(statusQ)
       IN  \/ /\ Handled(e.id, e.status, "COMMAND_STATUS")
              /\ statusQ' = Tail(statusQ)
           \/ /\ HandledInPart(e.id, e.status, "COMMAND_STATUS")
              /\ statusQ' = Redeliver(statusQ)
    /\ UNCHANGED <<request, api, dispatchQ, dispatcher, ackQ, linkVars, craftVars>>
-----------------------------------------------------------------------------
Dispatch ==
    \/ DispatchTake \/ DispatchSend \/ DispatchReport \/ DispatchAck
    \/ DispatchReportError

Receive(c) == ReceiveFirst(c) \/ ReceiveAgain(c)

CommandNext ==
    \/ \E c \in Ids : \/ \E r \in Requests : InsertCommand(c, r)
                      \/ InsertAudit(c) \/ PublishCommand(c) \/ ApiFails(c)
                      \/ Receive(c)
    \/ Dispatch \/ DispatchFails \/ DispatcherStops
    \/ SpacecraftRestarts \/ LinkFault
    \/ \E a \in Acks : Ingest(a)
    \/ ProcessAck \/ ProcessStatus

CommandSpec == CommandInit /\ [][CommandNext]_commandVars

\* Services and spacecraft go on with what they have; containers restart by
\* themselves.  Datagrams that are not lost arrive.  Nothing is assumed of
\* operators and faults; faults are bounded, so a step that may fail is taken
\* without failing in the end.
CommandFairness ==
    /\ \A c \in Ids : /\ WF_commandVars(InsertAudit(c) \/ PublishCommand(c))
                      /\ WF_commandVars(Receive(c))
    /\ WF_commandVars(Dispatch)
    /\ \A a \in Acks : WF_commandVars(Ingest(a))
    /\ WF_commandVars(ProcessAck)
    /\ WF_commandVars(ProcessStatus)

FairCommands == CommandSpec /\ CommandFairness
-----------------------------------------------------------------------------
(* Properties.                                                             *)

Statuses == {"DRY_RUN_VALIDATED", "QUEUED", "DISPATCHED", "DISPATCH_ERROR",
             "ACKED", "REJECTED"}

AuditRows ==
    [action : {"COMMAND_CREATED", "COMMAND_STATUS", "COMMAND_ACK"}, id : Ids]

\* Rows hold validated requests only; the vehicle stays within its ranges.
CommandTypeOK ==
    /\ request \in [Ids -> {r \in Requests : Valid(r)} \cup {None}]
    /\ status \in [Ids -> Statuses \cup {None}]
    /\ api \in [Ids -> {"unused", "stored", "audited", "accepted", "failed"}]
    /\ audit \subseteq AuditRows
    /\ dispatchQ \in Seq(Ids)
    /\ statusQ \in Seq([id : Ids, status : {"DISPATCHED", "DISPATCH_ERROR"}])
    /\ ackQ \in Seq(Acks)
    /\ uplink \in [Ids -> Nat]
    /\ downlink \in [Acks -> Nat]
    /\ results \in [Ids -> {0, 1, None}]
    /\ vehicle \in [mode : 0 .. 3, wheel_rpm : Int, fault_flags : {0, 1}]
    /\ -6000 <= vehicle.wheel_rpm /\ vehicle.wheel_rpm <= 6000

\* A datagram in flight, or a command the vehicle has acted on, belongs to a
\* request that was live, held both tokens, was on the allowlist, and had its
\* creation audited first, whatever failed on the way (create_command, dispatch).
SentIsAuthorised ==
    \A c \in Ids : (uplink[c] > 0 \/ c \in everApplied) =>
        /\ ~request[c].dry_run /\ request[c].operator /\ request[c].armed
        /\ Valid(request[c])
        /\ [action |-> "COMMAND_CREATED", id |-> c] \in audit

\* In one run of the spacecraft a command acts at most once, although it may
\* be redelivered, sent again and doubled on the link (command_results).
AppliedOncePerRun == \A c \in Ids : applied[c] <= 1

\* ACKED is never claimed of a command the spacecraft has not applied, and no
\* validated command is ever refused: the allowlist of the API and the tests
\* of the spacecraft agree at their limits (validate_command, apply).
StatusIsTruthful ==
    /\ \A c \in Ids : /\ status[c] = "ACKED" => c \in everApplied
                      /\ status[c] # "REJECTED"
    /\ \A r \in Requests : Valid(r) <=> CraftAccepts(r)

\* A live command answered 202 is applied, unless a datagram of it is lost: no
\* failed call and no stopped service loses it (nak, redelivery).
AcceptedIsApplied ==
    \A c \in Ids :
        api[c] = "accepted" /\ ~request[c].dry_run
            ~> c \in everApplied \/ c \in lost

\* The answer of the spacecraft reaches the ground's records: an applied
\* command has its COMMAND_ACK audited, unless a datagram of it is lost.
AppliedIsRecorded ==
    \A c \in Ids :
        c \in everApplied
            ~> [action |-> "COMMAND_ACK", id |-> c] \in audit \/ c \in lost

\* "The ACK traverses the telemetry path and updates command state to ACKED or
\* REJECTED": once its answer is recorded, the row settles there.
AckSettlesStatus ==
    \A c \in Ids :
        [action |-> "COMMAND_ACK", id |-> c] \in audit
            ~> [](status[c] \in {"ACKED", "REJECTED"})
=============================================================================
