-------------------------- MODULE CommandPathProofs --------------------------
(***************************************************************************)
(* The safety of the command path for any set of requests, any number of   *)
(* commands and any number of faults.                                      *)
(*                                                                         *)
(* A command is cleared once its row is live, permitted and valid and its  *)
(* creation is audited.  Clearance is never taken back, and everything the *)
(* ground sends on (dispatchQ, dispatcher, uplink) or the vehicle has done *)
(* is about cleared commands: that is the first half of the invariant.  An *)
(* answer is earned when it accepts a command that was applied; downlink   *)
(* and ackQ hold earned answers only: that is the second half, and it      *)
(* rests on the first, since the vehicle accepts exactly what is valid.    *)
(***************************************************************************)
EXTENDS CommandPath, TLAPS

Created(c) == [action |-> "COMMAND_CREATED", id |-> c]

Cleared ==
    {c \in Ids : /\ api[c] # "unused"
                 /\ request[c] \in Requests /\ Valid(request[c])
                 /\ ~request[c].dry_run
                 /\ request[c].operator /\ request[c].armed
                 /\ Created(c) \in audit}

Earned == {a \in Acks : a.status = 0 /\ a.id \in everApplied}

\* What the ground holds or has sent is cleared.
Clearance ==
    /\ \A c \in Ids : /\ api[c] = "stored" => /\ request[c] \in Requests
                                              /\ Valid(request[c])
                                              /\ Permitted(request[c])
                      /\ api[c] = "audited" => c \in Cleared
                      /\ uplink[c] > 0 => c \in Cleared
    /\ dispatchQ \in Seq(Cleared)
    /\ dispatcher \in {DispatcherIdle} \cup
                      [pc : {"send", "report", "ack", "failed"}, id : Cleared]
    /\ everApplied \subseteq Cleared

\* What the vehicle has answered, and the rows say of it, is earned.
Answers ==
    /\ applied \in [Ids -> 0 .. 1]
    /\ \A c \in Ids : /\ results[c] = None => applied[c] = 0
                      /\ results[c] # None => results[c] = 0 /\ c \in everApplied
                      /\ status[c] = "ACKED" => c \in everApplied
                      /\ status[c] # "REJECTED"
    /\ \A a \in Acks : downlink[a] > 0 => a \in Earned
    /\ ackQ \in Seq(Earned)

CommandInv == CommandTypeOK /\ Clearance /\ Answers
-----------------------------------------------------------------------------
(* Facts about the operators.                                              *)

\* A queue of members of S is a queue of members of a larger set.
LEMMA WiderQueue ==
    ASSUME NEW S, NEW T, S \subseteq T, NEW q \in Seq(S)
    PROVE  q \in Seq(T)
OBVIOUS

\* A queue stays a queue of members of S when one more is appended.
LEMMA AppendInQueue ==
    ASSUME NEW S, NEW q \in Seq(S), NEW e \in S
    PROVE  Append(q, e) \in Seq(S)
OBVIOUS

\* Redelivery reorders a queue and keeps its members.
LEMMA RedeliverInQueue ==
    ASSUME NEW S, NEW q \in Seq(S), q # <<>>
    PROVE  Redeliver(q) \in Seq(S) /\ Head(q) \in S /\ Tail(q) \in Seq(S)
BY DEF Redeliver

\* validate_command and SpacecraftState.apply accept the same requests.
LEMMA AllowlistsAgree ==
    \A r \in Requests : Valid(r) <=> CraftAccepts(r)
<1> TAKE r \in Requests
<1>1. r.argument \in Int
  BY CommandAssumption
<1>2. r.name \in {"SET_MODE", "SET_WHEEL_RPM", "RESET_FAULTS", "OTHER"}
  BY CommandAssumption
<1>3. CASE r.name = "SET_MODE"
  BY <1>1, <1>3 DEF Valid, COMMANDS, CraftAccepts
<1>4. CASE r.name = "SET_WHEEL_RPM"
  BY <1>1, <1>4 DEF Valid, COMMANDS, CraftAccepts
<1>5. CASE r.name = "RESET_FAULTS"
  BY <1>1, <1>5 DEF Valid, COMMANDS, CraftAccepts
<1>6. CASE r.name = "OTHER"
  BY <1>1, <1>6 DEF Valid, COMMANDS, CraftAccepts
<1> QED BY <1>2, <1>3, <1>4, <1>5, <1>6

\* A valid command leaves the vehicle within its ranges.
LEMMA ApplyInRange ==
    ASSUME CommandTypeOK, NEW r \in Requests, Valid(r)
    PROVE  /\ Apply(r) \in [mode : 0 .. 3, wheel_rpm : Int, fault_flags : {0, 1}]
           /\ -6000 <= Apply(r).wheel_rpm /\ Apply(r).wheel_rpm <= 6000
<1>1. /\ r.argument \in Int
      /\ r.name = "SET_MODE" => r.argument \in 0 .. 3
      /\ r.name = "SET_WHEEL_RPM" => -6000 <= r.argument /\ r.argument <= 6000
  BY CommandAssumption DEF Valid, COMMANDS
<1> QED BY <1>1 DEF Apply, CommandTypeOK
-----------------------------------------------------------------------------
(* mission-api.                                                            *)

\* Clearance is kept by the members of the queue and by the dispatcher when the
\* set of cleared commands grows and neither is touched.
LEMMA ClearanceGrows ==
    ASSUME Clearance, Cleared \subseteq Cleared',
           UNCHANGED <<dispatchQ, dispatcher, everApplied>>
    PROVE  /\ dispatchQ' \in Seq(Cleared')
           /\ dispatcher' \in {DispatcherIdle} \cup
                 [pc : {"send", "report", "ack", "failed"}, id : Cleared']
           /\ everApplied' \subseteq Cleared'
<1>1. dispatchQ \in Seq(Cleared')
  BY WiderQueue DEF Clearance
<1> QED BY <1>1 DEF Clearance, DispatcherIdle

\* A new row is no obstacle: it is valid and permitted when it is stored.
LEMMA InsertCommandKeeps ==
    ASSUME CommandInv, NEW c \in Ids, NEW r \in Requests, InsertCommand(c, r)
    PROVE  CommandInv'
<1> USE DEF CommandInv
<1>1. CommandTypeOK'
  BY DEF CommandTypeOK, InsertCommand, Statuses, groundVars, linkVars, craftVars
<1>2. Cleared \subseteq Cleared'
  BY DEF Cleared, InsertCommand, CommandTypeOK
<1>3. Clearance'
  BY <1>2, ClearanceGrows
  DEF Clearance, InsertCommand, CommandTypeOK, groundVars, linkVars, craftVars
<1>4. Answers'
  BY DEF Answers, Earned, InsertCommand, CommandTypeOK, groundVars, linkVars, craftVars
<1> QED BY <1>1, <1>3, <1>4

\* The audit row of a live command makes it cleared; a dry run ends here.
LEMMA InsertAuditKeeps ==
    ASSUME CommandInv, NEW c \in Ids, InsertAudit(c)
    PROVE  CommandInv'
<1> USE DEF CommandInv
<1>1. CommandTypeOK'
  BY DEF CommandTypeOK, InsertAudit, Audited, AuditRows, groundVars, linkVars,
         craftVars
<1>2. Cleared \subseteq Cleared'
  BY DEF Cleared, InsertAudit, Audited, CommandTypeOK
<1>3. api'[c] = "audited" => c \in Cleared'
  <2>1. /\ request[c] \in Requests /\ Valid(request[c])
        /\ Permitted(request[c]) /\ UNCHANGED request
    BY DEF Clearance, InsertAudit
  <2>2. request[c].dry_run \in BOOLEAN
    BY <2>1, CommandAssumption
  <2>3. api'[c] = IF request[c].dry_run THEN "accepted" ELSE "audited"
    BY DEF InsertAudit, CommandTypeOK
  <2>4. Created(c) \in audit'
    BY DEF InsertAudit, Audited, Created
  <2>5. api'[c] # "unused" /\ (api'[c] = "audited" => ~request[c].dry_run)
    BY <2>2, <2>3
  <2> QED BY <2>1, <2>4, <2>5 DEF Cleared, Permitted
<1>4. Clearance'
  <2>1. \A d \in Ids : d # c => api'[d] = api[d]
    BY DEF InsertAudit, CommandTypeOK
  <2>2. api'[c] # "stored"
    BY DEF InsertAudit, CommandTypeOK
  <2> QED BY <1>2, <1>3, <2>1, <2>2, ClearanceGrows
          DEF Clearance, InsertAudit, groundVars, linkVars, craftVars
<1>5. Answers'
  BY DEF Answers, Earned, InsertAudit, groundVars, linkVars, craftVars
<1> QED BY <1>1, <1>4, <1>5

\* Both ways in which the publish puts the command into the stream.
LEMMA PublishKeeps ==
    ASSUME CommandInv, NEW c \in Ids, PublishCommand(c) \/ ApiFails(c)
    PROVE  CommandInv'
<1> USE DEF CommandInv
<1>1. /\ api' \in [Ids -> {"unused", "stored", "audited", "accepted", "failed"}]
      /\ \A d \in Ids : d # c => api'[d] = api[d]
      /\ api'[c] \notin {"unused", "stored", "audited"}
  <2>1. \E s \in {"accepted", "failed"} : api' = [api EXCEPT ![c] = s]
    BY DEF PublishCommand, ApiFails
  <2> QED BY <2>1 DEF CommandTypeOK
<1>2. \/ dispatchQ' = dispatchQ
      \/ dispatchQ' = Append(dispatchQ, c) /\ c \in Cleared
  <2>1. CASE PublishCommand(c)
    BY <2>1 DEF PublishCommand, Clearance
  <2>2. CASE ApiFails(c) /\ api[c] = "audited"
    BY <2>2 DEF ApiFails, Clearance
  <2>3. CASE ApiFails(c) /\ api[c] # "audited"
    BY <2>3 DEF ApiFails
  <2> QED BY <2>1, <2>2, <2>3
<1>3. UNCHANGED <<request, status, audit, dispatcher, statusQ, ackQ, uplink,
                  downlink, lost, vehicle, results, applied, everApplied, space>>
  BY DEF PublishCommand, ApiFails, linkVars, craftVars
<1>4. Cleared \subseteq Cleared' /\ Cleared \subseteq Ids
  BY <1>1, <1>3 DEF Cleared
<1>5. dispatchQ' \in Seq(Cleared)
  <2>1. dispatchQ \in Seq(Cleared)
    BY DEF Clearance
  <2> QED BY <1>2, <2>1, AppendInQueue
<1>6. dispatchQ' \in Seq(Cleared') /\ dispatchQ' \in Seq(Ids)
  BY <1>4, <1>5, WiderQueue
<1>7. CommandTypeOK'
  BY <1>1, <1>3, <1>6 DEF CommandTypeOK
<1>8. Clearance'
  BY <1>1, <1>3, <1>4, <1>6 DEF Clearance, DispatcherIdle
<1>9. Answers'
  BY <1>3 DEF Answers, Earned
<1> QED BY <1>7, <1>8, <1>9
-----------------------------------------------------------------------------
(* command-dispatcher.                                                     *)

\* The commands that are cleared depend on what mission-api writes only.
LEMMA ClearedUnchanged ==
    ASSUME UNCHANGED <<request, api, audit>>
    PROVE  Cleared' = Cleared
BY DEF Cleared

\* What the dispatcher does is within the invariant when the stream and the
\* command in hand are cleared afterwards, the datagrams in flight are those of
\* cleared commands, and the status events have the form it publishes.
LEMMA DispatcherFrame ==
    ASSUME CommandInv, UNCHANGED <<apiVars, ackQ, downlink, lost, craftVars>>,
           dispatchQ' \in Seq(Cleared),
           dispatcher' \in {DispatcherIdle} \cup
                 [pc : {"send", "report", "ack", "failed"}, id : Cleared],
           statusQ' \in Seq([id : Ids, status : {"DISPATCHED", "DISPATCH_ERROR"}]),
           uplink' \in [Ids -> Nat],
           \A c \in Ids : uplink'[c] > 0 => c \in Cleared
    PROVE  CommandInv'
<1> USE DEF CommandInv
<1>1. Cleared' = Cleared
  BY ClearedUnchanged DEF apiVars
<1>2. dispatchQ' \in Seq(Ids)
  <2>1. Cleared \subseteq Ids
    BY DEF Cleared
  <2> QED BY <2>1, WiderQueue
<1>3. CommandTypeOK'
  BY <1>2 DEF CommandTypeOK, apiVars, craftVars
<1>4. Clearance'
  BY <1>1 DEF Clearance, apiVars, craftVars, DispatcherIdle
<1>5. Answers'
  BY DEF Answers, Earned, apiVars, craftVars
<1> QED BY <1>3, <1>4, <1>5

\* Every step of dispatch, a failure, a nak and a stop included, moves cleared
\* commands between the stream, the dispatcher and the link.
LEMMA DispatchKeeps ==
    ASSUME CommandInv, Dispatch \/ DispatchFails \/ DispatcherStops
    PROVE  CommandInv'
<1> DEFINE Busy == [pc : {"send", "report", "ack", "failed"}, id : Cleared]
           Events == [id : Ids, status : {"DISPATCHED", "DISPATCH_ERROR"}]
<1>1. /\ dispatchQ \in Seq(Cleared) /\ statusQ \in Seq(Events)
      /\ uplink \in [Ids -> Nat] /\ \A c \in Ids : uplink[c] > 0 => c \in Cleared
      /\ dispatcher \in {DispatcherIdle} \cup Busy
      /\ Cleared \subseteq Ids
  BY DEF CommandInv, CommandTypeOK, Clearance, Cleared
<1>2. dispatcher # DispatcherIdle => dispatcher \in Busy
  BY <1>1
<1>3. dispatcher.pc # "idle" => dispatcher \in Busy
  BY <1>2 DEF DispatcherIdle
<1>4. ASSUME dispatcher \in Busy
      PROVE  /\ Append(dispatchQ, dispatcher.id) \in Seq(Cleared)
             /\ \A s \in {"DISPATCHED", "DISPATCH_ERROR"} :
                   Append(statusQ, [id |-> dispatcher.id, status |-> s])
                       \in Seq(Events)
             /\ \A s \in {"report", "ack", "failed"} :
                   [dispatcher EXCEPT !.pc = s] \in Busy
  <2>1. dispatcher.id \in Cleared /\ dispatcher.id \in Ids
    BY <1>1, <1>4
  <2>2. \A s \in {"DISPATCHED", "DISPATCH_ERROR"} :
            [id |-> dispatcher.id, status |-> s] \in Events
    BY <2>1
  <2>3. \A s \in {"report", "ack", "failed"} : [dispatcher EXCEPT !.pc = s] \in Busy
    BY <1>4
  <2> QED BY <1>1, <2>1, <2>2, <2>3, AppendInQueue
<1>5. CASE DispatchTake
  <2>1. Head(dispatchQ) \in Cleared /\ Tail(dispatchQ) \in Seq(Cleared)
    BY <1>1, <1>5, RedeliverInQueue DEF DispatchTake
  <2>2. dispatcher' \in Busy
    BY <1>5, <2>1 DEF DispatchTake
  <2> QED BY <1>1, <1>5, <2>1, <2>2, DispatcherFrame
          DEF DispatchTake, linkVars
<1>6. CASE DispatchSend
  <2>1. dispatcher \in Busy /\ dispatcher.id \in Cleared /\ dispatcher.id \in Ids
    BY <1>1, <1>3, <1>6 DEF DispatchSend
  <2>2. dispatcher' \in Busy
    BY <1>4, <1>6, <2>1 DEF DispatchSend
  <2>3. /\ uplink' \in [Ids -> Nat]
        /\ \A c \in Ids : uplink'[c] > 0 => c \in Cleared
    BY <1>1, <1>6, <2>1 DEF DispatchSend
  <2> QED BY <1>1, <1>6, <2>2, <2>3, DispatcherFrame DEF DispatchSend
<1>7. CASE DispatchReport
  <2>1. dispatcher \in Busy
    BY <1>3, <1>7 DEF DispatchReport
  <2>2. dispatcher' \in Busy /\ statusQ' \in Seq(Events)
    BY <1>4, <1>7, <2>1 DEF DispatchReport, Report
  <2> QED BY <1>1, <1>7, <2>2, DispatcherFrame DEF DispatchReport, linkVars
<1>8. CASE DispatchAck
  BY <1>1, <1>8, DispatcherFrame DEF DispatchAck, linkVars
<1>9. CASE DispatchReportError
  <2>1. dispatcher \in Busy
    BY <1>3, <1>9 DEF DispatchReportError
  <2>2. dispatchQ' \in Seq(Cleared) /\ statusQ' \in Seq(Events)
    BY <1>1, <1>4, <1>9, <2>1 DEF DispatchReportError, Report
  <2> QED BY <1>1, <1>9, <2>2, DispatcherFrame DEF DispatchReportError, linkVars
<1>10. CASE DispatchFails
  <2>1. dispatcher \in Busy
    BY <1>3, <1>10 DEF DispatchFails
  <2>2. dispatcher' \in Busy /\ statusQ' \in Seq(Events)
    BY <1>1, <1>4, <1>10, <2>1 DEF DispatchFails, Report
  <2> QED BY <1>1, <1>10, <2>2, DispatcherFrame DEF DispatchFails, linkVars
<1>11. CASE DispatcherStops
  <2>1. dispatchQ' \in Seq(Cleared)
    BY <1>2, <1>4, <1>11 DEF DispatcherStops
  <2> QED BY <1>1, <1>11, <2>1, DispatcherFrame DEF DispatcherStops, linkVars
<1> QED BY <1>5, <1>6, <1>7, <1>8, <1>9, <1>10, <1>11 DEF Dispatch
-----------------------------------------------------------------------------
(* The spacecraft and the links.                                           *)

\* What the vehicle answers is earned: it is valid, so it was accepted, and it
\* has been applied in this run or in an earlier one.
LEMMA ReceiveKeeps ==
    ASSUME CommandInv, NEW c \in Ids, Receive(c)
    PROVE  CommandInv'
<1> USE DEF CommandInv
<1> DEFINE Ack == [id |-> c, status |-> 0]
<1>1. c \in Cleared /\ uplink[c] \in Nat /\ uplink[c] > 0
  BY DEF Receive, ReceiveFirst, ReceiveAgain, Arrives, Clearance, CommandTypeOK
<1>2. /\ request[c] \in Requests /\ Valid(request[c])
      /\ CraftAccepts(request[c])
  BY <1>1, AllowlistsAgree DEF Cleared
<1>3. Cleared' = Cleared
  BY ClearedUnchanged DEF Receive, ReceiveFirst, ReceiveAgain, apiVars
<1>4. /\ uplink' \in [Ids -> Nat]
      /\ \A d \in Ids : uplink'[d] > 0 => d \in Cleared
  <2>1. uplink' = [uplink EXCEPT ![c] = @ - 1]
    BY DEF Receive, ReceiveFirst, ReceiveAgain, Arrives
  <2> QED BY <1>1, <2>1 DEF CommandTypeOK, Clearance
<1>5. everApplied' = everApplied \cup {c}
  BY <1>2 DEF Receive, ReceiveFirst, ReceiveAgain, Answers, craftVars
<1>6. /\ results' \in [Ids -> {0, 1, None}] /\ applied' \in [Ids -> 0 .. 1]
      /\ results'[c] = 0
      /\ \A d \in Ids : d # c => results'[d] = results[d] /\ applied'[d] = applied[d]
  <2>1. CASE ReceiveFirst(c)
    <3>1. /\ results' = [results EXCEPT ![c] = 0]
          /\ applied' = [applied EXCEPT ![c] = @ + 1]
          /\ applied[c] = 0
      BY <1>2, <2>1 DEF ReceiveFirst, Answers
    <3> QED BY <3>1 DEF CommandTypeOK, Answers
  <2>2. CASE ReceiveAgain(c)
    BY <2>2 DEF ReceiveAgain, CommandTypeOK, Answers, craftVars
  <2> QED BY <2>1, <2>2 DEF Receive
<1>7. /\ downlink' \in [Acks -> Nat]
      /\ \A a \in Acks : downlink'[a] > 0 => downlink[a] > 0 \/ a = Ack
  <2>1. Ack \in Acks
    BY DEF Acks
  <2>2. downlink' = [downlink EXCEPT ![Ack] = @ + 1]
    BY <1>6 DEF Receive, ReceiveFirst, ReceiveAgain, Answer, craftVars
  <2> QED BY <2>1, <2>2 DEF CommandTypeOK
<1>8. /\ vehicle' \in [mode : 0 .. 3, wheel_rpm : Int, fault_flags : {0, 1}]
      /\ -6000 <= vehicle'.wheel_rpm /\ vehicle'.wheel_rpm <= 6000
  <2>1. CASE ReceiveFirst(c)
    <3>1. vehicle' = Apply(request[c])
      BY <1>2, <2>1 DEF ReceiveFirst
    <3> QED BY <1>2, <3>1, ApplyInRange
  <2>2. CASE ReceiveAgain(c)
    BY <2>2 DEF ReceiveAgain, CommandTypeOK, craftVars
  <2> QED BY <2>1, <2>2 DEF Receive
<1>9. UNCHANGED <<request, status, api, audit, dispatchQ, dispatcher, statusQ, ackQ>>
  BY DEF Receive, ReceiveFirst, ReceiveAgain, apiVars, groundVars
<1>10. CommandTypeOK'
  BY <1>4, <1>6, <1>7, <1>8, <1>9 DEF CommandTypeOK
<1>11. Clearance'
  BY <1>1, <1>3, <1>4, <1>5, <1>9 DEF Clearance, DispatcherIdle
<1>12. Earned \subseteq Earned' /\ Ack \in Earned'
  BY <1>5 DEF Earned, Acks
<1>13. ackQ' \in Seq(Earned')
  BY <1>9, <1>12, WiderQueue DEF Answers
<1>14. Answers'
  BY <1>5, <1>6, <1>7, <1>9, <1>12, <1>13, CommandAssumption DEF Answers
<1> QED BY <1>10, <1>11, <1>14

\* A restart forgets what was answered; what flies stays earned, since it says
\* that the command was applied, not that it still is.
LEMMA RestartKeeps ==
    ASSUME CommandInv, SpacecraftRestarts
    PROVE  CommandInv'
<1> USE DEF CommandInv
<1>1. CommandTypeOK'
  BY DEF CommandTypeOK, SpacecraftRestarts, PoweredOn, apiVars, groundVars, linkVars
<1>2. Clearance'
  BY ClearedUnchanged
  DEF Clearance, SpacecraftRestarts, apiVars, groundVars, linkVars, DispatcherIdle
<1>3. Answers'
  BY DEF Answers, Earned, SpacecraftRestarts, apiVars, groundVars, linkVars
<1> QED BY <1>1, <1>2, <1>3

\* Datagrams that vanish, or come again, are those that were in flight.
LEMMA LinkFaultKeeps ==
    ASSUME CommandInv, LinkFault
    PROVE  CommandInv'
<1> USE DEF CommandInv
<1>1. UNCHANGED <<request, status, api, audit, dispatchQ, dispatcher, statusQ,
                  ackQ, vehicle, results, applied, everApplied>>
  BY DEF LinkFault, apiVars, groundVars
<1>2. /\ uplink' \in [Ids -> Nat]
      /\ \A c \in Ids : uplink'[c] > 0 => uplink[c] > 0
  <2>1. \/ UNCHANGED uplink
        \/ \E c \in Ids : /\ uplink[c] > 0
                          /\ \/ uplink' = [uplink EXCEPT ![c] = @ - 1]
                             \/ uplink' = [uplink EXCEPT ![c] = @ + 1]
    BY DEF LinkFault
  <2>2. uplink \in [Ids -> Nat]
    BY DEF CommandTypeOK
  <2> QED BY <2>1, <2>2
<1>3. /\ downlink' \in [Acks -> Nat]
      /\ \A a \in Acks : downlink'[a] > 0 => downlink[a] > 0
  <2>1. \/ UNCHANGED downlink
        \/ \E a \in Acks : /\ downlink[a] > 0
                           /\ downlink' = [downlink EXCEPT ![a] = @ - 1]
    BY DEF LinkFault
  <2>2. downlink \in [Acks -> Nat]
    BY DEF CommandTypeOK
  <2> QED BY <2>1, <2>2
<1>4. CommandTypeOK'
  BY <1>1, <1>2, <1>3 DEF CommandTypeOK
<1>5. Clearance'
  BY <1>1, <1>2, ClearedUnchanged DEF Clearance, DispatcherIdle
<1>6. Answers'
  BY <1>1, <1>3 DEF Answers, Earned
<1> QED BY <1>4, <1>5, <1>6
-----------------------------------------------------------------------------
(* telemetry-ingest and telemetry-processor.                               *)

\* telemetry-ingest publishes earned answers only.
LEMMA IngestKeeps ==
    ASSUME CommandInv, NEW a \in Acks, Ingest(a)
    PROVE  CommandInv'
<1> USE DEF CommandInv
<1>1. UNCHANGED <<request, status, api, audit, dispatchQ, dispatcher, statusQ,
                  uplink, vehicle, results, applied, everApplied>>
  BY DEF Ingest, apiVars, craftVars
<1>2. /\ downlink' \in [Acks -> Nat]
      /\ \A b \in Acks : downlink'[b] > 0 => downlink[b] > 0
      /\ a \in Earned
  BY DEF Ingest, CommandTypeOK, Answers
<1>3. ackQ' \in Seq(Earned)
  <2>1. ackQ \in Seq(Earned)
    BY DEF Answers
  <2> QED BY <1>2, <2>1, AppendInQueue DEF Ingest
<1>4. ackQ' \in Seq(Acks) /\ Earned' = Earned
  BY <1>1, <1>3, WiderQueue DEF Earned
<1>5. CommandTypeOK'
  BY <1>1, <1>2, <1>4 DEF CommandTypeOK
<1>6. Clearance'
  BY <1>1, ClearedUnchanged DEF Clearance, DispatcherIdle
<1>7. Answers'
  BY <1>1, <1>2, <1>3, <1>4 DEF Answers
<1> QED BY <1>5, <1>6, <1>7

\* A handler of telemetry-processor is within the invariant, whether it comes to
\* its end or not, when the status it writes is true of the command.
LEMMA HandlerFrame ==
    ASSUME CommandInv, NEW c \in Ids, NEW new \in Statuses,
           new # "REJECTED", new = "ACKED" => c \in everApplied,
           NEW action \in {"COMMAND_STATUS", "COMMAND_ACK"},
           Handled(c, new, action) \/ HandledInPart(c, new, action),
           UNCHANGED <<request, api, dispatchQ, dispatcher, linkVars, craftVars>>,
           statusQ' \in Seq([id : Ids, status : {"DISPATCHED", "DISPATCH_ERROR"}]),
           ackQ' \in Seq(Earned)
    PROVE  CommandInv'
<1> USE DEF CommandInv
<1>1. status' = status \/ status' = [status EXCEPT ![c] = new]
  BY DEF Handled, HandledInPart
<1>2. audit \subseteq audit' /\ audit' \subseteq AuditRows
  BY DEF Handled, HandledInPart, Audited, AuditRows, CommandTypeOK
<1>3. ackQ' \in Seq(Acks) /\ Earned' = Earned
  BY WiderQueue DEF Earned, craftVars
<1>4. CommandTypeOK'
  <2>1. status' \in [Ids -> Statuses \cup {None}]
    <3>1. status \in [Ids -> Statuses \cup {None}]
      BY DEF CommandTypeOK
    <3> QED BY <1>1, <3>1
  <2>2. UNCHANGED <<request, api, dispatchQ, uplink, downlink, results, vehicle>>
    BY DEF linkVars, craftVars
  <2> QED BY <1>2, <1>3, <2>1, <2>2 DEF CommandTypeOK
<1>5. Cleared \subseteq Cleared'
  BY <1>2 DEF Cleared
<1>6. Clearance'
  BY <1>5, ClearanceGrows DEF Clearance, linkVars, craftVars
<1>7. Answers'
  BY <1>1, <1>3 DEF Answers, CommandTypeOK, linkVars, craftVars
<1> QED BY <1>4, <1>6, <1>7

\* process_ack and process_status write what the head of their stream says.
LEMMA ProcessKeeps ==
    ASSUME CommandInv, ProcessAck \/ ProcessStatus
    PROVE  CommandInv'
<1> DEFINE Events == [id : Ids, status : {"DISPATCHED", "DISPATCH_ERROR"}]
<1>1. ackQ \in Seq(Earned) /\ statusQ \in Seq(Events)
  BY DEF CommandInv, CommandTypeOK, Answers
<1>2. CASE ProcessAck
  <2> DEFINE a == Head(ackQ)
  <2>1. /\ a \in Earned /\ Tail(ackQ) \in Seq(Earned)
        /\ Redeliver(ackQ) \in Seq(Earned)
    BY <1>1, <1>2, RedeliverInQueue DEF ProcessAck
  <2>2. a.id \in Ids /\ a.id \in everApplied /\ AckStatus(a) = "ACKED"
    BY <2>1 DEF Earned, Acks, AckStatus
  <2>3. /\ ackQ' \in Seq(Earned)
        /\ \/ Handled(a.id, "ACKED", "COMMAND_ACK")
           \/ HandledInPart(a.id, "ACKED", "COMMAND_ACK")
        /\ UNCHANGED <<request, api, dispatchQ, dispatcher, statusQ, linkVars,
                       craftVars>>
    BY <1>2, <2>1, <2>2 DEF ProcessAck
  <2> HIDE DEF a
  <2> QED BY <1>1, <2>2, <2>3, HandlerFrame DEF Statuses
<1>3. CASE ProcessStatus
  <2> DEFINE e == Head(statusQ)
  <2>1. /\ e \in Events /\ Tail(statusQ) \in Seq(Events)
        /\ Redeliver(statusQ) \in Seq(Events)
    BY <1>1, <1>3, RedeliverInQueue DEF ProcessStatus
  <2>2. /\ statusQ' \in Seq(Events)
        /\ \/ Handled(e.id, e.status, "COMMAND_STATUS")
           \/ HandledInPart(e.id, e.status, "COMMAND_STATUS")
        /\ UNCHANGED <<request, api, dispatchQ, dispatcher, ackQ, linkVars,
                       craftVars>>
    BY <1>3, <2>1 DEF ProcessStatus
  <2> HIDE DEF e
  <2>3. e.id \in Ids /\ e.status \in {"DISPATCHED", "DISPATCH_ERROR"}
    BY <2>1
  <2> QED BY <1>1, <2>2, <2>3, HandlerFrame DEF Statuses
<1> QED BY <1>2, <1>3
-----------------------------------------------------------------------------
(* The theorems.                                                           *)

\* Nothing is stored, sent or answered at the start.
LEMMA CommandInvInitially == CommandInit => CommandInv
<1> SUFFICES ASSUME CommandInit PROVE CommandInv
  OBVIOUS
<1>1. CommandTypeOK
  BY DEF CommandInit, CommandTypeOK, PoweredOn
<1>2. Clearance
  BY DEF CommandInit, Clearance
<1>3. Answers
  BY CommandAssumption DEF CommandInit, Answers
<1> QED BY <1>1, <1>2, <1>3 DEF CommandInv

\* The invariant is inductive: one step for each group of handlers.
LEMMA CommandInvKept == CommandInv /\ [CommandNext]_commandVars => CommandInv'
<1> SUFFICES ASSUME CommandInv, [CommandNext]_commandVars PROVE CommandInv'
  OBVIOUS
<1>1. ASSUME NEW c \in Ids, NEW r \in Requests, InsertCommand(c, r) PROVE CommandInv'
  BY <1>1, InsertCommandKeeps
<1>2. ASSUME NEW c \in Ids, InsertAudit(c) PROVE CommandInv'
  BY <1>2, InsertAuditKeeps
<1>3. ASSUME NEW c \in Ids, PublishCommand(c) \/ ApiFails(c) PROVE CommandInv'
  BY <1>3, PublishKeeps
<1>4. ASSUME NEW c \in Ids, Receive(c) PROVE CommandInv'
  BY <1>4, ReceiveKeeps
<1>5. CASE Dispatch \/ DispatchFails \/ DispatcherStops
  BY <1>5, DispatchKeeps
<1>6. CASE SpacecraftRestarts \/ LinkFault
  BY <1>6, RestartKeeps, LinkFaultKeeps
<1>7. ASSUME NEW a \in Acks, Ingest(a) PROVE CommandInv'
  BY <1>7, IngestKeeps
<1>8. CASE ProcessAck \/ ProcessStatus
  BY <1>8, ProcessKeeps
<1>9. CASE UNCHANGED commandVars
  <2>1. UNCHANGED <<request, status, api, audit, dispatchQ, dispatcher, statusQ,
                    ackQ, uplink, downlink, vehicle, results, applied, everApplied>>
    BY <1>9 DEF commandVars, apiVars, groundVars, linkVars, craftVars
  <2>2. CommandTypeOK'
    BY <2>1 DEF CommandInv, CommandTypeOK
  <2>3. Clearance'
    BY <2>1, ClearedUnchanged DEF CommandInv, Clearance, DispatcherIdle
  <2>4. Answers'
    BY <2>1 DEF CommandInv, Answers, Earned
  <2> QED BY <2>2, <2>3, <2>4 DEF CommandInv
<1> QED BY <1>1, <1>2, <1>3, <1>4, <1>5, <1>6, <1>7, <1>8, <1>9 DEF CommandNext

\* The types hold: rows keep validated requests only, and no command leaves the
\* vehicle outside its ranges (create_command, SpacecraftState.apply).
THEOREM CommandTypes == CommandSpec => []CommandTypeOK
<1>1. CommandInv => CommandTypeOK
  BY DEF CommandInv
<1> QED BY <1>1, CommandInvInitially, CommandInvKept, PTL DEF CommandSpec

\* Whatever is sent to the vehicle, or was applied by it, was authorised and
\* audited first (create_command, dispatch).
THEOREM OnlyAuthorisedIsSent == CommandSpec => []SentIsAuthorised
<1>1. CommandInv => SentIsAuthorised
  BY DEF CommandInv, Clearance, Cleared, Created, SentIsAuthorised
<1> QED BY <1>1, CommandInvInitially, CommandInvKept, PTL DEF CommandSpec

\* However often a command is redelivered, sent again or doubled, the vehicle
\* acts on it once in a run (command_results).
THEOREM AppliedAtMostOnce == CommandSpec => []AppliedOncePerRun
<1>1. CommandInv => AppliedOncePerRun
  BY DEF CommandInv, Answers, AppliedOncePerRun
<1> QED BY <1>1, CommandInvInitially, CommandInvKept, PTL DEF CommandSpec

\* ACKED is written of applied commands only, and no validated command is ever
\* refused (process_ack, validate_command, SpacecraftState.apply).
THEOREM StatusNeverLies == CommandSpec => []StatusIsTruthful
<1>1. CommandInv => StatusIsTruthful
  BY AllowlistsAgree DEF CommandInv, Answers, StatusIsTruthful
<1> QED BY <1>1, CommandInvInitially, CommandInvKept, PTL DEF CommandSpec
=============================================================================
