------------------------------ MODULE WorkTray ------------------------------
(***************************************************************************)
(* What the telemetry work queue promises its callers, without Redis       *)
(* lists, markers or scripts (docs/INTERFACE_CONTROL_DOCUMENT.md calls it  *)
(* "a work tray containing references to permanent records").              *)
(*                                                                         *)
(* At any moment a job identifier is at exactly one place: outside the     *)
(* tray, waiting in it, held by a worker, or parked for an operator.  A    *)
(* slot also remembers which packet the identifier was put in for.         *)
(***************************************************************************)

CONSTANTS
    JobIds,     \* identifiers of durable processing jobs
    PacketIds   \* identifiers of logical telemetry packets

VARIABLE
    slot        \* slot[j]: where job j is, and for which packet

Outside == [at |-> "outside"]

Slots == {Outside} \cup [at : {"pending", "processing", "failed"},
                         packet : PacketIds]

TrayInit == slot = [j \in JobIds |-> Outside]

\* Move a job that is at `from` to `to`, its packet unchanged.
Move(j, from, to) ==
    /\ slot[j].at = from
    /\ slot' = [slot EXCEPT ![j] = [at |-> to, packet |-> slot[j].packet]]

\* A job outside the tray is put in, for one packet.
Put(j, p) ==
    /\ slot[j] = Outside
    /\ slot' = [slot EXCEPT ![j] = [at |-> "pending", packet |-> p]]

\* A worker takes a waiting job.
Take(j) == Move(j, "pending", "processing")

\* The worker gives the job back, or parks it for an operator.
GiveBack(j) == Move(j, "processing", "pending")
Park(j) == Move(j, "processing", "failed")

\* The worker is done with the job: the tray forgets it.
Finish(j) ==
    /\ slot[j].at = "processing"
    /\ slot' = [slot EXCEPT ![j] = Outside]

\* A starting worker gives back everything that was being held.
GiveBackAll ==
    slot' = [j \in JobIds |-> IF slot[j].at = "processing"
                              THEN [at |-> "pending", packet |-> slot[j].packet]
                              ELSE slot[j]]

TrayNext ==
    \/ \E j \in JobIds :
         \/ \E p \in PacketIds : Put(j, p)
         \/ Take(j)
         \/ GiveBack(j)
         \/ Park(j)
         \/ Finish(j)
    \/ GiveBackAll

TraySpec == TrayInit /\ [][TrayNext]_slot
=============================================================================
