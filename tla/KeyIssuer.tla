----------------------------- MODULE KeyIssuer -----------------------------
(***************************************************************************)
(* What the payload source promises the ground, without files, restarts    *)
(* or retries (docs/INTERFACE_CONTROL_DOCUMENT.md, sequence and boot       *)
(* identifier rules): packet keys, pairs of a boot identifier and a        *)
(* sequence number, are handed out in strictly increasing order, so that   *)
(* none is ever handed out twice.                                          *)
(***************************************************************************)
EXTENDS Integers

CONSTANTS
    MaxBoot,      \* largest boot identifier
    MaxSequence   \* largest sequence number

VARIABLE
    newest        \* the key handed out last

Keys == (1 .. MaxBoot) \X (0 .. MaxSequence)

\* The order in which keys are handed out: sessions, then numbers in them.
Before(k, l) ==
    \/ k[1] < l[1]
    \/ k[1] = l[1] /\ k[2] < l[2]

\* No key: boot identifier zero is never used.
NoKey == <<0, 0>>

IssuerInit == newest = NoKey

Issue ==
    \E k \in Keys :
        /\ Before(newest, k)
        /\ newest' = k

IssuerSpec == IssuerInit /\ [][Issue]_newest
=============================================================================
