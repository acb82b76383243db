---------------------------- MODULE MCCommandPath ----------------------------
(* CommandPath with one live command at a limit of the allowlist, a dry    *)
(* run, and requests the API turns down: without a token, or next to a     *)
(* limit.                                                                  *)
EXTENDS CommandPath, TLC

Live(n, a) == [name |-> n, argument |-> a, dry_run |-> FALSE,
               operator |-> TRUE, armed |-> TRUE]

Unarmed(n, a) == [Live(n, a) EXCEPT !.armed = FALSE]

MCRequests ==
    {Live("SET_WHEEL_RPM", -6000), Live("SET_WHEEL_RPM", -6001), Live("OTHER", 0),
     [Live("SET_MODE", 3) EXCEPT !.dry_run = TRUE, !.operator = FALSE],
     [Live("RESET_FAULTS", 0) EXCEPT !.operator = FALSE]}
    \cup {Unarmed("SET_MODE", a) : a \in {-1, 0, 3, 4}}
    \cup {Unarmed("SET_WHEEL_RPM", a) : a \in {6000, 6001}}
    \cup {Unarmed("RESET_FAULTS", a) : a \in {-1, 1}}
=============================================================================
