--------------------------- MODULE MCPayloadSource ---------------------------
(* PayloadSource with three sessions of two numbers and two clients.       *)
EXTENDS PayloadSource, TLC

CONSTANTS a, b

MCSubmitters == {a, b}
=============================================================================
