---------------------------- MODULE MCHealthStream ----------------------------
(* HealthStream with a small number space that wraps, and a wheel     *)
(* speed just beyond its limit.                                            *)
EXTENDS HealthStream, TLC

MCWheelSpeeds == {-5501}
=============================================================================
