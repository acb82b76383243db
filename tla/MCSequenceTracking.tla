------------------------- MODULE MCSequenceTracking -------------------------
(* Sequence numbers modulo 16 and a session of eight frames, the longest    *)
(* that half of the number space can hold.                                  *)
EXTENDS SequenceTracking

MCFrames == 0..7
=============================================================================
