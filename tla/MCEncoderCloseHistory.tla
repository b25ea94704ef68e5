----------------------- MODULE MCEncoderCloseHistory ------------------------
(***************************************************************************)
(* EncoderCloseHistory on the instances of MCEncoder.                      *)
(***************************************************************************)
EXTENDS EncoderCloseHistory, MCEncoder
=============================================================================
