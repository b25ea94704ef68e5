-------------------------- MODULE MCNativeEncoder ---------------------------
(***************************************************************************)
(* Options in and out of range; pages too small for the prologue, too      *)
(* small for the epilogue by a byte, exactly as large as the code, and the *)
(* usual size; a sysconf that fails.                                       *)
(***************************************************************************)
EXTENDS NativeEncoder

MCAddress ==
  [op \in ToSet(Operations) |->
     LET k == CHOOSE n \in 1 .. Len(Operations) : Operations[n] = op
     IN  << k, 16, 64, 0, 0, 0, 0, 0 >>]

MCModes     == 0 .. 3
MCBackends  == 0 .. 2
MCPageSizes == {-1, 14, 194, 195, 4096}
=============================================================================
