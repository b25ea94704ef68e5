---------------------------- MODULE MCJitMachine ----------------------------
(***************************************************************************)
(* Two orders; addresses whose bytes are all in use as opcodes, so that an *)
(* address that is taken for code does not go unnoticed.                   *)
(***************************************************************************)
EXTENDS JitMachine

MCAddress ==
  [op \in ToSet(Operations) |->
     LET k == CHOOSE n \in 1 .. Len(Operations) : Operations[n] = op
     IN  << 80 + k, 195, 88, 137, 255, 208, 64, 0 >>]
=============================================================================
