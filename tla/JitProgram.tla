----------------------------- MODULE JitProgram -----------------------------
(***************************************************************************)
(* The machine code that jit_linux_amd64.c writes for one encoder, byte by *)
(* byte and in the pieces that emit_bytes copies: a prologue, a call of    *)
(* each order operation, an epilogue.  What the bytes mean to the          *)
(* processor is defined in JitMachine.                                     *)
(***************************************************************************)
EXTENDS OrderSchema

CONSTANT Address \* Address[op]: the eight bytes of the operation's address

ASSUME AddressAssumption ==
  /\ \A k \in 1 .. Len(Operations) :
       Address[Operations[k]] \in [1 .. 8 -> 0 .. 255]
  /\ \A k, m \in 1 .. Len(Operations) :
       Address[Operations[k]] = Address[Operations[m]] => k = m

(* Mutant: r14 is not saved.                                               *)
PrologueTwoPushes ==
  << 65, 84,       \* push r12
     65, 85,       \* push r13
     73, 137, 252, \* mov r12, rdi
     73, 137, 245, \* mov r13, rsi
     73, 137, 214  \* mov r14, rdx
  >>

Prologue ==
  << 65, 84,       \* 41 54     push r12
     65, 85,       \* 41 55     push r13
     65, 86,       \* 41 56     push r14
     73, 137, 252, \* 49 89 fc  mov r12, rdi
     73, 137, 245, \* 49 89 f5  mov r13, rsi
     73, 137, 214  \* 49 89 d6  mov r14, rdx
  >>

MoveArguments ==
  << 76, 137, 231, \* 4c 89 e7  mov rdi, r12
     76, 137, 238, \* 4c 89 ee  mov rsi, r13
     76, 137, 242  \* 4c 89 f2  mov rdx, r14
  >>

MovabsRax == << 72, 184 >>  \* 48 b8
CallRax   == << 255, 208 >> \* ff d0

(* Mutant: the registers are restored in the order they were saved in.     *)
EpilogueSamePops ==
  << 65, 139, 68, 36, 24, \* mov eax, [r12+24]
     65, 92,              \* pop r12
     65, 93,              \* pop r13
     65, 94,              \* pop r14
     195                  \* ret
  >>

Epilogue ==
  << 65, 139, 68, 36, 24, \* 41 8b 44 24 18  mov eax, DWORD PTR [r12+24]
     65, 94,              \* 41 5e           pop r14
     65, 93,              \* 41 5d           pop r13
     65, 92,              \* 41 5c           pop r12
     195                  \* c3              ret
  >>

(* emit_call_order_op                                                      *)
CallPieces(operation) ==
  << MoveArguments, MovabsRax, Address[operation], CallRax >>

Pieces ==
  << Prologue >>
    \o FlattenSeq([k \in 1 .. Len(Operations) |-> CallPieces(Operations[k])])
    \o << Epilogue >>

Code == FlattenSeq(Pieces)
=============================================================================
