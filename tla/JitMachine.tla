----------------------------- MODULE JitMachine -----------------------------
(***************************************************************************)
(* The machine code of JitProgram executed: the loop of                    *)
(* jitjson_encoder_encode calls it once per order, as C code calls any     *)
(* function of type jitjson_order_fn_t.  The bytes are decoded the way an  *)
(* x86-64 processor decodes them, and the operations they call behave as   *)
(* the System V ABI allows: they keep the callee-saved registers, may      *)
(* leave anything in the others, and set the writer's status.              *)
(***************************************************************************)
EXTENDS JitProgram

CONSTANTS
  OrderCount, \* orders of the batch
  Junk        \* what a register holds that nobody may rely on

ASSUME OrderCountAssumption == OrderCount \in Nat

Registers ==
  << "rax", "rcx", "rdx", "rbx", "rsp", "rbp", "rsi", "rdi",
     "r8", "r9", "r10", "r11", "r12", "r13", "r14", "r15" >>

CalleeSaved == {"rbx", "rbp", "r12", "r13", "r14", "r15"}
General     == ToSet(Registers) \ {"rsp"}

VARIABLES
  order,  \* the order that the loop is at
  rip,    \* offset of the next instruction, or -1 in the loop
  reg,    \* reg[r]: what register r holds
  stack,  \* the words pushed since the loop was entered, last one first
  status, \* writer->status
  called  \* the operations called for this order, with their arguments

vars == <<order, rip, reg, stack, status, called>>

(* What the loop keeps in the callee-saved registers.                      *)
Caller == [r \in General |-> IF r \in CalleeSaved THEN <<"caller", r>> ELSE Junk]

Init ==
  /\ order = 0
  /\ rip = -1
  /\ reg = Caller
  /\ stack = <<>>
  /\ status = "OK"
  /\ called = <<>>

(* Mutant: the loop does not look at the status.                           *)
MayCallAlways == order < OrderCount

MayCall == order < OrderCount /\ status = "OK"

(* A comma between two orders, for which there may be no room, and then    *)
(* encoder->order_fn(&writer, &orders[i], &batch).                         *)
CallOrder ==
  /\ rip = -1
  /\ MayCall
  /\ order' = order + 1
  /\ rip' = 0
  /\ reg' = [reg EXCEPT !["rdi"] = <<"writer">>, !["rsi"] = <<"order", order'>>,
                        !["rdx"] = <<"batch">>]
  /\ stack' = << <<"return">> >>
  /\ called' = <<>>
  /\ status' \in IF order = 0 THEN {"OK"} ELSE {"OK", "NO_SPACE"}

-----------------------------------------------------------------------------
(* Decoding.                                                               *)

At(k) == Code[rip + k + 1]

Prefixed == At(0) \in 64 .. 79            \* a REX prefix: 0100WRXB
Rex(bit) == IF Prefixed THEN (At(0) \div bit) % 2 ELSE 0
W        == Rex(8) = 1
Op       == IF Prefixed THEN 1 ELSE 0     \* where the opcode is
Opcode   == At(Op)
Register(high, low) == Registers[8 * high + low + 1]

ModRM == At(Op + 1)
Mod   == ModRM \div 64
Reg   == Register(Rex(4), (ModRM \div 8) % 8)
Rm    == Register(Rex(1), ModRM % 8)

Push(r) ==
  /\ stack' = << reg[r] >> \o stack
  /\ UNCHANGED <<reg, status, called>>

Pop(r) ==
  /\ reg' = [reg EXCEPT ![r] = Head(stack)]
  /\ stack' = Tail(stack)
  /\ UNCHANGED <<status, called>>

Move(r, v) ==
  /\ reg' = [reg EXCEPT ![r] = v]
  /\ UNCHANGED <<stack, status, called>>

(* A 32-bit word of a structure.  The status is 24 bytes into the writer.  *)
Word(base, offset) ==
  IF base = <<"writer">> /\ offset = 24 THEN <<"status", status>> ELSE Junk

(* One instruction and its length: push r64, pop r64, mov r64 r64,         *)
(* mov r64 imm64, mov r32 [r64 + disp8].                                   *)
Straight ==
  /\ rip >= 0
  /\ \/ /\ Opcode \in 80 .. 87
        /\ Push(Register(Rex(1), Opcode - 80))
        /\ rip' = rip + Op + 1
     \/ /\ Opcode \in 88 .. 95
        /\ Pop(Register(Rex(1), Opcode - 88))
        /\ rip' = rip + Op + 1
     \/ /\ Opcode = 137 /\ W /\ Mod = 3
        /\ Move(Rm, reg[Reg])
        /\ rip' = rip + Op + 2
     \/ /\ Opcode \in 184 .. 191 /\ W
        /\ Move(Register(Rex(1), Opcode - 184), SubSeq(Code, rip + Op + 2, rip + Op + 9))
        /\ rip' = rip + Op + 9
     \/ /\ Opcode = 139 /\ ~W /\ Mod = 1 /\ ModRM % 8 = 4
        /\ At(Op + 2) \div 8 = 4 \* a SIB byte without an index
        /\ Move(Reg, Word(reg[Register(Rex(1), At(Op + 2) % 8)], At(Op + 3)))
        /\ rip' = rip + Op + 4
  /\ UNCHANGED order

(* The stack is aligned to 16 bytes before a call; it was in the loop.     *)
Aligned == Len(stack) % 2 = 0

(* call r64, and the operation up to its return.                           *)
CallOperation ==
  /\ rip >= 0
  /\ Opcode = 255 /\ Mod = 3 /\ (ModRM \div 8) % 8 = 2
  /\ \E k \in 1 .. Len(Operations) :
       /\ Address[Operations[k]] = reg[Rm]
       /\ called' = Append(called,
            [op |-> Operations[k], aligned |-> Aligned,
             arguments |-> << reg["rdi"], reg["rsi"], reg["rdx"] >>])
  /\ status' \in IF status = "OK" THEN {"OK", "NO_SPACE", "INVALID_ARGUMENT"}
                 ELSE {status, "INVALID_ARGUMENT"}
  /\ reg' = [r \in General |-> IF r \in CalleeSaved THEN reg[r] ELSE Junk]
  /\ rip' = rip + Op + 2
  /\ UNCHANGED <<order, stack>>

Return ==
  /\ rip >= 0
  /\ Opcode = 195
  /\ Head(stack) = <<"return">>
  /\ stack' = Tail(stack)
  /\ rip' = -1
  /\ UNCHANGED <<order, reg, status, called>>

(* The loop is over: an error, or the last order.                          *)
Finished ==
  /\ rip = -1
  /\ ~MayCall
  /\ UNCHANGED vars

Next == CallOrder \/ Straight \/ CallOperation \/ Return \/ Finished

(* A processor goes on, and every operation returns (StringWriter).        *)
Spec == Init /\ [][Next]_vars /\ WF_vars(Next)

-----------------------------------------------------------------------------
(* Properties.                                                             *)

(* Every operation is called as the ABI asks: with the writer, the current *)
(* order and the batch, although the call before it may have overwritten   *)
(* the registers, and with the stack aligned to 16 bytes                   *)
(* (jit_linux_amd64.c:40-62).                                              *)
CallsKeepABI ==
  \A k \in 1 .. Len(called) :
    /\ called[k].aligned
    /\ called[k].arguments = << <<"writer">>, <<"order", order>>, <<"batch">> >>

(* The code returns to the loop with the stack and the callee-saved        *)
(* registers as it found them, with the writer's status in eax, and having *)
(* called every operation once, in the order of the JSON text, whatever    *)
(* the status was in between (jit_linux_amd64.c:55-79, 104-108).           *)
ReturnsClean ==
  rip = -1 =>
    /\ stack = <<>>
    /\ \A r \in CalleeSaved : reg[r] = Caller[r]
    /\ order > 0 =>
         /\ reg["rax"] = <<"status", status>>
         /\ [k \in 1 .. Len(called) |-> called[k].op] =
              << "order_id", "created_at", "status", "payment",
                 "buyer", "shipping", "items", "remark" >>

(* Seen by the loop, running the code is calling the operations of the     *)
(* order once each, in order, and returning: no order is begun after an    *)
(* error, and every order begun is finished, since the code has no jump    *)
(* and its ret finds the loop (jit_linux_amd64.c:104-108,                  *)
(* bridge_linux_amd64.c:95-100).                                           *)
Calls == INSTANCE OrderCalls WITH
  orders <- OrderCount,
  done <- IF order = 0 THEN Operations
          ELSE [k \in 1 .. Len(called) |-> called[k].op]

ImplementsCalls == Calls!Spec
=============================================================================
