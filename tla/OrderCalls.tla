----------------------------- MODULE OrderCalls -----------------------------
(***************************************************************************)
(* The loop of jitjson_encoder_encode and the code it calls, as control    *)
(* alone: an order is begun while the status is OK, all of its operations  *)
(* are then called, one after the other and whatever the status becomes,   *)
(* and the loop goes on.  The machine code is shown to do this             *)
(* (JitMachine), and the encoding of a batch to be this (NativeRows).      *)
(***************************************************************************)
EXTENDS Integers, Sequences

CONSTANT Operations \* the operations of one order

VARIABLES
  orders, \* orders of the batch
  order,  \* orders begun
  done,   \* operations of the last one that have returned
  status  \* of the writer

vars == <<orders, order, done, status>>

Init ==
  /\ orders \in Nat
  /\ order = 0
  /\ done = Operations
  /\ status = "OK"

(* The loop is over, an error or the last order, and is entered for the    *)
(* next batch with its prefix written, or not.                             *)
Enter ==
  /\ done = Operations
  /\ order = orders \/ status # "OK"
  /\ orders' \in Nat
  /\ order' = 0
  /\ status' \in {"OK", "NO_SPACE"}
  /\ UNCHANGED done

(* A comma between two orders, for which there may be no room, comes first.*)
Begin ==
  /\ done = Operations
  /\ order < orders
  /\ status = "OK"
  /\ order' = order + 1
  /\ done' = <<>>
  /\ status' \in IF order = 0 THEN {"OK"} ELSE {"OK", "NO_SPACE"}
  /\ UNCHANGED orders

(* An operation that fails sets the status, and none makes it OK again.    *)
Operation ==
  /\ Len(done) < Len(Operations)
  /\ done' = Append(done, Operations[Len(done) + 1])
  /\ status' \in {"NO_SPACE", "INVALID_ARGUMENT"}
                   \cup (IF status = "OK" THEN {"OK"} ELSE {})
  /\ UNCHANGED <<orders, order>>

Loop == Begin \/ Operation

Next == Enter \/ Loop

Safe == Init /\ [][Next]_vars

(* A loop that was entered, and an order that was begun, go on.            *)
Spec == Safe /\ WF_vars(Loop)
=============================================================================
