------------------------- MODULE EncoderProperties --------------------------
(***************************************************************************)
(* What is checked, and in EncoderProofs proved, of Encoder.               *)
(***************************************************************************)
EXTENDS Encoder

Labels ==
  {"idle", "get", "reset", "pack", "nilCheck", "rlock", "check", "size",
   "encode", "runlock", "release", "lock", "close", "mark", "unlock", "return"}

Texts == Seq(Orders \cup {ZeroRow, Garbage})

TypeOK ==
  /\ RWTypeOK
  /\ pc \in [Procs -> Labels]
  /\ call \in [Procs -> Calls \cup {[op |-> "codeSize", arg |-> <<>>]}]
  /\ answer \in [Procs -> [err : Errors, output : Texts, size : Nat]]
  /\ scratch \in [Procs -> Scratches \cup {NoScratch}]
  /\ pos \in [Procs -> Nat]
  /\ out \in [Procs -> Texts]
  /\ pool \subseteq Scratches
  /\ rows \in [Scratches -> Seq(Orders \cup {ZeroRow})]
  /\ closed \in BOOLEAN
  /\ native \in {"set", "nil"}
  /\ object \in {"live", "freed"}

(* No goroutine is inside the C encoder, or about to enter it after the    *)
(* closed check, once Close has destroyed it: the check and the cgo call   *)
(* of MarshalPacked and CodeSize are one read section (encoder.go:79-110)  *)
(* and Close waits for the readers (encoder.go:117-125).                   *)
NoUseAfterClose ==
  \A p \in Procs : pc[p] \in {"encode", "size"} => object = "live"

(* Close frees the C encoder once: of several Close calls at most one      *)
(* destroys it, and no later call finds the encoder open (encoder.go:119). *)
DestroyedOnce ==
  \A p \in Procs : pc[p] = "close" /\ HoldsWrite(p) /\ object = "freed" => closed

(* A workspace is with one Marshal at a time, and in the pool only when no *)
(* Marshal packs into it or encodes from it (encoder.go:48-68).            *)
ScratchExclusive ==
  \A p \in Procs : scratch[p] # NoScratch =>
    /\ scratch[p] \notin pool
    /\ \A q \in Procs \ {p} : scratch[q] # scratch[p]

(* A successful Marshal or MarshalPacked answers the orders of its own     *)
(* batch: no row of another goroutine's batch, none left in the workspace  *)
(* by an earlier call, and no byte of the uncleared buffer                 *)
(* (packed.go:104-122, encoder.go:89-98).                                  *)
AnswersOwnBatch ==
  \A p \in Procs :
    /\ call[p].op \in {"marshal", "packed"}
    /\ pc[p] \in {"runlock", "release", "return"}
    /\ answer[p].err = "none"
    => answer[p].output = call[p].arg

(* Every call returns, a Close in a stream of Marshal calls included: the  *)
(* locks are released on every path (the defers of encoder.go:53, 80, 118) *)
(* and a waiting writer holds new readers back.                            *)
CallsReturn == \A p \in Procs : pc[p] # "idle" ~> pc[p] = "idle"

-----------------------------------------------------------------------------
(* Encoder implements EncoderContract.  A call takes effect where its      *)
(* answer is decided: a failed validation, the nil check, the closed check *)
(* under the read lock, the end of Close's critical section.               *)
Answered(p) ==
  pc[p] \in {"size", "encode", "runlock", "release", "unlock", "return"}

AbsPhase ==
  [p \in Procs |-> IF pc[p] = "idle" THEN "idle"
                   ELSE IF Answered(p) THEN "answered" ELSE "pending"]

AbsAnswer ==
  [p \in Procs |-> IF pc[p] \in {"size", "encode"} THEN Reply(call[p], TRUE)
                   ELSE answer[p]]

Contract ==
  INSTANCE EncoderContract
    WITH open <- ~closed, phase <- AbsPhase, call <- call, answer <- AbsAnswer

(* Every behaviour of Encoder is one of EncoderContract, its liveness      *)
(* included: calls are linearizable and Close is for good.                 *)
ImplementsContract == Contract!Spec
=============================================================================
