------------------------------ MODULE Encoder -------------------------------
(***************************************************************************)
(* One jitjson.Encoder (encoder.go) shared by goroutines: Marshal with its *)
(* pooled scratch, MarshalPacked, CodeSize and Close, under the RWMutex.   *)
(* A step of a goroutine is a stretch of code that reads or writes shared  *)
(* state once; packing and native encoding go order by order, so that the  *)
(* steps of other goroutines fall in between.                              *)
(*                                                                         *)
(* A workspace (PackedBatch) is the backing array of its order rows: Reset *)
(* reslices the array with whatever an earlier call left in it.  What a    *)
(* row holds is the matter of PackBatch; here a row is its order.          *)
(***************************************************************************)
EXTENDS EncoderCalls, RWMutex

CONSTANTS
  Scratches,   \* identities of PackedBatch workspaces
  NoScratch,
  MaxRetained, \* maxRetainedPackedBytes, in order rows
  ZeroRow,     \* a row of a freshly made slice
  Garbage      \* a byte range of dirtmake.Bytes not written yet

ASSUME RowsAssumption ==
  /\ ZeroRow \notin Orders
  /\ Garbage \notin Orders
  /\ NoScratch \notin Scratches
  /\ MaxRetained \in Nat

VARIABLES
  pc,      \* pc[p]: where goroutine p is
  call,    \* call[p]: the call it executes, or made last
  answer,  \* answer[p]: what the call is going to return
  scratch, \* scratch[p]: the workspace Marshal took, or NoScratch
  pos,     \* pos[p]: orders packed, then orders encoded, by p
  out,     \* out[p]: the output buffer of MarshalPacked
  pool,    \* Encoder.scratch, the sync.Pool
  rows,    \* rows[s]: the array behind the orders slice of workspace s
  closed,  \* Encoder.closed
  native,  \* Encoder.native: "set" or "nil"
  object   \* the C encoder and its code mapping: "live" or "freed"

shared == <<pool, rows, closed, native, object>>
local  == <<call, answer, scratch, pos, out>>
vars   == <<rwVars, pc, shared, local>>

Goto(p, label) == pc' = [pc EXCEPT ![p] = label]

Answer(p, result, label) ==
  /\ answer' = [answer EXCEPT ![p] = result]
  /\ Goto(p, label)

Init ==
  /\ RWInit
  /\ pc = [p \in Procs |-> "idle"]
  /\ call = [p \in Procs |-> [op |-> "codeSize", arg |-> <<>>]]
  /\ answer = [p \in Procs |-> NoResult]
  /\ scratch = [p \in Procs |-> NoScratch]
  /\ pos = [p \in Procs |-> 0]
  /\ out = [p \in Procs |-> <<>>]
  /\ pool = {}
  /\ rows = [s \in Scratches |-> <<>>]
  /\ closed = FALSE
  /\ native = "set"
  /\ object = "live"

-----------------------------------------------------------------------------
(* A goroutine calls a method.                                             *)

Begin(p) ==
  /\ pc[p] = "idle"
  /\ \E c \in Calls :
       /\ call' = [call EXCEPT ![p] = c]
       /\ Goto(p, CASE c.op = "marshal"  -> "get"
                    [] c.op = "packed"   -> "nilCheck"
                    [] c.op = "codeSize" -> "rlock"
                    [] c.op = "close"    -> "lock")
  /\ UNCHANGED <<rwVars, shared, answer, scratch, pos, out>>

-----------------------------------------------------------------------------
(* Marshal: take a workspace and pack the batch into it, without the lock. *)

Held == {scratch[p] : p \in Procs}

(* Mutant: the workspace stays visible in the pool.                        *)
GetPooledShared(s) ==
  /\ s \in pool
  /\ UNCHANGED <<pool, rows>>

(* sync.Pool.Get: any pooled workspace, or a new one even if some is       *)
(* pooled (the pool is per P).                                             *)
GetPooled(s) ==
  /\ s \in pool
  /\ pool' = pool \ {s}
  /\ UNCHANGED rows

GetNew(s) ==
  /\ s \notin pool \cup Held
  /\ rows' = [rows EXCEPT ![s] = <<>>]
  /\ UNCHANGED pool

Get(p) ==
  /\ pc[p] = "get"
  /\ \E s \in Scratches :
       /\ GetPooled(s) \/ GetNew(s)
       /\ scratch' = [scratch EXCEPT ![p] = s]
  /\ Goto(p, "reset")
  /\ UNCHANGED <<rwVars, call, answer, pos, out, closed, native, object>>

(* PackedBatch.reset: the array is reused when it is long enough.          *)
Reset(p) ==
  LET s == scratch[p]
      n == Len(call[p].arg)
  IN  /\ pc[p] = "reset"
      /\ rows' = [rows EXCEPT ![s] =
                    IF Len(@) < n THEN [i \in 1 .. n |-> ZeroRow] ELSE @]
      /\ pos' = [pos EXCEPT ![p] = 0]
      /\ Goto(p, "pack")
      /\ UNCHANGED <<rwVars, call, answer, scratch, out,
                     pool, closed, native, object>>

Order(p) == call[p].arg[pos[p] + 1]

PackOrder(p) ==
  /\ pc[p] = "pack"
  /\ pos[p] < Len(call[p].arg)
  /\ ~Rejected(Order(p))
  /\ rows' = [rows EXCEPT ![scratch[p]][pos[p] + 1] = Order(p)]
  /\ pos' = [pos EXCEPT ![p] = @ + 1]
  /\ UNCHANGED <<rwVars, pc, call, answer, scratch, out,
                 pool, closed, native, object>>

PackFails(p) ==
  /\ pc[p] = "pack"
  /\ pos[p] < Len(call[p].arg)
  /\ Rejected(Order(p))
  /\ Answer(p, Fails("ErrInvalidUTF8"), "release")
  /\ UNCHANGED <<rwVars, shared, call, scratch, pos, out>>

PackDone(p) ==
  /\ pc[p] = "pack"
  /\ pos[p] = Len(call[p].arg)
  /\ Goto(p, "rlock")
  /\ UNCHANGED <<rwVars, shared, local>>

(* Mutant: the workspace variable is cleared before the Put.               *)
ReleaseCleared(p) ==
  /\ pc[p] = "release"
  /\ scratch' = [scratch EXCEPT ![p] = NoScratch]
  /\ pool' = pool \cup {scratch'[p]}
  /\ Goto(p, "return")
  /\ UNCHANGED <<rwVars, call, answer, pos, out, rows, closed, native, object>>

(* releasePacked, deferred by Marshal: runs after MarshalPacked returned   *)
(* and dropped the lock.  An array that is not kept is garbage.            *)
Release(p) ==
  /\ pc[p] = "release"
  /\ IF Len(rows[scratch[p]]) > MaxRetained
     THEN UNCHANGED pool /\ rows' = [rows EXCEPT ![scratch[p]] = <<>>]
     ELSE UNCHANGED rows /\ pool' = pool \cup {scratch[p]}
  /\ scratch' = [scratch EXCEPT ![p] = NoScratch]
  /\ Goto(p, "return")
  /\ UNCHANGED <<rwVars, call, answer, pos, out, closed, native, object>>

(* The garbage collector empties the pool.                                 *)
Collect(s) ==
  /\ s \in pool
  /\ pool' = pool \ {s}
  /\ rows' = [rows EXCEPT ![s] = <<>>]
  /\ UNCHANGED <<rwVars, pc, local, closed, native, object>>

-----------------------------------------------------------------------------
(* MarshalPacked, also the second half of Marshal, and CodeSize.           *)

NilCheck(p) ==
  /\ pc[p] = "nilCheck"
  /\ IF call[p].arg = NilPacked
     THEN Answer(p, Fails("ErrNilPacked"), "return")
     ELSE Goto(p, "rlock") /\ UNCHANGED answer
  /\ UNCHANGED <<rwVars, shared, call, scratch, pos, out>>

AcquireRead(p) ==
  /\ pc[p] = "rlock"
  /\ RLock(p)
  /\ Goto(p, "check")
  /\ UNCHANGED <<shared, local>>

(* Mutant: the closed check is dropped.                                    *)
IsClosedNever == FALSE

IsClosed == closed \/ native = "nil"

(* Mutant: a reused array is not resliced to the batch (packed.go:108).    *)
SizeOfArray(p) ==
  IF call[p].arg = ZeroPacked THEN 0
  ELSE IF call[p].op = "marshal" THEN Len(rows[scratch[p]])
  ELSE Len(call[p].arg)

(* The rows the native encoder is going to read: the workspace resliced to *)
(* the batch, or the caller's own PackedBatch.                             *)
Size(p) == IF call[p].arg = ZeroPacked THEN 0 ELSE Len(call[p].arg)

Row(p, i) ==
  IF call[p].op = "marshal" THEN rows[scratch[p]][i] ELSE call[p].arg[i]

CheckClosed(p) ==
  /\ pc[p] = "check"
  /\ HoldsRead(p)
  /\ IsClosed
  /\ Answer(p, IF call[p].op = "codeSize" THEN NoResult ELSE Fails("ErrClosed"),
            "runlock")
  /\ UNCHANGED <<rwVars, shared, call, scratch, pos, out>>

(* dirtmake.Bytes hands out a buffer that is not cleared.                  *)
CheckOpen(p) ==
  /\ pc[p] = "check"
  /\ HoldsRead(p)
  /\ ~IsClosed
  /\ IF call[p].op = "codeSize"
     THEN Goto(p, "size") /\ UNCHANGED <<out, pos>>
     ELSE /\ Goto(p, "encode")
          /\ out' = [out EXCEPT ![p] = [i \in 1 .. Size(p) |-> Garbage]]
          /\ pos' = [pos EXCEPT ![p] = 0]
  /\ UNCHANGED <<rwVars, shared, call, answer, scratch>>

ReadSize(p) ==
  /\ pc[p] = "size"
  /\ Answer(p, Result("none", <<>>, NativeSize), "runlock")
  /\ UNCHANGED <<rwVars, shared, call, scratch, pos, out>>

EncodeOrder(p) ==
  /\ pc[p] = "encode"
  /\ pos[p] < Size(p)
  /\ out' = [out EXCEPT ![p][pos[p] + 1] = Row(p, pos[p] + 1)]
  /\ pos' = [pos EXCEPT ![p] = @ + 1]
  /\ UNCHANGED <<rwVars, shared, pc, call, answer, scratch>>

(* Mutant: the loop over the orders ends one early.                        *)
EncodeDoneEarly(p) ==
  /\ pc[p] = "encode"
  /\ pos[p] + 1 >= Size(p)
  /\ Answer(p, IF call[p].arg = ZeroPacked THEN Fails("ErrNative")
               ELSE Result("none", out[p], 0), "runlock")
  /\ UNCHANGED <<rwVars, shared, call, scratch, pos, out>>

(* All orders written.  A PackedBatch that Pack never filled has no room   *)
(* for the text (capacity 1), so the native status is NO_SPACE.            *)
EncodeDone(p) ==
  /\ pc[p] = "encode"
  /\ pos[p] = Size(p)
  /\ Answer(p, IF call[p].arg = ZeroPacked THEN Fails("ErrNative")
               ELSE Result("none", out[p], 0), "runlock")
  /\ UNCHANGED <<rwVars, shared, call, scratch, pos, out>>

ReleaseRead(p) ==
  /\ pc[p] = "runlock"
  /\ RUnlock(p)
  /\ Goto(p, IF call[p].op = "marshal" THEN "release" ELSE "return")
  /\ UNCHANGED <<shared, local>>

-----------------------------------------------------------------------------
(* Close.                                                                  *)

AcquireWrite(p) ==
  /\ pc[p] = "lock"
  /\ Lock(p)
  /\ Goto(p, "close")
  /\ UNCHANGED <<shared, local>>

CloseAgain(p) ==
  /\ pc[p] = "close"
  /\ HoldsWrite(p)
  /\ closed
  /\ Answer(p, Fails("ErrClosed"), "unlock")
  /\ UNCHANGED <<rwVars, shared, call, scratch, pos, out>>

(* native.Encoder.Close destroys the C encoder and unmaps its code.        *)
Destroy(p) ==
  /\ pc[p] = "close"
  /\ HoldsWrite(p)
  /\ ~closed
  /\ object' = "freed"
  /\ Goto(p, "mark")
  /\ UNCHANGED <<rwVars, local, pool, rows, closed, native>>

(* Mutant: the encoder is not marked as closed.                            *)
MarkNothing(p) ==
  /\ pc[p] = "mark"
  /\ Answer(p, NoResult, "unlock")
  /\ UNCHANGED <<rwVars, shared, call, scratch, pos, out>>

MarkClosed(p) ==
  /\ pc[p] = "mark"
  /\ native' = "nil"
  /\ closed' = TRUE
  /\ Answer(p, NoResult, "unlock")
  /\ UNCHANGED <<rwVars, call, scratch, pos, out, pool, rows, object>>

ReleaseWrite(p) ==
  /\ pc[p] = "unlock"
  /\ Unlock(p)
  /\ Goto(p, "return")
  /\ UNCHANGED <<shared, local>>

-----------------------------------------------------------------------------
(* The call returns; its result and its buffers are the caller's.          *)
Return(p) ==
  /\ pc[p] = "return"
  /\ Answer(p, NoResult, "idle")
  /\ out' = [out EXCEPT ![p] = <<>>]
  /\ pos' = [pos EXCEPT ![p] = 0]
  /\ UNCHANGED <<rwVars, shared, call, scratch>>

(* What a goroutine does once it has called: everything but Begin.         *)
Step(p) ==
  \/ Get(p) \/ Reset(p) \/ PackOrder(p) \/ PackFails(p) \/ PackDone(p)
  \/ Release(p)
  \/ NilCheck(p) \/ AcquireRead(p) \/ CheckClosed(p) \/ CheckOpen(p)
  \/ ReadSize(p) \/ EncodeOrder(p) \/ EncodeDone(p) \/ ReleaseRead(p)
  \/ AcquireWrite(p) \/ CloseAgain(p) \/ Destroy(p) \/ MarkClosed(p)
  \/ ReleaseWrite(p) \/ Return(p)

Next ==
  \/ \E p \in Procs : Begin(p) \/ Step(p)
  \/ \E s \in Scratches : Collect(s)

(* A running goroutine is scheduled again; the mutex a writer queues on    *)
(* hands over to a waiter that it has starved for a millisecond.           *)
Fairness ==
  \A p \in Procs : WF_vars(Step(p)) /\ SF_vars(AcquireWrite(p))

Safe == Init /\ [][Next]_vars
Spec == Safe /\ Fairness
=============================================================================
