--------------------------- MODULE EncoderProofs ----------------------------
(***************************************************************************)
(* Proofs, for every number of goroutines, batches and workspaces, of the  *)
(* safety properties of Encoder.  The inductive invariant is built in      *)
(* layers, each proved with the help of those above it:                    *)
(*   ControlInv    the program counters against the calls                  *)
(*   LockInv       who is in which section of the RWMutex                  *)
(*   ObjectInv     the C encoder against the closed flag                   *)
(*   WorkspaceInv  who holds which workspace                               *)
(*   DataInv       what workspaces, buffers and answers hold               *)
(***************************************************************************)
EXTENDS EncoderProperties, SequenceTheorems, TLAPS

Packing == {"reset", "pack", "release"}
Packed  == {"rlock", "check", "encode", "runlock"}

ReadSection  == {"size", "encode", "runlock"}
WriteSection == {"close", "mark", "unlock"}

(* The program counter agrees with the call.                               *)
ControlInv ==
  /\ pc \in [Procs -> Labels]
  /\ call \in [Procs -> Calls \cup {[op |-> "codeSize", arg |-> <<>>]}]
  /\ \A p \in Procs :
       /\ pc[p] # "idle" => call[p] \in Calls
       /\ pc[p] \in Packing \cup {"get"} => call[p].op = "marshal"
       /\ pc[p] = "nilCheck" => call[p].op = "packed"
       /\ pc[p] = "encode" => call[p].op \in {"marshal", "packed"}
       /\ pc[p] = "size" => call[p].op = "codeSize"
       /\ pc[p] \in WriteSection \cup {"lock"} => call[p].op = "close"
       /\ pc[p] \in Packed => call[p].op # "close" /\ call[p].arg # NilPacked

(* The mutex state agrees with the program counters.                       *)
LockInv ==
  /\ RWTypeOK
  /\ \A p \in readers : pc[p] \in ReadSection \cup {"check"}
  /\ \A p \in waiting : pc[p] = "check" /\ p \notin readers
  /\ \A p \in Procs :
       /\ pc[p] \in ReadSection => p \in readers
       /\ pc[p] = "check" => p \in readers \cup waiting
       /\ pc[p] \in WriteSection <=> writer = p
       /\ pc[p] \in {"mark", "unlock"} => readers = {}
  /\ writer = None => waiting = {}

(* The C encoder is freed between Destroy and MarkClosed, and when closed. *)
ObjectInv ==
  /\ closed \in BOOLEAN
  /\ native \in {"set", "nil"}
  /\ object \in {"live", "freed"}
  /\ native = "nil" <=> closed
  /\ object = "freed" <=> (closed \/ \E p \in Procs : pc[p] = "mark")
  /\ \A p \in Procs : pc[p] \in {"mark", "size", "encode"} => ~closed

(* A Marshal holds a workspace from Get to Release.                        *)
Holding(p) ==
  pc[p] \in Packing \/ (pc[p] \in Packed /\ call[p].op = "marshal")

WorkspaceInv ==
  /\ scratch \in [Procs -> Scratches \cup {NoScratch}]
  /\ pool \subseteq Scratches
  /\ \A p \in Procs : Holding(p) <=> scratch[p] # NoScratch
  /\ ScratchExclusive

(* Rows 1 .. n of a workspace or buffer are those of the batch.            *)
Match(s, t, n) == \A i \in 1 .. n : s[i] = t[i]

Clean(batch, n) == \A i \in 1 .. n : ~Rejected(batch[i])

DataTypes ==
  /\ answer \in [Procs -> [err : Errors, output : Texts, size : Nat]]
  /\ pos \in [Procs -> Nat]
  /\ out \in [Procs -> Texts]
  /\ rows \in [Scratches -> Seq(Orders \cup {ZeroRow})]

(* While p packs: the rows packed so far.                                  *)
PackData(p) ==
  pc[p] = "pack" =>
    /\ pos[p] <= Len(call[p].arg)
    /\ Len(call[p].arg) <= Len(rows[scratch[p]])
    /\ Match(rows[scratch[p]], call[p].arg, pos[p])
    /\ Clean(call[p].arg, pos[p])

(* Once Marshal has packed: the whole batch.                               *)
BatchData(p) ==
  pc[p] \in {"rlock", "check", "encode"} /\ call[p].op = "marshal" =>
    /\ Len(call[p].arg) <= Len(rows[scratch[p]])
    /\ Match(rows[scratch[p]], call[p].arg, Len(call[p].arg))
    /\ Clean(call[p].arg, Len(call[p].arg))

(* While p encodes: the rows written so far.                               *)
OutputData(p) ==
  pc[p] = "encode" =>
    /\ Len(out[p]) = Size(p)
    /\ pos[p] <= Size(p)
    /\ call[p].arg # ZeroPacked => Match(out[p], call[p].arg, pos[p])

AnswerData(p) ==
  /\ call[p].op \in {"marshal", "packed"}
  /\ pc[p] \in {"runlock", "release", "return"}
  /\ answer[p].err = "none"
  => answer[p].output = call[p].arg

ProcData(p) == PackData(p) /\ BatchData(p) /\ OutputData(p) /\ AnswerData(p)

DataInv == DataTypes /\ \A p \in Procs : ProcData(p)

-----------------------------------------------------------------------------
(* The program counters agree with the calls.                              *)
LEMMA CodeSizeArgument == <<>> # NilPacked
  BY BatchesAssumption, EmptySeq

LEMMA ControlInitially == Init => ControlInv
  BY DEF Init, ControlInv, Labels, Packing, Packed, WriteSection

LEMMA ControlStep == ControlInv /\ [Next]_vars => ControlInv'
<1>. SUFFICES ASSUME ControlInv, [Next]_vars PROVE ControlInv'
  OBVIOUS
<1>. USE DEF ControlInv, Labels, Packing, Packed, WriteSection, Goto, Answer
<1>1. ASSUME NEW p \in Procs, Begin(p) PROVE ControlInv'
  <2>1. PICK c \in Calls :
          /\ call' = [call EXCEPT ![p] = c]
          /\ Goto(p, CASE c.op = "marshal"  -> "get"
                       [] c.op = "packed"   -> "nilCheck"
                       [] c.op = "codeSize" -> "rlock"
                       [] c.op = "close"    -> "lock")
    BY <1>1 DEF Begin
  <2>2. \/ c.op = "marshal"
        \/ c.op = "packed"
        \/ c.op = "close"
        \/ c.op = "codeSize" /\ c.arg # NilPacked
    BY CodeSizeArgument DEF Calls
  <2>. QED  BY <2>1, <2>2
<1>2. ASSUME NEW p \in Procs, Get(p) PROVE ControlInv'
  BY <1>2 DEF Get
<1>3. ASSUME NEW p \in Procs, Reset(p) \/ PackOrder(p) \/ PackFails(p)
      PROVE  ControlInv'
  BY <1>3 DEF Reset, PackOrder, PackFails
<1>4. ASSUME NEW p \in Procs, PackDone(p) PROVE ControlInv'
  <2>1. call[p].op = "marshal" /\ call[p].arg # NilPacked
    BY <1>4, BatchesAssumption DEF PackDone, Calls, PackedArgs
  <2>. QED  BY <1>4, <2>1 DEF PackDone, local
<1>5. ASSUME NEW p \in Procs, NilCheck(p) PROVE ControlInv'
  BY <1>5 DEF NilCheck
<1>6. ASSUME NEW p \in Procs,
             AcquireRead(p) \/ CheckClosed(p) \/ ReleaseRead(p)
      PROVE  ControlInv'
  BY <1>6 DEF AcquireRead, CheckClosed, ReleaseRead, local
<1>7. ASSUME NEW p \in Procs, CheckOpen(p) PROVE ControlInv'
  <2>1. call[p].op \in {"marshal", "packed", "codeSize"}
    BY <1>7 DEF CheckOpen, Calls
  <2>. QED  BY <1>7, <2>1 DEF CheckOpen
<1>8. ASSUME NEW p \in Procs, EncodeOrder(p) \/ EncodeDone(p) \/ Release(p)
      PROVE  ControlInv'
  BY <1>8 DEF EncodeOrder, EncodeDone, Release
<1>9. ASSUME NEW p \in Procs, ReadSize(p) PROVE ControlInv'
  <2>1. call[p].arg # NilPacked
    BY <1>9, CodeSizeArgument DEF ReadSize, Calls
  <2>. QED  BY <1>9, <2>1 DEF ReadSize
<1>10. ASSUME NEW p \in Procs,
              AcquireWrite(p) \/ CloseAgain(p) \/ Destroy(p) \/ MarkClosed(p)
       PROVE  ControlInv'
  BY <1>10 DEF AcquireWrite, CloseAgain, Destroy, MarkClosed, local
<1>11. ASSUME NEW p \in Procs, ReleaseWrite(p) \/ Return(p) PROVE ControlInv'
  BY <1>11 DEF ReleaseWrite, Return, local
<1>12. ASSUME NEW s \in Scratches, Collect(s) PROVE ControlInv'
  BY <1>12 DEF Collect, local
<1>13. CASE UNCHANGED vars
  BY <1>13 DEF vars, local
<1>. QED
  BY <1>1, <1>2, <1>3, <1>4, <1>5, <1>6, <1>7, <1>8, <1>9, <1>10, <1>11,
     <1>12, <1>13 DEF Next, Step

(* At every step the program counter agrees with the call it executes.     *)
THEOREM ControlHolds == Safe => []ControlInv
  BY ControlInitially, ControlStep, PTL DEF Safe

-----------------------------------------------------------------------------
(* The RWMutex agrees with the program counters.                           *)
LEMMA LockInitially == Init => LockInv
  BY NoneAssumption
     DEF Init, RWInit, LockInv, RWTypeOK, ReadSection, WriteSection

LEMMA LockStep == ControlInv /\ LockInv /\ [Next]_vars => LockInv'
<1>. SUFFICES ASSUME ControlInv, LockInv, [Next]_vars PROVE LockInv'
  OBVIOUS
<1>. pc \in [Procs -> Labels]
  BY DEF ControlInv
<1>. USE NoneAssumption
     DEF LockInv, RWTypeOK, ReadSection, WriteSection, Goto, Answer
<1>1. ASSUME NEW p \in Procs, AcquireRead(p) PROVE LockInv'
  BY <1>1 DEF AcquireRead, RLock, Admits
<1>2. ASSUME NEW p \in Procs, ReleaseRead(p) PROVE LockInv'
  BY <1>2 DEF ReleaseRead, RUnlock, HoldsRead
<1>3. ASSUME NEW p \in Procs, AcquireWrite(p) PROVE LockInv'
  BY <1>3 DEF AcquireWrite, Lock
<1>4. ASSUME NEW p \in Procs, ReleaseWrite(p) PROVE LockInv'
  BY <1>4 DEF ReleaseWrite, Unlock, HoldsWrite
<1>5. ASSUME NEW p \in Procs, CheckClosed(p) \/ CheckOpen(p) PROVE LockInv'
  BY <1>5 DEF CheckClosed, CheckOpen, HoldsRead, rwVars
<1>6. ASSUME NEW p \in Procs, ReadSize(p) \/ EncodeOrder(p) \/ EncodeDone(p)
      PROVE  LockInv'
  BY <1>6 DEF ReadSize, EncodeOrder, EncodeDone, rwVars
<1>7. ASSUME NEW p \in Procs, CloseAgain(p) \/ Destroy(p) PROVE LockInv'
  BY <1>7 DEF CloseAgain, Destroy, HoldsWrite, rwVars
<1>8. ASSUME NEW p \in Procs, MarkClosed(p) PROVE LockInv'
  BY <1>8 DEF MarkClosed, rwVars
<1>9. ASSUME NEW p \in Procs, Begin(p) PROVE LockInv'
  <2>1. \E c \in Calls :
          Goto(p, CASE c.op = "marshal"  -> "get"
                    [] c.op = "packed"   -> "nilCheck"
                    [] c.op = "codeSize" -> "rlock"
                    [] c.op = "close"    -> "lock")
    BY <1>9 DEF Begin
  <2>2. \E l \in {"get", "nilCheck", "rlock", "lock"} : Goto(p, l)
    BY <2>1 DEF Calls
  <2>. QED  BY <1>9, <2>2 DEF Begin, rwVars
<1>10. ASSUME NEW p \in Procs,
              \/ Get(p) \/ Reset(p) \/ PackOrder(p) \/ PackFails(p)
              \/ PackDone(p) \/ NilCheck(p) \/ Release(p) \/ Return(p)
       PROVE  LockInv'
  BY <1>10 DEF Get, Reset, PackOrder, PackFails, PackDone, NilCheck,
               Release, Return, rwVars
<1>11. ASSUME NEW s \in Scratches, Collect(s) PROVE LockInv'
  BY <1>11 DEF Collect, rwVars
<1>12. CASE UNCHANGED vars
  BY <1>12 DEF vars, rwVars
<1>. QED
  BY <1>1, <1>2, <1>3, <1>4, <1>5, <1>6, <1>7, <1>8, <1>9, <1>10, <1>11,
     <1>12 DEF Next, Step

(* A goroutine is in a read section only with the read lock, and in        *)
(* Close's section only when no reader is left (encoder.go:79, 117).       *)
THEOREM LockHolds == Safe => []LockInv
  BY ControlHolds, LockInitially, LockStep, PTL DEF Safe

-----------------------------------------------------------------------------
(* The C encoder lives as long as the encoder is open.                     *)
LEMMA ObjectInitially == Init => ObjectInv
  BY DEF Init, ObjectInv

LEMMA ObjectStep ==
  ControlInv /\ LockInv /\ ObjectInv /\ [Next]_vars => ObjectInv'
<1>. SUFFICES ASSUME ControlInv, LockInv, ObjectInv, [Next]_vars
              PROVE  ObjectInv'
  OBVIOUS
<1>. pc \in [Procs -> Labels]
  BY DEF ControlInv
<1>. USE DEF ObjectInv, Goto, Answer, shared, local
<1>1. ASSUME NEW p \in Procs, CheckClosed(p) \/ CheckOpen(p) PROVE ObjectInv'
  BY <1>1 DEF CheckClosed, CheckOpen, IsClosed
<1>2. ASSUME NEW p \in Procs, CloseAgain(p) PROVE ObjectInv'
  BY <1>2 DEF CloseAgain
<1>3. ASSUME NEW p \in Procs, Destroy(p) PROVE ObjectInv'
  <2>1. \A q \in Procs : pc[q] \notin {"size", "encode"}
    BY <1>3 DEF Destroy, HoldsWrite, LockInv, ReadSection
  <2>. QED  BY <1>3, <2>1 DEF Destroy
<1>4. ASSUME NEW p \in Procs, MarkClosed(p) PROVE ObjectInv'
  <2>1. writer = p /\ readers = {}
    BY <1>4 DEF MarkClosed, LockInv, WriteSection
  <2>2. \A q \in Procs \ {p} : pc[q] \notin {"mark", "size", "encode"}
    BY <2>1 DEF LockInv, WriteSection, ReadSection
  <2>. QED  BY <1>4, <2>2 DEF MarkClosed
<1>5. ASSUME NEW p \in Procs, Begin(p) PROVE ObjectInv'
  <2>1. \E l \in {"get", "nilCheck", "rlock", "lock"} :
          pc' = [pc EXCEPT ![p] = l]
    BY <1>5 DEF Begin, Calls
  <2>. QED  BY <1>5, <2>1 DEF Begin
<1>6. ASSUME NEW p \in Procs,
             \/ Get(p) \/ Reset(p) \/ PackOrder(p) \/ PackFails(p)
             \/ PackDone(p) \/ NilCheck(p) \/ Release(p) \/ Return(p)
      PROVE  ObjectInv'
  BY <1>6 DEF Get, Reset, PackOrder, PackFails, PackDone, NilCheck,
              Release, Return
<1>7. ASSUME NEW p \in Procs,
             \/ AcquireRead(p) \/ ReadSize(p) \/ EncodeOrder(p)
             \/ EncodeDone(p) \/ ReleaseRead(p) \/ AcquireWrite(p)
             \/ ReleaseWrite(p)
      PROVE  ObjectInv'
  BY <1>7 DEF AcquireRead, ReadSize, EncodeOrder, EncodeDone, ReleaseRead,
              AcquireWrite, ReleaseWrite
<1>8. ASSUME NEW s \in Scratches, Collect(s) PROVE ObjectInv'
  BY <1>8 DEF Collect
<1>9. CASE UNCHANGED vars
  BY <1>9 DEF vars
<1>. QED
  BY <1>1, <1>2, <1>3, <1>4, <1>5, <1>6, <1>7, <1>8, <1>9 DEF Next, Step

(* The closed flag and the native pointer change together, after the C     *)
(* encoder was freed, and both under the write lock (encoder.go:119-125).  *)
THEOREM ObjectHolds == Safe => []ObjectInv
  BY ControlHolds, LockHolds, ObjectInitially, ObjectStep, PTL DEF Safe

(* No goroutine is inside the C encoder after Close destroyed it: it       *)
(* entered with the read lock on an open encoder, and Close holds the      *)
(* write lock from before the destruction until the flag is set.           *)
THEOREM NeverUsedAfterClose == Safe => []NoUseAfterClose
<1>1. LockInv /\ ObjectInv => NoUseAfterClose
  BY DEF LockInv, ObjectInv, NoUseAfterClose, ReadSection
<1>. QED  BY <1>1, LockHolds, ObjectHolds, PTL

(* A Close that finds the C encoder freed finds the encoder closed: the C  *)
(* encoder is freed at most once.                                          *)
THEOREM DestroyedAtMostOnce == Safe => []DestroyedOnce
<1>1. LockInv /\ ObjectInv => DestroyedOnce
  BY DEF LockInv, ObjectInv, DestroyedOnce, WriteSection, HoldsWrite
<1>. QED  BY <1>1, LockHolds, ObjectHolds, PTL

-----------------------------------------------------------------------------
(* One holder per workspace.                                               *)
LEMMA WorkspaceInitially == Init => WorkspaceInv
  BY DEF Init, WorkspaceInv, ScratchExclusive, Holding, Packing, Packed

LEMMA WorkspaceStep ==
  ControlInv /\ WorkspaceInv /\ [Next]_vars => WorkspaceInv'
<1>. SUFFICES ASSUME ControlInv, WorkspaceInv, [Next]_vars
              PROVE  WorkspaceInv'
  OBVIOUS
<1>. /\ pc \in [Procs -> Labels]
     /\ call \in [Procs -> Calls \cup {[op |-> "codeSize", arg |-> <<>>]}]
  BY DEF ControlInv
<1>. USE RowsAssumption
     DEF WorkspaceInv, ScratchExclusive, Holding, Packing, Packed,
         Goto, Answer, shared, local
<1>1. ASSUME NEW p \in Procs, Get(p) PROVE WorkspaceInv'
  <2>1. PICK s \in Scratches :
          /\ GetPooled(s) \/ GetNew(s)
          /\ scratch' = [scratch EXCEPT ![p] = s]
    BY <1>1 DEF Get
  <2>2. pc[p] = "get" /\ pc' = [pc EXCEPT ![p] = "reset"] /\ call' = call
    BY <1>1 DEF Get
  <2>3. CASE GetPooled(s)
    BY <2>1, <2>2, <2>3 DEF GetPooled
  <2>4. CASE GetNew(s)
    BY <2>1, <2>2, <2>4 DEF GetNew, Held
  <2>. QED  BY <2>1, <2>3, <2>4
<1>2. ASSUME NEW p \in Procs, Release(p) PROVE WorkspaceInv'
  BY <1>2 DEF Release
<1>3. ASSUME NEW p \in Procs, Begin(p) PROVE WorkspaceInv'
  <2>1. PICK c \in Calls :
          /\ call' = [call EXCEPT ![p] = c]
          /\ Goto(p, CASE c.op = "marshal"  -> "get"
                       [] c.op = "packed"   -> "nilCheck"
                       [] c.op = "codeSize" -> "rlock"
                       [] c.op = "close"    -> "lock")
    BY <1>3 DEF Begin
  <2>2. \/ pc' = [pc EXCEPT ![p] = "rlock"] /\ c.op = "codeSize"
        \/ \E l \in {"get", "nilCheck", "lock"} : pc' = [pc EXCEPT ![p] = l]
    BY <2>1 DEF Calls
  <2>3. /\ pc[p] = "idle"
        /\ scratch' = scratch
        /\ pool' = pool
    BY <1>3 DEF Begin
  <2>4. scratch[p] = NoScratch
    BY <2>3
  <2>5. ~Holding(p)'
    <3>1. CASE pc' = [pc EXCEPT ![p] = "rlock"] /\ c.op = "codeSize"
      BY <2>1, <3>1
    <3>2. CASE \E l \in {"get", "nilCheck", "lock"} : pc' = [pc EXCEPT ![p] = l]
      BY <2>1, <3>2
    <3>. QED  BY <2>2, <3>1, <3>2
  <2>6. \A q \in Procs \ {p} : pc'[q] = pc[q] /\ call'[q] = call[q]
    BY <2>1, <2>2
  <2>. QED  BY <2>3, <2>4, <2>5, <2>6
<1>4. ASSUME NEW p \in Procs,
             Reset(p) \/ PackOrder(p) \/ PackFails(p) \/ PackDone(p)
      PROVE  WorkspaceInv'
  BY <1>4 DEF Reset, PackOrder, PackFails, PackDone, ControlInv
<1>5. ASSUME NEW p \in Procs,
             \/ NilCheck(p) \/ AcquireRead(p) \/ CheckClosed(p)
             \/ CheckOpen(p) \/ ReadSize(p) \/ EncodeOrder(p)
             \/ EncodeDone(p) \/ ReleaseRead(p)
      PROVE  WorkspaceInv'
  BY <1>5 DEF NilCheck, AcquireRead, CheckClosed, CheckOpen, ReadSize,
              EncodeOrder, EncodeDone, ReleaseRead, ControlInv
<1>6. ASSUME NEW p \in Procs,
             \/ AcquireWrite(p) \/ CloseAgain(p) \/ Destroy(p)
             \/ MarkClosed(p) \/ ReleaseWrite(p) \/ Return(p)
      PROVE  WorkspaceInv'
  BY <1>6 DEF AcquireWrite, CloseAgain, Destroy, MarkClosed, ReleaseWrite,
              Return
<1>7. ASSUME NEW s \in Scratches, Collect(s) PROVE WorkspaceInv'
  BY <1>7 DEF Collect
<1>8. CASE UNCHANGED vars
  BY <1>8 DEF vars
<1>. QED
  BY <1>1, <1>2, <1>3, <1>4, <1>5, <1>6, <1>7, <1>8 DEF Next, Step

(* A workspace has one holder, from the Get of a Marshal to its Put.       *)
THEOREM WorkspaceHolds == Safe => []WorkspaceInv
  BY ControlHolds, WorkspaceInitially, WorkspaceStep, PTL DEF Safe

(* Two Marshal calls never share a workspace, and the pool never offers    *)
(* one that a Marshal still reads.                                         *)
THEOREM WorkspaceExclusive == Safe => []ScratchExclusive
<1>1. WorkspaceInv => ScratchExclusive
  BY DEF WorkspaceInv
<1>. QED  BY <1>1, WorkspaceHolds, PTL

-----------------------------------------------------------------------------
(* What workspaces, buffers and answers hold.                              *)
LEMMA ArgumentTypes ==
  ASSUME NEW c \in Calls
  PROVE  /\ c.op = "marshal" => c.arg \in Seq(Orders) /\ c.arg # ZeroPacked
         /\ c.op = "packed" /\ c.arg \notin {NilPacked, ZeroPacked}
              => c.arg \in Seq(Orders)
<1>1. ASSUME c.arg \in PackedBatches PROVE c.arg \in Seq(Orders)
  <2>1. c.arg \in Seq(Orders \ BadOrders)
    BY <1>1, BatchesAssumption
  <2>2. \A i \in 1 .. Len(c.arg) : c.arg[i] \in Orders
    BY <2>1, ElementOfSeq
  <2>. QED  BY <2>1, <2>2
<1>. QED  BY <1>1, BatchesAssumption DEF Calls, PackedArgs

LEMMA AnswerTypes ==
  ASSUME NEW err \in Errors
  PROVE  /\ Fails(err) \in [err : Errors, output : Texts, size : Nat]
         /\ \A output \in Texts : \A size \in Nat :
              Result(err, output, size)
                \in [err : Errors, output : Texts, size : Nat]
  BY EmptySeq DEF Fails, Result, Texts

(* A goroutine that does not move, and whose workspace nobody touches,     *)
(* keeps its part of the invariant.                                        *)
LEMMA Framed ==
  ASSUME NEW p \in Procs, ProcData(p),
         pc'[p] = pc[p], call'[p] = call[p], answer'[p] = answer[p],
         scratch'[p] = scratch[p], pos'[p] = pos[p], out'[p] = out[p],
         Holding(p) => rows'[scratch[p]] = rows[scratch[p]]
  PROVE  ProcData(p)'
  BY DEF ProcData, PackData, BatchData, OutputData, AnswerData, Size, Match,
         Clean, Holding, Packing, Packed

LEMMA DataInitially == Init => DataInv
<1>. SUFFICES ASSUME Init PROVE DataInv
  OBVIOUS
<1>1. DataTypes
  BY AnswerTypes, EmptySeq DEF Init, DataTypes, NoResult, Errors, Texts
<1>2. \A p \in Procs : ProcData(p)
  BY DEF Init, ProcData, PackData, BatchData, OutputData, AnswerData
<1>. QED  BY <1>1, <1>2 DEF DataInv

LEMMA DataStep ==
  ControlInv /\ WorkspaceInv /\ DataInv /\ [Next]_vars => DataInv'
<1>. SUFFICES ASSUME ControlInv, WorkspaceInv, DataInv, [Next]_vars
              PROVE  DataInv'
  OBVIOUS
<1>. /\ pc \in [Procs -> Labels]
     /\ call \in [Procs -> Calls \cup {[op |-> "codeSize", arg |-> <<>>]}]
     /\ scratch \in [Procs -> Scratches \cup {NoScratch}]
     /\ DataTypes
  BY DEF ControlInv, WorkspaceInv, DataInv
<1>a. \A p \in Procs : ProcData(p)
  BY DEF DataInv
<1>b. \A p \in Procs :
        pc[p] \in {"reset", "pack"}
          => /\ scratch[p] \in Scratches
             /\ call[p].arg \in Seq(Orders)
             /\ \A q \in Procs \ {p} :
                  Holding(q) => scratch[q] # scratch[p] /\ scratch[q] \in Scratches
  BY ArgumentTypes
     DEF ControlInv, WorkspaceInv, ScratchExclusive, Holding, Packing
<1>c. ASSUME NEW s \in Scratches, rows' = [rows EXCEPT ![s] = <<>>]
      PROVE  /\ rows' \in [Scratches -> Seq(Orders \cup {ZeroRow})]
             /\ \A t \in Scratches \ {s} : rows'[t] = rows[t]
  BY <1>c, EmptySeq DEF DataTypes
<1>1. ASSUME NEW p \in Procs, Get(p) PROVE DataInv'
  <2>1. PICK s \in Scratches :
          /\ GetPooled(s) \/ GetNew(s)
          /\ scratch' = [scratch EXCEPT ![p] = s]
    BY <1>1 DEF Get
  <2>2. /\ pc[p] = "get" /\ pc' = [pc EXCEPT ![p] = "reset"]
        /\ UNCHANGED <<call, answer, pos, out>>
    BY <1>1 DEF Get, Goto
  <2>3. ProcData(p)'
    BY <2>2 DEF ProcData, PackData, BatchData, OutputData, AnswerData
  <2>4. /\ rows' \in [Scratches -> Seq(Orders \cup {ZeroRow})]
        /\ \A q \in Procs \ {p} :
             Holding(q) => rows'[scratch[q]] = rows[scratch[q]]
    <3>1. CASE GetPooled(s)
      BY <3>1 DEF GetPooled, DataTypes
    <3>2. CASE GetNew(s)
      BY <3>2, EmptySeq DEF GetNew, DataTypes, Held, WorkspaceInv
    <3>. QED  BY <2>1, <3>1, <3>2
  <2>5. ASSUME NEW q \in Procs \ {p} PROVE ProcData(q)'
    <3>1. scratch'[q] = scratch[q] /\ pc'[q] = pc[q]
      BY <2>1, <2>2
    <3>. QED  BY <1>a, <2>2, <2>4, <3>1, Framed
  <2>. QED  BY <2>2, <2>3, <2>4, <2>5 DEF DataInv, DataTypes
<1>2. ASSUME NEW p \in Procs, Reset(p) PROVE DataInv'
  <2> DEFINE s == scratch[p]
             n == Len(call[p].arg)
             fresh == [i \in 1 .. n |-> ZeroRow]
  <2>1. /\ pc[p] = "reset" /\ pc' = [pc EXCEPT ![p] = "pack"]
        /\ pos' = [pos EXCEPT ![p] = 0]
        /\ rows' = [rows EXCEPT ![s] = IF Len(rows[s]) < n THEN fresh ELSE rows[s]]
        /\ UNCHANGED <<call, answer, scratch, out>>
    BY <1>2 DEF Reset, Goto
  <2>2. s \in Scratches /\ n \in Nat
    BY <1>b, <2>1
  <2>3. fresh \in Seq(Orders \cup {ZeroRow}) /\ Len(fresh) = n
    BY <2>2
  <2>4. rows' \in [Scratches -> Seq(Orders \cup {ZeroRow})] /\ n <= Len(rows'[s])
    BY <2>1, <2>2, <2>3 DEF DataTypes
  <2>5. ProcData(p)'
    BY <2>1, <2>2, <2>4
       DEF ProcData, PackData, BatchData, OutputData, AnswerData, Match, Clean,
           DataTypes
  <2>6. ASSUME NEW q \in Procs \ {p} PROVE ProcData(q)'
    <3>1. Holding(q) => rows'[scratch[q]] = rows[scratch[q]]
      BY <1>b, <2>1 DEF DataTypes
    <3>2. pc'[q] = pc[q] /\ pos'[q] = pos[q]
      BY <2>1 DEF DataTypes
    <3>. QED  BY <1>a, <2>1, <3>1, <3>2, Framed
  <2>7. DataTypes'
    BY <2>1, <2>4 DEF DataTypes
  <2>. QED  BY <2>5, <2>6, <2>7 DEF DataInv
<1>3. ASSUME NEW p \in Procs, PackOrder(p) PROVE DataInv'
  <2> DEFINE s == scratch[p]
             k == pos[p] + 1
             r == rows[s]
             batch == call[p].arg
  <2>1. /\ pc[p] = "pack" /\ pos[p] < Len(batch) /\ ~Rejected(batch[k])
        /\ pos' = [pos EXCEPT ![p] = k]
        /\ rows' = [rows EXCEPT ![s][k] = batch[k]]
        /\ UNCHANGED <<pc, call, answer, scratch, out>>
    BY <1>3 DEF PackOrder, Order
  <2>2. s \in Scratches /\ batch \in Seq(Orders)
    BY <1>b, <2>1
  <2>3. /\ k \in 1 .. Len(batch) /\ k \in 1 .. Len(r) /\ pos[p] \in Nat
        /\ Len(batch) <= Len(r) /\ Match(r, batch, pos[p]) /\ Clean(batch, pos[p])
    BY <1>a, <2>1, <2>2 DEF ProcData, PackData, DataTypes
  <2>4. batch[k] \in Orders \cup {ZeroRow}
    BY <2>2, <2>3, ElementOfSeq
  <2>5. rows'[s] = [r EXCEPT ![k] = batch[k]]
    BY <2>1, <2>2 DEF DataTypes
  <2>6. r \in Seq(Orders \cup {ZeroRow})
    BY <2>2 DEF DataTypes
  <2>7. /\ rows'[s] \in Seq(Orders \cup {ZeroRow})
        /\ Len(rows'[s]) = Len(r)
        /\ \A j \in 1 .. Len(r) : rows'[s][j] = IF j = k THEN batch[k] ELSE r[j]
    BY <2>3, <2>4, <2>5, <2>6, ExceptSeq
  <2>8. Match(rows'[s], batch, k) /\ Clean(batch, k)
    <3>1. \A j \in 1 .. k : j = k \/ j \in 1 .. pos[p]
      BY <2>3
    <3>. QED  BY <2>1, <2>3, <2>7, <3>1 DEF Match, Clean
  <2>9. ProcData(p)'
    <3>1. pos'[p] = k
      BY <2>1 DEF DataTypes
    <3>. QED
      BY <2>1, <2>3, <2>7, <2>8, <3>1
         DEF ProcData, PackData, BatchData, OutputData, AnswerData, Match, Clean
  <2>10. ASSUME NEW q \in Procs \ {p} PROVE ProcData(q)'
    <3>1. Holding(q) => rows'[scratch[q]] = rows[scratch[q]]
      BY <1>b, <2>1 DEF DataTypes
    <3>2. pos'[q] = pos[q]
      BY <2>1 DEF DataTypes
    <3>. QED  BY <1>a, <2>1, <3>1, <3>2, Framed
  <2>11. rows' \in [Scratches -> Seq(Orders \cup {ZeroRow})]
    BY <2>1, <2>2, <2>7 DEF DataTypes
  <2>12. DataTypes'
    BY <2>1, <2>3, <2>11 DEF DataTypes
  <2>. QED  BY <2>9, <2>10, <2>12 DEF DataInv
<1>4. ASSUME NEW p \in Procs, PackFails(p) PROVE DataInv'
  <2>1. /\ pc' = [pc EXCEPT ![p] = "release"]
        /\ answer' = [answer EXCEPT ![p] = Fails("ErrInvalidUTF8")]
        /\ UNCHANGED <<call, scratch, pos, out, rows>>
    BY <1>4 DEF PackFails, Answer, Goto, shared
  <2>2. DataTypes'
    BY <2>1, AnswerTypes DEF DataTypes, Errors
  <2>3. ProcData(p)'
    BY <2>1 DEF ProcData, PackData, BatchData, OutputData, AnswerData,
                DataTypes, Fails, Result
  <2>4. ASSUME NEW q \in Procs \ {p} PROVE ProcData(q)'
    BY <1>a, <2>1, Framed DEF DataTypes
  <2>. QED  BY <2>2, <2>3, <2>4 DEF DataInv
<1>5. ASSUME NEW p \in Procs, PackDone(p) PROVE DataInv'
  <2>1. /\ pc[p] = "pack" /\ pos[p] = Len(call[p].arg)
        /\ pc' = [pc EXCEPT ![p] = "rlock"]
        /\ UNCHANGED <<call, answer, scratch, pos, out, rows>>
    BY <1>5 DEF PackDone, Goto, shared, local
  <2>2. ProcData(p)'
    BY <1>a, <2>1 DEF ProcData, PackData, BatchData, OutputData, AnswerData,
                      Match, Clean
  <2>3. ASSUME NEW q \in Procs \ {p} PROVE ProcData(q)'
    BY <1>a, <2>1, Framed
  <2>. QED  BY <2>1, <2>2, <2>3 DEF DataInv, DataTypes
<1>6. ASSUME NEW p \in Procs, CheckOpen(p) PROVE DataInv'
  <2> DEFINE blank == [i \in 1 .. Size(p) |-> Garbage]
  <2>1. CASE call[p].op = "codeSize"
    <3>1. /\ pc' = [pc EXCEPT ![p] = "size"]
          /\ UNCHANGED <<call, answer, scratch, pos, out, rows>>
      BY <1>6, <2>1 DEF CheckOpen, Goto, shared
    <3>2. ProcData(p)'
      BY <2>1, <3>1 DEF ProcData, PackData, BatchData, OutputData, AnswerData
    <3>3. ASSUME NEW q \in Procs \ {p} PROVE ProcData(q)'
      BY <1>a, <3>1, Framed
    <3>. QED  BY <3>1, <3>2, <3>3 DEF DataInv, DataTypes
  <2>2. CASE call[p].op # "codeSize"
    <3>1. /\ pc[p] = "check" /\ pc' = [pc EXCEPT ![p] = "encode"]
          /\ out' = [out EXCEPT ![p] = blank]
          /\ pos' = [pos EXCEPT ![p] = 0]
          /\ UNCHANGED <<call, answer, scratch, rows>>
      BY <1>6, <2>2 DEF CheckOpen, Goto, shared
    <3>2. call[p].arg # ZeroPacked => call[p].arg \in Seq(Orders)
      BY <2>2, <3>1, ArgumentTypes DEF ControlInv, Packed, Calls
    <3>3. Size(p) \in Nat
      BY <3>2 DEF Size
    <3>4. blank \in Texts /\ Len(blank) = Size(p)
      BY <3>3 DEF Texts
    <3>5. Size(p)' = Size(p)
      BY <3>1 DEF Size
    <3>6. DataTypes'
      BY <3>1, <3>4 DEF DataTypes
    <3>7. ProcData(p)'
      BY <1>a, <3>1, <3>3, <3>4, <3>5
         DEF ProcData, PackData, BatchData, OutputData, AnswerData, Match,
             Clean, DataTypes
    <3>8. ASSUME NEW q \in Procs \ {p} PROVE ProcData(q)'
      BY <1>a, <3>1, Framed DEF DataTypes
    <3>. QED  BY <3>6, <3>7, <3>8 DEF DataInv
  <2>. QED  BY <2>1, <2>2
<1>7. ASSUME NEW p \in Procs, EncodeOrder(p) PROVE DataInv'
  <2> DEFINE k == pos[p] + 1
             arg == call[p].arg
             e == Row(p, k)
  <2>1. /\ pc[p] = "encode" /\ pos[p] < Size(p)
        /\ out' = [out EXCEPT ![p][k] = e]
        /\ pos' = [pos EXCEPT ![p] = k]
        /\ UNCHANGED <<pc, call, answer, scratch, rows>>
    BY <1>7 DEF EncodeOrder, shared
  <2>2. call[p] \in Calls /\ call[p].op \in {"marshal", "packed"} /\ arg # NilPacked
    BY <2>1 DEF ControlInv, Packed
  <2>3. arg # ZeroPacked
    BY <1>a, <2>1 DEF Size, DataTypes
  <2>4. arg \in Seq(Orders) /\ Size(p) = Len(arg)
    BY <2>2, <2>3, ArgumentTypes DEF Size
  <2>5. /\ Len(out[p]) = Len(arg) /\ Match(out[p], arg, pos[p])
        /\ pos[p] \in Nat /\ k \in 1 .. Len(arg)
    BY <1>a, <2>1, <2>3, <2>4 DEF ProcData, OutputData, DataTypes
  <2>6. e = arg[k]
    <3>1. CASE call[p].op = "marshal"
      BY <1>a, <2>1, <2>5, <3>1 DEF ProcData, BatchData, Match, Row
    <3>2. CASE call[p].op = "packed"
      BY <3>2 DEF Row
    <3>. QED  BY <2>2, <3>1, <3>2
  <2>7. e \in Orders \cup {ZeroRow, Garbage}
    BY <2>4, <2>5, <2>6, ElementOfSeq
  <2>8. out'[p] = [out[p] EXCEPT ![k] = e]
    BY <2>1 DEF DataTypes
  <2>9. out[p] \in Seq(Orders \cup {ZeroRow, Garbage})
    BY DEF DataTypes, Texts
  <2>10. k \in 1 .. Len(out[p])
    BY <2>5
  <2>11. /\ out'[p] \in Seq(Orders \cup {ZeroRow, Garbage})
         /\ Len(out'[p]) = Len(arg)
         /\ \A j \in 1 .. Len(arg) : out'[p][j] = IF j = k THEN e ELSE out[p][j]
    BY <2>5, <2>7, <2>8, <2>9, <2>10, ExceptSeq
  <2>12. Match(out'[p], arg, k)
    <3>1. \A j \in 1 .. k : j = k \/ j \in 1 .. pos[p]
      BY <2>5
    <3>. QED  BY <2>5, <2>6, <2>11, <3>1 DEF Match
  <2>13. ProcData(p)'
    <3>1. pos'[p] = k /\ Size(p)' = Len(arg)
      BY <2>1, <2>3 DEF DataTypes, Size
    <3>. QED
      BY <1>a, <2>1, <2>5, <2>11, <2>12, <3>1
         DEF ProcData, PackData, BatchData, OutputData, AnswerData, Match, Clean
  <2>14. ASSUME NEW q \in Procs \ {p} PROVE ProcData(q)'
    <3>1. pos'[q] = pos[q] /\ out'[q] = out[q]
      BY <2>1 DEF DataTypes
    <3>. QED  BY <1>a, <2>1, <3>1, Framed
  <2>15. DataTypes'
    BY <2>1, <2>5, <2>11 DEF DataTypes, Texts
  <2>. QED  BY <2>13, <2>14, <2>15 DEF DataInv
<1>8. ASSUME NEW p \in Procs, EncodeDone(p) PROVE DataInv'
  <2> DEFINE a == IF call[p].arg = ZeroPacked THEN Fails("ErrNative")
                  ELSE Result("none", out[p], 0)
  <2>1. /\ pc[p] = "encode" /\ pos[p] = Size(p)
        /\ pc' = [pc EXCEPT ![p] = "runlock"]
        /\ answer' = [answer EXCEPT ![p] = a]
        /\ UNCHANGED <<call, scratch, pos, out, rows>>
    BY <1>8 DEF EncodeDone, Answer, Goto, shared
  <2>2. a \in [err : Errors, output : Texts, size : Nat]
    BY AnswerTypes DEF DataTypes, Errors
  <2>3. DataTypes'
    BY <2>1, <2>2 DEF DataTypes
  <2>4. a.err = "none" => a.output = call[p].arg
    <3>1. CASE call[p].arg = ZeroPacked
      BY <3>1 DEF Fails, Result
    <3>2. CASE call[p].arg # ZeroPacked
      <4>1. call[p].arg \in Seq(Orders) /\ Size(p) = Len(call[p].arg)
        BY <2>1, <3>2, ArgumentTypes DEF ControlInv, Packed, Size
      <4>2. Len(out[p]) = Len(call[p].arg) /\ Match(out[p], call[p].arg, Len(out[p]))
        BY <1>a, <2>1, <3>2, <4>1 DEF ProcData, OutputData
      <4>3. out[p] \in Seq(Orders \cup {ZeroRow, Garbage})
        BY DEF DataTypes, Texts
      <4>4. call[p].arg \in Seq(Orders \cup {ZeroRow, Garbage})
        BY <4>1
      <4>5. out[p] = call[p].arg
        BY <4>2, <4>3, <4>4, SeqEqual DEF Match
      <4>. QED  BY <3>2, <4>5 DEF Result
    <3>. QED  BY <3>1, <3>2
  <2>5. ProcData(p)'
    BY <2>1, <2>4 DEF ProcData, PackData, BatchData, OutputData, AnswerData,
                      DataTypes
  <2>6. ASSUME NEW q \in Procs \ {p} PROVE ProcData(q)'
    BY <1>a, <2>1, Framed DEF DataTypes
  <2>. QED  BY <2>3, <2>5, <2>6 DEF DataInv
<1>9. ASSUME NEW p \in Procs, Begin(p) PROVE DataInv'
  <2>1. PICK c \in Calls :
          /\ call' = [call EXCEPT ![p] = c]
          /\ Goto(p, CASE c.op = "marshal"  -> "get"
                       [] c.op = "packed"   -> "nilCheck"
                       [] c.op = "codeSize" -> "rlock"
                       [] c.op = "close"    -> "lock")
    BY <1>9 DEF Begin
  <2>2. \/ pc' = [pc EXCEPT ![p] = "rlock"] /\ c.op = "codeSize"
        \/ \E l \in {"get", "nilCheck", "lock"} : pc' = [pc EXCEPT ![p] = l]
    BY <2>1 DEF Calls, Goto
  <2>3. UNCHANGED <<answer, scratch, pos, out, rows>>
    BY <1>9 DEF Begin, shared
  <2>4. ProcData(p)'
    BY <2>1, <2>2 DEF ProcData, PackData, BatchData, OutputData, AnswerData
  <2>5. ASSUME NEW q \in Procs \ {p} PROVE ProcData(q)'
    <3>1. pc'[q] = pc[q] /\ call'[q] = call[q]
      BY <2>1, <2>2
    <3>. QED  BY <1>a, <2>3, <3>1, Framed
  <2>. QED  BY <2>3, <2>4, <2>5 DEF DataInv, DataTypes
<1>10. ASSUME NEW p \in Procs, NilCheck(p) PROVE DataInv'
  <2>1. /\ pc[p] = "nilCheck" /\ call[p].op = "packed"
        /\ \/ /\ pc' = [pc EXCEPT ![p] = "return"]
              /\ answer' = [answer EXCEPT ![p] = Fails("ErrNilPacked")]
           \/ pc' = [pc EXCEPT ![p] = "rlock"] /\ answer' = answer
        /\ UNCHANGED <<call, scratch, pos, out, rows>>
    BY <1>10 DEF NilCheck, Answer, Goto, shared, ControlInv
  <2>2. DataTypes'
    <3>1. Fails("ErrNilPacked") \in [err : Errors, output : Texts, size : Nat]
      BY AnswerTypes DEF Errors
    <3>. QED  BY <2>1, <3>1 DEF DataTypes
  <2>3. ProcData(p)'
    BY <2>1 DEF ProcData, PackData, BatchData, OutputData, AnswerData,
                DataTypes, Fails, Result
  <2>4. ASSUME NEW q \in Procs \ {p} PROVE ProcData(q)'
    <3>1. pc'[q] = pc[q] /\ answer'[q] = answer[q]
      BY <2>1 DEF DataTypes
    <3>. QED  BY <1>a, <2>1, <3>1, Framed
  <2>. QED  BY <2>2, <2>3, <2>4 DEF DataInv
<1>11. ASSUME NEW p \in Procs, CheckClosed(p) PROVE DataInv'
  <2>1. /\ pc' = [pc EXCEPT ![p] = "runlock"]
        /\ \/ /\ answer' = [answer EXCEPT ![p] = NoResult]
              /\ call[p].op = "codeSize"
           \/ answer' = [answer EXCEPT ![p] = Fails("ErrClosed")]
        /\ UNCHANGED <<call, scratch, pos, out, rows>>
    BY <1>11 DEF CheckClosed, Answer, Goto, shared
  <2>2. DataTypes'
    <3>1. /\ NoResult \in [err : Errors, output : Texts, size : Nat]
          /\ Fails("ErrClosed") \in [err : Errors, output : Texts, size : Nat]
      BY AnswerTypes DEF Errors, NoResult
    <3>. QED  BY <2>1, <3>1, ZenonT(30) DEF DataTypes
  <2>3. ProcData(p)'
    BY <2>1 DEF ProcData, PackData, BatchData, OutputData, AnswerData,
                DataTypes, Fails, Result
  <2>4. ASSUME NEW q \in Procs \ {p} PROVE ProcData(q)'
    <3>1. pc'[q] = pc[q] /\ answer'[q] = answer[q]
      BY <2>1 DEF DataTypes
    <3>. QED  BY <1>a, <2>1, <3>1, Framed
  <2>. QED  BY <2>2, <2>3, <2>4 DEF DataInv
<1>12. ASSUME NEW p \in Procs,
              ReadSize(p) \/ CloseAgain(p) \/ MarkClosed(p) \/ Return(p)
       PROVE  DataInv'
  <2>1. \E l \in {"runlock", "unlock", "idle"}, err \in Errors, n \in Nat :
          /\ pc' = [pc EXCEPT ![p] = l]
          /\ answer' = [answer EXCEPT ![p] = Result(err, <<>>, n)]
          /\ l = "runlock" => call[p].op = "codeSize"
    <3>1. NativeSize \in Nat
      BY OptionsAssumption
    <3>. QED
      BY <1>12, <3>1 DEF ReadSize, CloseAgain, MarkClosed, Return, Answer, Goto,
                         ControlInv, NoResult, Fails, Errors
  <2>2. /\ \/ pos' = pos /\ out' = out
           \/ pos' = [pos EXCEPT ![p] = 0] /\ out' = [out EXCEPT ![p] = <<>>]
        /\ UNCHANGED <<call, scratch, rows>>
    BY <1>12 DEF ReadSize, CloseAgain, MarkClosed, Return, shared, local
  <2>3. DataTypes'
    <3>1. <<>> \in Texts
      BY EmptySeq DEF Texts
    <3>2. \A err \in Errors, n \in Nat :
            Result(err, <<>>, n) \in [err : Errors, output : Texts, size : Nat]
      BY <3>1, AnswerTypes
    <3>3. answer' \in [Procs -> [err : Errors, output : Texts, size : Nat]]
      BY <2>1, <3>2 DEF DataTypes
    <3>4. \E o \in Texts : out' = out \/ out' = [out EXCEPT ![p] = o]
      BY <2>2, <3>1
    <3>5. out' \in [Procs -> Texts]
      BY <3>4 DEF DataTypes
    <3>6. rows' = rows /\ (pos' = pos \/ pos' = [pos EXCEPT ![p] = 0])
      BY <2>2
    <3>7. pos' \in [Procs -> Nat]
      <4>1. pos \in [Procs -> Nat]
        BY DEF DataTypes
      <4>2. [pos EXCEPT ![p] = 0] \in [Procs -> Nat]
        BY <4>1
      <4>. QED  BY <3>6, <4>1, <4>2
    <3>. QED  BY <3>3, <3>5, <3>6, <3>7 DEF DataTypes
  <2>4. ProcData(p)'
    BY <2>1, <2>2 DEF ProcData, PackData, BatchData, OutputData, AnswerData
  <2>5. ASSUME NEW q \in Procs \ {p} PROVE ProcData(q)'
    <3>1. /\ pc'[q] = pc[q] /\ answer'[q] = answer[q]
          /\ pos'[q] = pos[q] /\ out'[q] = out[q]
      BY <2>1, <2>2 DEF DataTypes
    <3>. QED  BY <1>a, <2>2, <3>1, Framed
  <2>. QED  BY <2>3, <2>4, <2>5 DEF DataInv
<1>13. ASSUME NEW p \in Procs, ReleaseRead(p) PROVE DataInv'
  <2>1. /\ pc[p] = "runlock"
        /\ \E l \in {"release", "return"} : pc' = [pc EXCEPT ![p] = l]
        /\ UNCHANGED <<call, answer, scratch, pos, out, rows>>
    BY <1>13 DEF ReleaseRead, Goto, shared, local
  <2>2. ProcData(p)'
    BY <1>a, <2>1 DEF ProcData, PackData, BatchData, OutputData, AnswerData
  <2>3. ASSUME NEW q \in Procs \ {p} PROVE ProcData(q)'
    <3>1. pc'[q] = pc[q]
      BY <2>1
    <3>. QED  BY <1>a, <2>1, <3>1, Framed
  <2>. QED  BY <2>1, <2>2, <2>3 DEF DataInv, DataTypes
<1>14. ASSUME NEW p \in Procs,
              AcquireRead(p) \/ AcquireWrite(p) \/ Destroy(p) \/ ReleaseWrite(p)
       PROVE  DataInv'
  <2>1. /\ pc[p] \in {"rlock", "lock", "close", "unlock"}
        /\ \/ pc[p] = "rlock" /\ pc' = [pc EXCEPT ![p] = "check"]
           \/ \E l \in {"close", "mark", "return"} :
                pc[p] # "rlock" /\ pc' = [pc EXCEPT ![p] = l]
        /\ UNCHANGED <<call, answer, scratch, pos, out, rows>>
    BY <1>14 DEF AcquireRead, AcquireWrite, Destroy, ReleaseWrite, Goto,
                 shared, local
  <2>2. pc[p] # "rlock" => call[p].op = "close"
    BY <2>1 DEF ControlInv, WriteSection
  <2>3. ProcData(p)'
    BY <1>a, <2>1, <2>2
       DEF ProcData, PackData, BatchData, OutputData, AnswerData, Match, Clean
  <2>4. ASSUME NEW q \in Procs \ {p} PROVE ProcData(q)'
    <3>1. pc'[q] = pc[q]
      BY <2>1
    <3>. QED  BY <1>a, <2>1, <3>1, Framed
  <2>. QED  BY <2>1, <2>3, <2>4 DEF DataInv, DataTypes
<1>15. ASSUME UNCHANGED <<pc, local, rows>> PROVE DataInv'
  <2>1. ASSUME NEW q \in Procs PROVE ProcData(q)'
    BY <1>a, <1>15, Framed DEF local
  <2>. QED  BY <1>15, <2>1 DEF DataInv, DataTypes, local
<1>16. ASSUME NEW s \in Scratches, Collect(s) PROVE DataInv'
  <2>1. /\ s \in pool
        /\ rows' = [rows EXCEPT ![s] = <<>>]
        /\ UNCHANGED <<pc, call, answer, scratch, pos, out>>
    BY <1>16 DEF Collect, local
  <2>2. ASSUME NEW q \in Procs PROVE ProcData(q)'
    <3>1. Holding(q) => scratch[q] \in Scratches \ {s}
      BY <2>1 DEF WorkspaceInv, ScratchExclusive
    <3>2. Holding(q) => rows'[scratch[q]] = rows[scratch[q]]
      BY <1>c, <2>1, <3>1
    <3>. QED  BY <1>a, <2>1, <3>2, Framed
  <2>. QED  BY <1>c, <2>1, <2>2 DEF DataInv, DataTypes
<1>17. CASE UNCHANGED vars
  BY <1>15, <1>17 DEF vars, shared
<1>18. ASSUME NEW p \in Procs, Release(p) PROVE DataInv'
  <2>1. /\ pc[p] = "release" /\ pc' = [pc EXCEPT ![p] = "return"]
        /\ scratch' = [scratch EXCEPT ![p] = NoScratch]
        /\ rows' = rows \/ rows' = [rows EXCEPT ![scratch[p]] = <<>>]
        /\ UNCHANGED <<call, answer, pos, out>>
    BY <1>18 DEF Release, Goto
  <2>2. /\ scratch[p] \in Scratches
        /\ \A q \in Procs \ {p} :
             Holding(q) => scratch[q] \in Scratches \ {scratch[p]}
    BY <2>1 DEF ControlInv, WorkspaceInv, ScratchExclusive, Holding, Packing,
                Packed
  <2>3. ProcData(p)'
    BY <1>a, <2>1 DEF ProcData, PackData, BatchData, OutputData, AnswerData
  <2>4. /\ rows' \in [Scratches -> Seq(Orders \cup {ZeroRow})]
        /\ \A q \in Procs \ {p} :
             Holding(q) => rows'[scratch[q]] = rows[scratch[q]]
    BY <1>c, <2>1, <2>2 DEF DataTypes
  <2>5. ASSUME NEW q \in Procs \ {p} PROVE ProcData(q)'
    <3>1. pc'[q] = pc[q] /\ scratch'[q] = scratch[q]
      BY <2>1
    <3>. QED  BY <1>a, <2>1, <2>4, <3>1, Framed
  <2>. QED  BY <2>1, <2>3, <2>4, <2>5 DEF DataInv, DataTypes
<1>. QED
  BY <1>1, <1>2, <1>3, <1>4, <1>5, <1>6, <1>7, <1>8, <1>9, <1>10, <1>11,
     <1>12, <1>13, <1>14, <1>16, <1>17, <1>18 DEF Next, Step

(* Workspaces, buffers and answers hold the rows of the batch in progress. *)
THEOREM DataHolds == Safe => []DataInv
  BY ControlHolds, WorkspaceHolds, DataInitially, DataStep, PTL DEF Safe

(* A successful Marshal or MarshalPacked answers the orders of its batch,  *)
(* all of them and no other, whatever its workspace was used for before.   *)
THEOREM AnswersAreOwn == Safe => []AnswersOwnBatch
<1>1. DataInv => AnswersOwnBatch
  BY DEF DataInv, ProcData, AnswerData, AnswersOwnBatch
<1>. QED  BY <1>1, DataHolds, PTL

(* Every variable keeps its type.                                          *)
THEOREM TypesHold == Safe => []TypeOK
<1>1. ControlInv /\ LockInv /\ ObjectInv /\ WorkspaceInv /\ DataInv => TypeOK
  BY DEF ControlInv, LockInv, ObjectInv, WorkspaceInv, DataInv, DataTypes, TypeOK
<1>. QED
  BY <1>1, ControlHolds, LockHolds, ObjectHolds, WorkspaceHolds, DataHolds, PTL

-----------------------------------------------------------------------------
(* Every step of Encoder is one of EncoderContract or leaves the abstract  *)
(* state alone.  A goroutine changes its own entries only, so each case    *)
(* says what becomes of the phase and the answer of the one that moved.    *)

(* The contract's answers are those of EncoderCalls.                       *)
LEMMA SameCalls == Contract!Calls = Calls
  BY DEF Contract!Calls, Calls, Contract!PackedArgs, PackedArgs

LEMMA SameReply ==
  ASSUME NEW c, NEW open
  PROVE  Contract!Reply(c, open) = Reply(c, open)
  BY DEF Contract!Reply, Reply, Contract!MarshalReply, MarshalReply,
         Contract!PackedReply, PackedReply, Contract!Rejected, Rejected,
         Contract!Result, Result, Contract!Fails, Fails,
         Contract!NoResult, NoResult

(* p moved: nobody else's part of the abstract state changes.              *)
Moved(p) ==
  \A q \in Procs \ {p} :
    pc'[q] = pc[q] /\ call'[q] = call[q] /\ answer'[q] = answer[q]

LEMMA OthersStay ==
  ASSUME NEW p \in Procs, Moved(p)
  PROVE  /\ AbsPhase' = [AbsPhase EXCEPT ![p] = AbsPhase'[p]]
         /\ AbsAnswer' = [AbsAnswer EXCEPT ![p] = AbsAnswer'[p]]
<1>1. ASSUME NEW q \in Procs \ {p}
      PROVE  AbsPhase'[q] = AbsPhase[q] /\ AbsAnswer'[q] = AbsAnswer[q]
  BY DEF Moved, AbsPhase, AbsAnswer, Answered
<1>. QED  BY <1>1 DEF AbsPhase, AbsAnswer

(* The three ways p may move: no change, the call takes effect, return.    *)
LEMMA Stutters ==
  ASSUME NEW p \in Procs, Moved(p), UNCHANGED <<closed, call>>,
         AbsPhase'[p] = AbsPhase[p], AbsAnswer'[p] = AbsAnswer[p]
  PROVE  UNCHANGED Contract!vars
<1>1. ASSUME NEW q \in Procs
      PROVE  AbsPhase'[q] = AbsPhase[q] /\ AbsAnswer'[q] = AbsAnswer[q]
  <2>1. CASE q = p
    BY <2>1
  <2>2. CASE q # p
    BY <2>2 DEF Moved, AbsPhase, AbsAnswer, Answered
  <2>. QED  BY <2>1, <2>2
<1>2. AbsPhase' = AbsPhase /\ AbsAnswer' = AbsAnswer
  BY <1>1 DEF AbsPhase, AbsAnswer
<1>. QED  BY <1>2 DEF Contract!vars

LEMMA TakesEffect ==
  ASSUME NEW p \in Procs, Moved(p), UNCHANGED call,
         AbsPhase[p] = "pending", AbsPhase'[p] = "answered",
         AbsAnswer'[p] = Reply(call[p], ~closed),
         ~closed' <=> (~closed /\ call[p].op # "close")
  PROVE  Contract!TakeEffect(p)
  BY OthersStay, SameReply DEF Contract!TakeEffect

-----------------------------------------------------------------------------
(* The initial states agree.                                               *)
LEMMA InitiallyContract == Init => Contract!Init
<1>. SUFFICES ASSUME Init PROVE Contract!Init
  OBVIOUS
<1>1. Contract!NoResult = NoResult
  BY DEF Contract!NoResult, NoResult, Contract!Fails, Fails,
         Contract!Result, Result
<1>. QED  BY <1>1 DEF Init, Contract!Init, AbsPhase, AbsAnswer

(* Steps before a call takes effect, after it has, and the lock's.         *)
LEMMA SilentStep ==
  ASSUME NEW p \in Procs, ControlInv,
         \/ Get(p) \/ Reset(p) \/ PackOrder(p) \/ PackDone(p)
         \/ NilCheck(p) /\ call[p].arg # NilPacked
         \/ AcquireRead(p) \/ EncodeOrder(p) \/ ReleaseRead(p) \/ Release(p)
         \/ AcquireWrite(p) \/ Destroy(p) \/ ReleaseWrite(p)
  PROVE  UNCHANGED Contract!vars
<1>. pc \in [Procs -> Labels]
  BY DEF ControlInv
<1>1. Moved(p) /\ UNCHANGED <<closed, call, answer>>
  BY DEF Moved, Get, Reset, PackOrder, PackDone, NilCheck, AcquireRead,
         EncodeOrder, ReleaseRead, Release, AcquireWrite, Destroy, ReleaseWrite,
         Goto, shared, local
<1>2. \/ pc' = pc
      \/ /\ pc[p] \in {"get", "reset", "pack", "nilCheck", "rlock", "lock", "close"}
         /\ pc'[p] \in {"reset", "pack", "rlock", "check", "close", "mark"}
      \/ /\ pc[p] \in {"runlock", "release", "unlock"}
         /\ pc'[p] \in {"release", "return"}
  BY DEF Get, Reset, PackOrder, PackDone, NilCheck, AcquireRead,
         EncodeOrder, ReleaseRead, Release, AcquireWrite, Destroy, ReleaseWrite, Goto
<1>3. AbsPhase'[p] = AbsPhase[p] /\ AbsAnswer'[p] = AbsAnswer[p]
  BY <1>1, <1>2 DEF AbsPhase, AbsAnswer, Answered
<1>. QED  BY <1>1, <1>3, Stutters
(* A call begins.                                                          *)
LEMMA BeginStep ==
  ASSUME NEW p \in Procs, ControlInv, Begin(p)
  PROVE  Contract!Invoke(p)
<1>. pc \in [Procs -> Labels]
  BY DEF ControlInv
<1>1. PICK c \in Calls :
        /\ call' = [call EXCEPT ![p] = c]
        /\ Goto(p, CASE c.op = "marshal"  -> "get"
                     [] c.op = "packed"   -> "nilCheck"
                     [] c.op = "codeSize" -> "rlock"
                     [] c.op = "close"    -> "lock")
  BY DEF Begin
<1>2. PICK l \in {"get", "nilCheck", "rlock", "lock"} : Goto(p, l)
  BY <1>1 DEF Calls
<1>3. pc[p] = "idle" /\ pc' = [pc EXCEPT ![p] = l] /\ UNCHANGED <<closed, answer>>
  BY <1>2 DEF Begin, Goto, shared
<1>4. AbsPhase[p] = "idle" /\ AbsPhase' = [AbsPhase EXCEPT ![p] = "pending"]
  BY <1>3 DEF AbsPhase, Answered
<1>5. ASSUME NEW q \in Procs PROVE AbsAnswer'[q] = AbsAnswer[q]
  <2>1. CASE q = p
    BY <1>3, <2>1 DEF AbsAnswer
  <2>2. CASE q # p
    <3>1. pc'[q] = pc[q] /\ call'[q] = call[q] /\ answer'[q] = answer[q]
      BY <1>1, <1>3, <2>2
    <3>. QED  BY <3>1 DEF AbsAnswer
  <2>. QED  BY <2>1, <2>2
<1>6. AbsAnswer' = AbsAnswer
  BY <1>5 DEF AbsAnswer
<1>. QED  BY <1>1, <1>3, <1>4, <1>6, SameCalls DEF Contract!Invoke

(* A call returns.                                                         *)
LEMMA ReturnStep ==
  ASSUME NEW p \in Procs, ControlInv, DataInv, Return(p)
  PROVE  Contract!Return(p)
<1>. /\ pc \in [Procs -> Labels]
     /\ answer \in [Procs -> [err : Errors, output : Texts, size : Nat]]
  BY DEF ControlInv, DataInv, DataTypes
<1>1. /\ pc[p] = "return"
      /\ pc' = [pc EXCEPT ![p] = "idle"]
      /\ answer' = [answer EXCEPT ![p] = NoResult]
      /\ UNCHANGED <<closed, call>>
  BY DEF Return, Answer, Goto, shared
<1>2. /\ AbsPhase[p] = "answered" /\ AbsPhase'[p] = "idle"
      /\ AbsAnswer'[p] = NoResult
  BY <1>1 DEF AbsPhase, AbsAnswer, Answered
<1>3. Moved(p)
  BY <1>1 DEF Moved
<1>4. Contract!NoResult = NoResult
  BY DEF Contract!NoResult, NoResult, Contract!Fails, Fails,
         Contract!Result, Result
<1>. QED  BY <1>1, <1>2, <1>3, <1>4, OthersStay DEF Contract!Return

(* The steps at which a call takes effect: a failed validation, the nil    *)
(* check, the closed check, the end of Close.                              *)
LEMMA FailsStep ==
  ASSUME NEW p \in Procs, ControlInv, ObjectInv, DataInv,
         \/ PackFails(p)
         \/ NilCheck(p) /\ call[p].arg = NilPacked
         \/ CheckClosed(p)
         \/ CloseAgain(p)
  PROVE  Contract!TakeEffect(p)
<1>. /\ pc \in [Procs -> Labels]
     /\ answer \in [Procs -> [err : Errors, output : Texts, size : Nat]]
     /\ pos \in [Procs -> Nat]
  BY DEF ControlInv, DataInv, DataTypes
<1>1. Moved(p) /\ UNCHANGED <<closed, call>>
  BY DEF Moved, PackFails, NilCheck, CheckClosed, CloseAgain, Answer, Goto, shared
<1>2. /\ AbsPhase[p] = "pending" /\ AbsPhase'[p] = "answered"
      /\ AbsAnswer'[p] = answer'[p]
  BY DEF PackFails, NilCheck, CheckClosed, CloseAgain, Answer, Goto,
         AbsPhase, AbsAnswer, Answered
<1>3. /\ answer'[p] = Reply(call[p], ~closed)
      /\ ~closed <=> (~closed /\ call[p].op # "close")
  <2>1. CASE PackFails(p)
    <3>1. call[p].op = "marshal" /\ call[p] \in Calls
      BY <2>1 DEF PackFails, ControlInv, Packing
    <3>2. call[p].arg \in Seq(Orders)
      BY <3>1, ArgumentTypes
    <3>3. pos[p] + 1 \in 1 .. Len(call[p].arg) /\ Rejected(call[p].arg[pos[p] + 1])
      BY <2>1, <3>2 DEF PackFails, Order
    <3>4. answer'[p] = Fails("ErrInvalidUTF8")
      BY <2>1 DEF PackFails, Answer
    <3>. QED  BY <3>1, <3>3, <3>4 DEF Reply, MarshalReply
  <2>2. CASE NilCheck(p) /\ call[p].arg = NilPacked
    <3>1. call[p].op = "packed" /\ answer'[p] = Fails("ErrNilPacked")
      BY <2>2 DEF NilCheck, Answer, ControlInv
    <3>. QED  BY <2>2, <3>1 DEF Reply, PackedReply
  <2>3. CASE CheckClosed(p)
    <3>1. closed /\ pc[p] = "check"
      BY <2>3 DEF CheckClosed, IsClosed, ObjectInv
    <3>2. call[p] \in Calls /\ call[p].op # "close" /\ call[p].arg # NilPacked
      BY <3>1 DEF ControlInv, Packed
    <3>3. answer'[p] = IF call[p].op = "codeSize" THEN NoResult
                       ELSE Fails("ErrClosed")
      BY <2>3 DEF CheckClosed, Answer
    <3>4. CASE call[p].op = "marshal"
      <4>1. \A i \in 1 .. Len(call[p].arg) : ~Rejected(call[p].arg[i])
        BY <3>1, <3>4 DEF DataInv, ProcData, BatchData, Clean
      <4>. QED  BY <3>1, <3>3, <3>4, <4>1 DEF Reply, MarshalReply
    <3>5. CASE call[p].op = "packed"
      BY <3>1, <3>2, <3>3, <3>5 DEF Reply, PackedReply
    <3>6. CASE call[p].op = "codeSize"
      BY <3>1, <3>3, <3>6 DEF Reply, NoResult, Fails
    <3>. QED  BY <3>2, <3>4, <3>5, <3>6 DEF Calls
  <2>4. CASE CloseAgain(p)
    <3>1. call[p].op = "close" /\ closed /\ answer'[p] = Fails("ErrClosed")
      BY <2>4 DEF CloseAgain, Answer, ControlInv, WriteSection
    <3>. QED  BY <3>1 DEF Reply
  <2>. QED  BY <2>1, <2>2, <2>3, <2>4
<1>4. ~closed' <=> (~closed /\ call[p].op # "close")
  BY <1>1, <1>3
<1>5. AbsAnswer'[p] = Reply(call[p], ~closed)
  BY <1>2, <1>3
<1>. QED  BY <1>1, <1>2, <1>4, <1>5, TakesEffect

LEMMA ClosingStep ==
  ASSUME NEW p \in Procs, ControlInv, ObjectInv, DataInv, MarkClosed(p)
  PROVE  Contract!TakeEffect(p)
<1>. /\ pc \in [Procs -> Labels]
     /\ answer \in [Procs -> [err : Errors, output : Texts, size : Nat]]
  BY DEF ControlInv, DataInv, DataTypes
<1>1. /\ pc[p] = "mark" /\ pc' = [pc EXCEPT ![p] = "unlock"]
      /\ answer' = [answer EXCEPT ![p] = NoResult]
      /\ closed' = TRUE /\ UNCHANGED call
  BY DEF MarkClosed, Answer, Goto
<1>2. ~closed /\ call[p].op = "close"
  BY <1>1 DEF ObjectInv, ControlInv, WriteSection
<1>3. Reply(call[p], ~closed) = NoResult
  BY <1>2 DEF Reply
<1>4. Moved(p)
  BY <1>1 DEF Moved
<1>5. /\ AbsPhase[p] = "pending" /\ AbsPhase'[p] = "answered"
      /\ AbsAnswer'[p] = NoResult
  BY <1>1 DEF AbsPhase, AbsAnswer, Answered
<1>6. ~closed' <=> (~closed /\ call[p].op # "close")
  BY <1>1, <1>2
<1>7. AbsAnswer'[p] = Reply(call[p], ~closed) /\ UNCHANGED call
  BY <1>1, <1>3, <1>5
<1>. QED  BY <1>4, <1>5, <1>6, <1>7, TakesEffect

LEMMA OpenStep ==
  ASSUME NEW p \in Procs, ControlInv, ObjectInv, CheckOpen(p)
  PROVE  Contract!TakeEffect(p)
<1>. pc \in [Procs -> Labels]
  BY DEF ControlInv
<1>1. /\ pc[p] = "check" /\ ~closed
      /\ UNCHANGED <<closed, call, answer>>
      /\ \E l \in {"size", "encode"} : pc' = [pc EXCEPT ![p] = l]
  BY DEF CheckOpen, IsClosed, Goto, shared
<1>2. Moved(p)
  BY <1>1 DEF Moved
<1>3. /\ AbsPhase[p] = "pending" /\ AbsPhase'[p] = "answered"
      /\ AbsAnswer'[p] = Reply(call[p], TRUE)
  BY <1>1 DEF AbsPhase, AbsAnswer, Answered
<1>4. ~closed' <=> (~closed /\ call[p].op # "close")
  BY <1>1 DEF ControlInv, Packed
<1>5. AbsAnswer'[p] = Reply(call[p], ~closed)
  <2>1. (~closed) = TRUE
    BY <1>1 DEF ObjectInv
  <2>. QED  BY <1>3, <2>1
<1>. QED  BY <1>1, <1>2, <1>3, <1>4, <1>5, TakesEffect

(* The answer that was decided at the closed check is computed.            *)
LEMMA ComputeStep ==
  ASSUME NEW p \in Procs, ControlInv, DataInv, DataInv',
         ReadSize(p) \/ EncodeDone(p)
  PROVE  UNCHANGED Contract!vars
<1>. /\ pc \in [Procs -> Labels]
     /\ answer \in [Procs -> [err : Errors, output : Texts, size : Nat]]
  BY DEF ControlInv, DataInv, DataTypes
<1>1. /\ pc[p] \in {"size", "encode"} /\ pc' = [pc EXCEPT ![p] = "runlock"]
      /\ UNCHANGED <<closed, call>> /\ Moved(p)
  BY DEF ReadSize, EncodeDone, Answer, Goto, shared, Moved
<1>2. answer'[p] = Reply(call[p], TRUE)
  <2>1. CASE ReadSize(p)
    <3>1. call[p].op = "codeSize"
      BY <2>1 DEF ReadSize, ControlInv
    <3>2. answer'[p] = Result("none", <<>>, NativeSize)
      BY <2>1 DEF ReadSize, Answer
    <3>. QED  BY <3>1, <3>2 DEF Reply
  <2>2. CASE EncodeDone(p)
    <3>1. /\ pc[p] = "encode" /\ call[p] \in Calls
          /\ call[p].op \in {"marshal", "packed"} /\ call[p].arg # NilPacked
      BY <2>2 DEF EncodeDone, ControlInv, Packed
    <3>2. answer'[p] = IF call[p].arg = ZeroPacked THEN Fails("ErrNative")
                       ELSE Result("none", out[p], 0)
      BY <2>2 DEF EncodeDone, Answer
    <3>3. ASSUME call[p].arg # ZeroPacked
          PROVE  answer'[p] = Result("none", call[p].arg, 0)
      <4>1. answer'[p].err = "none" /\ answer'[p].output = out[p]
        BY <3>2, <3>3 DEF Result
      <4>2. answer'[p].output = call[p].arg
        BY <1>1, <3>1, <4>1 DEF DataInv, ProcData, AnswerData
      <4>. QED  BY <3>2, <3>3, <4>1, <4>2
    <3>4. CASE call[p].op = "marshal"
      <4>1. \A i \in 1 .. Len(call[p].arg) : ~Rejected(call[p].arg[i])
        BY <3>1, <3>4 DEF DataInv, ProcData, BatchData, Clean
      <4>. QED  BY <3>1, <3>3, <3>4, <4>1, ArgumentTypes DEF Reply, MarshalReply
    <3>5. CASE call[p].op = "packed"
      BY <3>1, <3>2, <3>3, <3>5 DEF Reply, PackedReply
    <3>. QED  BY <3>1, <3>4, <3>5
  <2>. QED  BY <2>1, <2>2
<1>3. AbsPhase'[p] = AbsPhase[p] /\ AbsAnswer'[p] = AbsAnswer[p]
  BY <1>1, <1>2 DEF AbsPhase, AbsAnswer, Answered
<1>. QED  BY <1>1, <1>3, Stutters

-----------------------------------------------------------------------------
LEMMA StepRefines ==
  ControlInv /\ ObjectInv /\ DataInv /\ DataInv' /\ [Next]_vars
    => [Contract!Next]_(Contract!vars)
<1>. SUFFICES ASSUME ControlInv, ObjectInv, DataInv, DataInv', [Next]_vars
              PROVE  [Contract!Next]_(Contract!vars)
  OBVIOUS
<1>1. ASSUME NEW p \in Procs, Begin(p) \/ Step(p)
      PROVE  \/ Contract!Invoke(p) \/ Contract!TakeEffect(p)
             \/ Contract!Return(p) \/ UNCHANGED Contract!vars
  <2>1. CASE Begin(p)
    BY <2>1, BeginStep
  <2>2. CASE Step(p)
    BY <2>2, SilentStep, FailsStep, ClosingStep, OpenStep, ComputeStep,
       ReturnStep DEF Step
  <2>. QED  BY <1>1, <2>1, <2>2
<1>2. ASSUME UNCHANGED <<pc, call, answer, closed>>
      PROVE  UNCHANGED Contract!vars
  BY <1>2 DEF Contract!vars, AbsPhase, AbsAnswer, Answered
<1>3. ASSUME NEW s \in Scratches, Collect(s) PROVE UNCHANGED Contract!vars
  BY <1>2, <1>3 DEF Collect, local
<1>4. CASE UNCHANGED vars
  BY <1>2, <1>4 DEF vars, local, shared
<1>. QED  BY <1>1, <1>3, <1>4 DEF Next, Contract!Next

(* Calls on one Encoder are linearizable and Close is for good: every      *)
(* behaviour of the Marshal, MarshalPacked, CodeSize and Close of          *)
(* encoder.go is, in what callers see, one of EncoderContract.             *)
THEOREM ImplementsSafely == Safe => Contract!Safe
  BY InitiallyContract, StepRefines, ControlHolds, ObjectHolds, DataHolds,
     PTL DEF Safe, Contract!Safe
=============================================================================
