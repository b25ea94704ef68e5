------------------------------ MODULE Pipeline ------------------------------
(***************************************************************************)
(* One goroutine's Marshal and Pack + MarshalPacked calls, one after the   *)
(* other, with the pooled workspace that Marshal calls share: packing      *)
(* (packed.go) order by order, then native encoding (NativeEncode) into a  *)
(* buffer of exactly the size that packing computed, or of another one     *)
(* when native.Encoder is called directly.  A workspace has three arrays:  *)
(* rows (whose stale contents the model keeps, their number being the      *)
(* capacity), items and strings (contents in use, and capacity).           *)
(***************************************************************************)
EXTENDS ReferenceEncoder, NativeEncode, NativeABI

CONSTANTS
  Batches,   \* the batches given to Marshal and Pack
  TrustUTF8, \* Options.TrustUTF8: Marshal does not validate
  Caps,      \* capacities tried by direct calls of native.Encoder
  MaxRetained \* maxRetainedPackedBytes: 64 MiB in the code

ASSUME PipelineAssumption ==
  /\ Batches \subseteq Batch
  /\ TrustUTF8 \in BOOLEAN
  /\ Caps \subseteq Nat
  /\ MaxRetained \in Nat

VARIABLES
  phase,  \* "idle", "reset", "pack", "packed", "encode", "done"
  entry,  \* "Marshal" or "Pack"
  batch,  \* the batch of the current call
  pooled, \* the workspace in Encoder.scratch, or Nil
  ws,     \* the PackedBatch being filled or encoded
  next,   \* orders packed
  size,   \* the sizeAccumulator
  result  \* the error, or the text of a call that succeeded

packVars == <<phase, entry, batch, pooled, ws, next, size, result>>
vars     == <<packVars, nativeVars>>

Workspace(array, itemCap, stringCap) ==
  [array |-> array, count |-> 0,
   items |-> <<>>, itemCap |-> itemCap, strings |-> <<>>, stringCap |-> stringCap,
   ordersNull |-> FALSE, stringsPlain |-> FALSE, maxOutput |-> 0]

NewWorkspace == Workspace(<<>>, 0, 0)

(* Mutant: what is in use counts, not what is allocated.                   *)
RetainedInUse(packed) ==
  96 * packed.count + 32 * Len(packed.items) + Len(packed.strings)

RetainedBytes(packed) ==
  96 * Len(packed.array) + 32 * packed.itemCap + packed.stringCap

Outcome(err, text) == [err |-> err, text |-> text]
NoOutcome == Outcome("none", <<>>)

Init ==
  /\ NativeInit
  /\ phase = "idle"
  /\ entry = "Marshal"
  /\ batch = Nil
  /\ pooled = Nil
  /\ ws = NewWorkspace
  /\ next = 0
  /\ size = 0
  /\ result = NoOutcome

Validates == entry = "Pack" \/ ~TrustUTF8

-----------------------------------------------------------------------------
(* Packing.                                                                *)

(* Pack works on a fresh PackedBatch, Marshal on the pooled one, or on a   *)
(* fresh one when the garbage collector has emptied the pool.              *)
Get ==
  \/ pooled # Nil /\ ws' = pooled /\ pooled' = Nil
  \/ ws' = NewWorkspace /\ pooled' = Nil

Call ==
  /\ phase = "idle"
  /\ entry' \in {"Marshal", "Pack"}
  /\ batch' \in Batches
  /\ IF entry' = "Marshal" THEN Get ELSE ws' = NewWorkspace /\ UNCHANGED pooled
  /\ phase' = "reset"
  /\ UNCHANGED <<next, size, result, nativeVars>>

Refused(err) ==
  /\ result' = Outcome(err, <<>>)
  /\ phase' = "done"

(* Pack only.                                                              *)
TooLarge ==
  /\ phase = "reset"
  /\ entry = "Pack"
  /\ CapacityError(batch) # "none"
  /\ Refused(CapacityError(batch))
  /\ UNCHANGED <<entry, batch, pooled, ws, next, size, nativeVars>>

(* PackedBatch.reset, and the text in front of the first order.            *)
ResetArray(array, n) ==
  IF Len(array) < n THEN [i \in 1 .. n |-> ZeroOrderRow] ELSE array

ResetCap(cap, n) == IF cap < n THEN n ELSE cap

Reset ==
  LET total(n) == IF entry = "Marshal" \/ batch = Nil THEN 0 ELSE n
      b == Add(Add([size |-> 0, err |-> "none"], Len(Chars(GoLiteral.batch))),
               IF batch = Nil THEN 4 ELSE 2)
  IN  /\ phase = "reset"
      /\ entry = "Pack" => CapacityError(batch) = "none"
      /\ ws' = [ws EXCEPT !.array = ResetArray(@, Count(batch)),
                          !.count = Count(batch), !.items = <<>>,
                          !.itemCap = ResetCap(@, total(ItemTotal(batch))),
                          !.strings = <<>>,
                          !.stringCap = ResetCap(@, total(StringTotal(batch))),
                          !.stringsPlain = TRUE,
                          !.maxOutput = 0, !.ordersNull = (batch = Nil)]
      /\ size' = b.size
      /\ next' = 0
      /\ IF b.err = "none" THEN phase' = "pack" /\ UNCHANGED result
         ELSE Refused(b.err)
      /\ UNCHANGED <<entry, batch, pooled, nativeVars>>

(* One round of the loop over the orders: a comma, then packOrder.         *)
PackOrder ==
  LET start == [row |-> ws.array[next + 1], items |-> ws.items,
                itemCap |-> ws.itemCap, strings |-> ws.strings,
                stringCap |-> ws.stringCap, plain |-> ws.stringsPlain,
                size |-> size, err |-> "none"]
      comma == IF next > 0 THEN Add(start, 1) ELSE start
      b == IF comma.err # "none" THEN comma
           ELSE PackOrderInto(comma, batch[next + 1], Validates)
  IN  /\ phase = "pack"
      /\ next < Count(batch)
      /\ ws' = [ws EXCEPT !.array[next + 1] = b.row,
                          !.items = b.items, !.itemCap = b.itemCap,
                          !.strings = b.strings, !.stringCap = b.stringCap,
                          !.stringsPlain = b.plain]
      /\ size' = b.size
      /\ IF b.err = "none" THEN next' = next + 1 /\ UNCHANGED <<phase, result>>
         ELSE Refused(b.err) /\ next' = 0
      /\ UNCHANGED <<entry, batch, pooled, nativeVars>>

FinishPack ==
  LET b == Add([size |-> size, err |-> "none"], Len(Chars(GoLiteral.batchEnd)))
  IN  /\ phase = "pack"
      /\ next = Count(batch)
      /\ next' = 0
      /\ size' = b.size
      /\ IF b.err = "none"
         THEN /\ ws' = [ws EXCEPT !.maxOutput = b.size]
              /\ phase' = "packed"
              /\ UNCHANGED result
         ELSE Refused(b.err) /\ UNCHANGED ws
      /\ UNCHANGED <<entry, batch, pooled, nativeVars>>

-----------------------------------------------------------------------------
(* Encoding.                                                               *)

ViewOf(packed) ==
  [orders |-> SubSeq(packed.array, 1, packed.count),
   ordersNull |-> packed.ordersNull, items |-> packed.items,
   strings |-> packed.strings, stringsPlain |-> packed.stringsPlain]

(* MarshalPacked gives the native encoder maxOutput bytes, at least one.   *)
Capacity == IF ws.maxOutput < 1 THEN 1 ELSE ws.maxOutput

Encode ==
  /\ phase = "packed"
  /\ \E cap \in {Capacity} \cup Caps : Enter(ViewOf(ws), cap)
  /\ phase' = "encode"
  /\ UNCHANGED <<entry, batch, pooled, ws, next, size, result>>

EncodeStep == NativeStep /\ phase = "encode" /\ UNCHANGED packVars

(* The status, and the comparison of the length with the buffer's.         *)
Encoded ==
  /\ phase = "encode"
  /\ result' = CASE w.status # "OK"       -> Outcome(MapNativeError(w.status), <<>>)
                 [] Len(w.text) # w.cap   -> Outcome("ErrNative", <<>>)
                 [] OTHER                 -> Outcome("none", w.text)
  /\ stage = "returned"
  /\ phase' = "done"
  /\ UNCHANGED <<entry, batch, pooled, ws, next, size, nativeVars>>

(* The result of Pack may be encoded as often as the caller likes.         *)
MarshalAgain ==
  /\ phase = "done"
  /\ entry = "Pack"
  /\ phase' = "packed"
  /\ result' = NoOutcome
  /\ Exit
  /\ UNCHANGED <<entry, batch, pooled, ws, next, size>>

(* releasePacked puts the workspace of a Marshal back, however the call    *)
(* ended, unless it has grown too large; the result is the caller's.       *)
Release ==
  IF RetainedBytes(ws) > MaxRetained THEN pooled
  ELSE Workspace(ws.array, ws.itemCap, ws.stringCap)

Finish ==
  /\ phase = "done"
  /\ phase' = "idle"
  /\ pooled' = IF entry = "Marshal" THEN Release ELSE pooled
  /\ ws' = NewWorkspace
  /\ batch' = Nil
  /\ entry' = "Marshal"
  /\ next' = 0
  /\ size' = 0
  /\ result' = NoOutcome
  /\ IF stage = "returned" THEN Exit ELSE UNCHANGED nativeVars

Next ==
  \/ Call \/ TooLarge \/ Reset \/ PackOrder \/ FinishPack
  \/ Encode \/ EncodeStep \/ Encoded \/ MarshalAgain \/ Finish

Spec == Init /\ [][Next]_vars

-----------------------------------------------------------------------------
(* Properties.                                                             *)

Resolved(ref) == SubSeq(ws.strings, ref.offset + 1, ref.offset + ref.length)

ItemOf(row) ==
  [sku |-> Resolved(row.sku), title |-> Resolved(row.title),
   qty |-> row.qty, price |-> row.price]

OrderOf(row) ==
  [orderID |-> Resolved(row.orderID), createdAt |-> Resolved(row.createdAt),
   status |-> Resolved(row.status),
   paymentMethod |-> Resolved(row.paymentMethod), paid |-> row.paid = 1,
   buyerID |-> row.buyerID, buyerName |-> Resolved(row.buyerName),
   city |-> Resolved(row.city), address |-> Resolved(row.address),
   trackingNo |-> IF row.hasTrackingNo = 1 THEN Resolved(row.trackingNo) ELSE Nil,
   items |-> IF row.itemsNull = 1 THEN Nil
             ELSE [i \in 1 .. row.itemCount |-> ItemOf(ws.items[row.itemStart + i])],
   remark |-> Resolved(row.remark)]

(* What is packed is the batch: read back through their references, ranges *)
(* and flags, the rows in use are its orders, whatever an earlier batch    *)
(* left in them, and the 32-bit references lost nothing                    *)
(* (packed.go:41-219).                                                     *)
PackedWell ==
  phase \in {"packed", "encode"} =>
    batch = IF ws.ordersNull THEN Nil
            ELSE [i \in 1 .. ws.count |-> OrderOf(ws.array[i])]

(* Pack's walk over the sizes of a batch and its walk over the values      *)
(* agree: the arrays allocated in between are filled to the last byte, so  *)
(* that no append moves them (packed.go:62-68, 252-305;                    *)
(* docs/engineering-design-order-batch.md:226).                            *)
PreallocatesExactly ==
  entry = "Pack" /\ phase = "packed" =>
    ws.itemCap = Len(ws.items) /\ ws.stringCap = Len(ws.strings)

(* What stays allocated between calls is bounded, although the workspace   *)
(* of a small batch may be as large as an earlier batch, even one that was *)
(* refused, made it (encoder.go:61-69).                                    *)
PoolBounded ==
  pooled # Nil =>
    96 * Len(pooled.array) + 32 * pooled.itemCap + pooled.stringCap <= MaxRetained

(* Whatever the buffer, C never finds fault with rows that packing made:   *)
(* every reference and range of a batch, of a workspace used before too,   *)
(* passes the tests of C, so that an error means a buffer too small        *)
(* (packed.go:128-250, writer_linux_amd64.c:82-94, 178-193).               *)
NeverInvalid ==
  phase = "encode" /\ stage = "returned" /\ w.cap > 0 =>
    w.status # "INVALID_ARGUMENT"

Exact == w.cap = Capacity

(* A batch that was packed is encoded without an error, and its text is    *)
(* the reference encoder's, byte for byte, whatever backend writes it and  *)
(* whatever an earlier call left in the workspace (encoder.go:89-98).      *)
EncodesReference ==
  phase = "done" /\ stage = "returned" /\ Exact =>
    result = Outcome("none", ReferenceText(batch))

Refusals ==
  LET orders == IF batch = Nil THEN <<>> ELSE batch
      valid  == \A i \in 1 .. Len(orders) :
                  \A s \in ToSet(Strings(orders[i])) : ValidUTF8(s)
  IN  (IF Validates /\ ~valid THEN {"ErrInvalidUTF8"} ELSE {})
        \cup (IF CapacityError(batch) # "none" THEN {"ErrPackedTooLarge"} ELSE {})
        \cup (IF Len(ReferenceText(batch)) > MaxInt
              THEN {"ErrOutputTooLarge"} ELSE {})

(* Packing refuses a batch exactly when a string of it is not UTF-8 (and   *)
(* Marshal validates), when items or string bytes exceed uint32, or when   *)
(* the text exceeds the largest int: the running checks agree with the     *)
(* totals, and Pack, Marshal and, but for uint32, MarshalReference refuse  *)
(* the same batches                                                        *)
(* (packed.go:185, 252-305, 315, 337-344).                                 *)
RefusesExactly ==
  phase = "done" =>
    /\ IF stage = "returned" THEN Refusals = {} ELSE result.err \in Refusals
    /\ Validates => MarshalReference(batch).err \in
         IF Refusals \subseteq {"ErrPackedTooLarge"} THEN {"none"} ELSE Refusals

(* The buffer of MarshalReference is allocated once, at its final size.    *)
EstimateExact ==
  phase = "packed" /\ Validates =>
    Estimate(batch) = [size |-> ws.maxOutput, err |-> "none"]

(* Whatever its capacity, the native encoder has written inside it and has *)
(* written a prefix of the text, the whole of it exactly when it answers OK *)
(* (writer_linux_amd64.c:32-51).                                           *)
WritesPrefix ==
  phase = "encode" /\ stage = "returned" =>
    LET text == ReferenceText(batch)
    IN  /\ Len(w.text) <= w.cap
        /\ IsPrefix(w.text, text)
        /\ w.status = "OK" <=> w.text = text
=============================================================================
