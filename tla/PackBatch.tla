----------------------------- MODULE PackBatch ------------------------------
(***************************************************************************)
(* packed.go: how an OrderBatch becomes a PackedBatch (rows with uint32    *)
(* references into one string arena) together with the exact size of its   *)
(* JSON text.  Pack fills a fresh PackedBatch after a check of the total   *)
(* sizes; Marshal fills a pooled one, whose rows array keeps what earlier  *)
(* calls, complete or failed, left in it.                                  *)
(*                                                                         *)
(* A batch is a sequence of orders or Nil (nil slice); an order is a       *)
(* record of the fields that the tables of OrderSchema name, the nested    *)
(* structures of model.go flattened.                                       *)
(***************************************************************************)
EXTENDS OrderSchema, Int64Text

CONSTANTS
  Nil,       \* a nil slice or pointer
  MaxUint32, \* math.MaxUint32
  MaxInt     \* the largest Go int

ASSUME LimitsAssumption ==
  /\ MaxUint32 \in Nat
  /\ MaxInt \in Nat
  /\ MaxUint32 <= MaxInt

Text == Seq(Bytes)

Item == [sku : Text, title : Text, qty : Ints, price : Ints]

Order ==
  [orderID : Text, createdAt : Text, status : Text,
   paymentMethod : Text, paid : BOOLEAN, buyerID : Ints, buyerName : Text,
   city : Text, address : Text, trackingNo : {Nil} \cup Text,
   items : {Nil} \cup Seq(Item), remark : Text]

Batch == {Nil} \cup Seq(Order)

Count(slice) == IF slice = Nil THEN 0 ELSE Len(slice)

Uint32(n) == n % (MaxUint32 + 1)

Ref(offset, length) == [offset |-> offset, length |-> length]
NoRef == Ref(0, 0)

ZeroItemRow == [sku |-> NoRef, title |-> NoRef, qty |-> 0, price |-> 0]

ZeroOrderRow ==
  [orderID |-> NoRef, createdAt |-> NoRef, status |-> NoRef,
   paymentMethod |-> NoRef, buyerName |-> NoRef, city |-> NoRef,
   address |-> NoRef, trackingNo |-> NoRef, remark |-> NoRef,
   itemStart |-> 0, itemCount |-> 0, buyerID |-> 0,
   paid |-> 0, hasTrackingNo |-> 0, itemsNull |-> 0]

-----------------------------------------------------------------------------
(* analyzeJSONString: the size of a string between its quotes once         *)
(* escaped, and whether it needs no escape.                                *)
EncodedByte(byte) ==
  CASE byte = "quote" -> 2
    [] byte = "ctl"   -> 6
    [] OTHER          -> 1

EncodedSize(value) ==
  LET size[i \in 0 .. Len(value)] ==
        IF i = 0 THEN 2 ELSE size[i - 1] + EncodedByte(value[i])
  IN  size[Len(value)]

Plain(value) == \A i \in 1 .. Len(value) : ~NeedsEscape(value[i])

-----------------------------------------------------------------------------
(* Packing one order.  The state threaded through the steps is the row     *)
(* being filled, the items and strings so far with the capacities of their *)
(* arrays, the size accumulator and the error that stopped the packing, if *)
(* any.                                                                    *)

(* The capacity of an array after an append that makes it n long: Go       *)
(* doubles it, or takes what is needed (rounding up to the sizes of the    *)
(* allocator is left out).                                                 *)
Grown(cap, n) ==
  CASE n <= cap     -> cap
    [] n > 2 * cap  -> n
    [] OTHER        -> 2 * cap

Add(b, n) ==
  IF b.err # "none" THEN b
  ELSE IF n > MaxInt - b.size THEN [b EXCEPT !.err = "ErrOutputTooLarge"]
  ELSE [b EXCEPT !.size = @ + n]

(* Mutant: the arena is checked only before the string is appended.        *)
StringErrorLate(b, value, validate) ==
  CASE Len(b.strings) > MaxUint32 -> "ErrPackedTooLarge"
    [] validate /\ ~ValidUTF8(value) -> "ErrInvalidUTF8"
    [] EncodedSize(value) > MaxInt - b.size -> "ErrOutputTooLarge"
    [] OTHER -> "none"

StringError(b, value, validate) ==
  IF Len(b.strings) > MaxUint32 \/ Len(value) > MaxUint32 - Len(b.strings)
  THEN "ErrPackedTooLarge"
  ELSE IF validate /\ ~ValidUTF8(value) THEN "ErrInvalidUTF8"
  ELSE IF EncodedSize(value) > MaxInt - b.size THEN "ErrOutputTooLarge"
  ELSE "none"

(* Mutant: the last string alone decides whether the batch is plain.       *)
PackStringLastPlain(b, field, value, validate) ==
  LET err == StringError(b, value, validate)
  IN  IF b.err # "none" THEN b
      ELSE IF err # "none" THEN [b EXCEPT !.err = err, !.row[field] = NoRef]
      ELSE [b EXCEPT
              !.row[field] = Ref(Uint32(Len(b.strings)), Uint32(Len(value))),
              !.strings    = @ \o value,
              !.stringCap  = Grown(@, Len(b.strings) + Len(value)),
              !.plain      = Plain(value),
              !.size       = @ + EncodedSize(value)]

(* Mutant: the offset is read once the string has been appended.           *)
PackStringOffsetLate(b, field, value, validate) ==
  LET err == StringError(b, value, validate)
      end == Len(b.strings) + Len(value)
  IN  IF b.err # "none" THEN b
      ELSE IF err # "none" THEN [b EXCEPT !.err = err, !.row[field] = NoRef]
      ELSE [b EXCEPT
              !.row[field] = Ref(Uint32(end), Uint32(Len(value))),
              !.strings    = @ \o value,
              !.stringCap  = Grown(@, end),
              !.plain      = @ /\ Plain(value),
              !.size       = @ + EncodedSize(value)]

(* The field gets the zero reference when the string is refused (also when *)
(* the literal before it is, which is left out: nothing reads the rows of  *)
(* a refused batch).                                                       *)
PackString(b, field, value, validate) ==
  LET err == StringError(b, value, validate)
  IN  IF b.err # "none" THEN b
      ELSE IF err # "none" THEN [b EXCEPT !.err = err, !.row[field] = NoRef]
      ELSE [b EXCEPT
              !.row[field] = Ref(Uint32(Len(b.strings)), Uint32(Len(value))),
              !.strings    = @ \o value,
              !.stringCap  = Grown(@, Len(b.strings) + Len(value)),
              !.plain      = @ /\ Plain(value),
              !.size       = @ + EncodedSize(value)]

PackTracking(b, value, validate) ==
  IF b.err # "none" THEN b
  ELSE IF value = Nil THEN Add(b, 4)
  ELSE PackString([b EXCEPT !.row.hasTrackingNo = 1], "trackingNo", value,
                  validate)

PackStep(b, step, from, validate) ==
  CASE step.kind = "literal"  -> Add(b, Len(step.arg))
    [] step.kind = "string"   -> PackString(b, step.arg, from[step.arg], validate)
    [] step.kind = "bool"     -> Add(b, IF from[step.arg] THEN 4 ELSE 5)
    [] step.kind = "int"      -> Add(b, Int64Length(from[step.arg]))
    [] step.kind = "nullable" -> PackTracking(b, from[step.arg], validate)

PackItem(b, item, validate) ==
  LET after[k \in 0 .. Len(PackItemTable)] ==
        IF k = 0 THEN [b EXCEPT !.row = ZeroItemRow]
        ELSE PackStep(after[k - 1], PackItemTable[k], item, validate)
      c   == after[Len(PackItemTable)]
      row == [c.row EXCEPT !.qty = item.qty, !.price = item.price]
  IN  IF c.err # "none" THEN [c EXCEPT !.row = b.row]
      ELSE [c EXCEPT !.row     = b.row,
                     !.items   = Append(@, row),
                     !.itemCap = Grown(@, Len(b.items) + 1)]

(* A turn of the loop over the items of an order: a comma, then packItem.  *)
PackNextItem(b, order, i, validate) ==
  LET c == IF i > 1 THEN Add(b, 1) ELSE b
  IN  IF c.err # "none" THEN c ELSE PackItem(c, order.items[i], validate)

PackList(b, order, validate) ==
  LET after[i \in 0 .. Len(order.items)] ==
        IF i = 0 THEN Add(b, 2) ELSE PackNextItem(after[i - 1], order, i, validate)
  IN  after[Len(order.items)]

(* The fields of the row that are assigned in front of the items.          *)
WithNumbers(row, start, order) ==
  [row EXCEPT !.itemStart = Uint32(start),
              !.itemCount = Uint32(Count(order.items)),
              !.buyerID   = order.buyerID,
              !.paid      = IF order.paid THEN 1 ELSE @,
              !.itemsNull = IF order.items = Nil THEN 1 ELSE @]

AssignNumbers(b, order) ==
  [b EXCEPT !.row = WithNumbers(b.row, Len(b.items), order)]

PackItems(b, order, validate) ==
  IF b.err # "none" THEN b
  ELSE IF Len(b.items) > MaxUint32 \/ Count(order.items) > MaxUint32 - Len(b.items)
       THEN [b EXCEPT !.err = "ErrPackedTooLarge"]
  ELSE IF order.items = Nil THEN Add(AssignNumbers(b, order), 4)
  ELSE PackList(AssignNumbers(b, order), order, validate)

(* Mutant: the row keeps its flags from the previous use of the workspace. *)
ClearedRowKept(row) == row

(* packOrder clears the fields it will not assign on every path.           *)
ClearedRow(row) ==
  [row EXCEPT !.trackingNo = NoRef, !.paid = 0,
              !.hasTrackingNo = 0, !.itemsNull = 0]

PackRowStep(b, step, order, validate) ==
  IF step.kind = "items" THEN PackItems(b, order, validate)
  ELSE PackStep(b, step, order, validate)

PackOrderInto(b, order, validate) ==
  LET after[k \in 0 .. Len(PackTable)] ==
        IF k = 0 THEN [b EXCEPT !.row = ClearedRow(@)]
        ELSE PackRowStep(after[k - 1], PackTable[k], order, validate)
  IN  after[Len(PackTable)]

-----------------------------------------------------------------------------
(* packedCapacities: the totals that Pack allocates for.                   *)

(* Mutant: the tracking number is forgotten.                               *)
StringsUntracked(order) ==
  << order.orderID, order.createdAt, order.status, order.paymentMethod,
     order.buyerName, order.city, order.address, order.remark >>
    \o (IF order.items = Nil THEN <<>>
        ELSE FlattenSeq([i \in 1 .. Len(order.items) |->
                           << order.items[i].sku, order.items[i].title >>]))

Strings(order) ==
  << order.orderID, order.createdAt, order.status, order.paymentMethod,
     order.buyerName, order.city, order.address, order.remark >>
    \o (IF order.trackingNo = Nil THEN <<>> ELSE << order.trackingNo >>)
    \o (IF order.items = Nil THEN <<>>
        ELSE FlattenSeq([i \in 1 .. Len(order.items) |->
                           << order.items[i].sku, order.items[i].title >>]))

ItemTotal(batch) ==
  LET sum[i \in 0 .. Len(batch)] ==
        IF i = 0 THEN 0 ELSE sum[i - 1] + Count(batch[i].items)
  IN  sum[Len(batch)]

StringBytes(order) ==
  LET values == Strings(order)
      sum[i \in 0 .. Len(values)] == IF i = 0 THEN 0 ELSE sum[i - 1] + Len(values[i])
  IN  sum[Len(values)]

StringTotal(batch) ==
  LET sum[i \in 0 .. Len(batch)] ==
        IF i = 0 THEN 0 ELSE sum[i - 1] + StringBytes(batch[i])
  IN  sum[Len(batch)]

CapacityError(batch) ==
  IF batch # Nil /\ (\/ ItemTotal(batch) > MaxUint32
                     \/ StringTotal(batch) > MaxUint32
                     \/ ItemTotal(batch) > MaxInt \/ StringTotal(batch) > MaxInt)
  THEN "ErrPackedTooLarge" ELSE "none"
=============================================================================
