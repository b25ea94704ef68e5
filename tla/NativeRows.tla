----------------------------- MODULE NativeRows -----------------------------
(***************************************************************************)
(* native.Encoder called with rows that Pack did not make, as              *)
(* internal/native/native_test.go does: references outside the arena,      *)
(* item ranges outside the items, null lists with a count.                 *)
(***************************************************************************)
EXTENDS NativeEncode

CONSTANTS
  Views, \* the arguments tried
  Sizes  \* the capacities tried

(* What the C declarations let a caller pass: numbers without a sign,      *)
(* references and ranges that may lie outside of what they refer to.       *)
RowRef == [offset : Nat, length : Nat]

ItemRow == [sku : RowRef, title : RowRef, qty : Ints, price : Ints]

OrderRow ==
  [orderID : RowRef, createdAt : RowRef, status : RowRef,
   paymentMethod : RowRef, buyerName : RowRef, city : RowRef,
   address : RowRef, trackingNo : RowRef, remark : RowRef,
   itemStart : Nat, itemCount : Nat, buyerID : Ints,
   paid : Nat, hasTrackingNo : Nat, itemsNull : Nat]

BatchView ==
  [orders : Seq(OrderRow), ordersNull : BOOLEAN, items : Seq(ItemRow),
   strings : Seq(Bytes), stringsPlain : BOOLEAN]

ASSUME RowsAssumption == Views \subseteq BatchView /\ Sizes \subseteq Nat

NativeNext ==
  \/ \E v \in Views, cap \in Sizes : Enter(v, cap)
  \/ NativeStep
  \/ Exit

NativeSpec == NativeInit /\ [][NativeNext]_nativeVars /\ WF_nativeVars(NativeStep)

In(v, ref) == ref.offset + ref.length <= Len(v.strings)

ItemIn(v, item) == In(v, item.sku) /\ In(v, item.title)

ItemsIn(v, row) ==
  IF row.itemsNull # 0 THEN row.itemCount = 0
  ELSE /\ row.itemStart + row.itemCount <= Len(v.items)
       /\ \A i \in row.itemStart + 1 .. row.itemStart + row.itemCount :
            ItemIn(v, v.items[i])

RowIn(v, row) ==
  /\ \A field \in {"orderID", "createdAt", "status", "paymentMethod",
                   "buyerName", "city", "address", "remark"} : In(v, row[field])
  /\ row.hasTrackingNo # 0 => In(v, row.trackingNo)
  /\ ItemsIn(v, row)

WellFormed(v) ==
  /\ v.ordersNull => v.orders = <<>>
  /\ \A i \in 1 .. Len(v.orders) : RowIn(v, v.orders[i])

(* The native encoder answers OK only for rows it could read in full:      *)
(* every string it wrote lies in the arena, every range of items in the    *)
(* items, and a null list has no elements (writer_linux_amd64.c:82-94,     *)
(* 183-193, bridge_linux_amd64.c:69-77).                                   *)
AcceptsOnlyWellFormed ==
  stage = "returned" /\ w.status = "OK" => WellFormed(view)

(* And it blames the arguments only when they are to blame: rows in which  *)
(* every reference and range is inside, at the very end included, are at   *)
(* most too long for the buffer, whatever was written before               *)
(* (writer_linux_amd64.c:82-94, 178-193).                                  *)
BlamesOnlyIllFormed ==
  stage = "returned" /\ w.status = "INVALID_ARGUMENT" =>
    w.cap = 0 \/ ~WellFormed(view)

(* The batch written by the static function, order by order.               *)
Started(v, cap) ==
  Literal(Literal(Writer(<<>>, cap, "OK"), Chars("{\"orders\":")),
          IF v.ordersNull THEN Chars("null") ELSE LeftBracket)

StaticOrder(x, v, i) ==
  IF Stopped(x) THEN x
  ELSE WriteTable(IF i > 1 THEN Literal(x, Comma) ELSE x, v, StaticTable, v.orders[i])

StaticRun(v, cap) ==
  LET after[i \in 0 .. Len(v.orders)] ==
        IF i = 0 THEN Started(v, cap) ELSE StaticOrder(after[i - 1], v, i)
      rows == after[Len(v.orders)]
  IN  Literal(IF v.ordersNull THEN rows ELSE Literal(rows, RightBracket), Chars("}"))

(* The two backends agree on what they refuse as well: the status the      *)
(* machine code ends with is the one that the static function would have   *)
(* ended with (writer_linux_amd64.c:215-292).                              *)
BackendsAgree ==
  stage = "returned" /\ ~BadArguments(view, w.cap) => w = StaticRun(view, w.cap)

(* As in JitMachine: the loop begins an order only while the status is OK, *)
(* has all of its operations called, whatever they set, and stops; so what *)
(* this module takes one call of the machine code for is what the machine  *)
(* code was shown to do (bridge_linux_amd64.c:95-100).                     *)
InLoop == backend = "jit" /\ stage = "orders"

Calls == INSTANCE OrderCalls WITH
  orders <- IF InLoop THEN Len(view.orders) ELSE 0,
  order  <- IF ~InLoop THEN 0 ELSE IF op = 0 THEN index ELSE index + 1,
  done   <- IF InLoop /\ op > 0 THEN SubSeq(Operations, 1, op - 1) ELSE Operations,
  status <- IF InLoop THEN w.status ELSE "OK"

ImplementsCalls == Calls!Safe

(* An error of the writer is final: "status is set when an error occurs,   *)
(* and later writer operations stop at once"                               *)
(* (docs/engineering-design-order-batch.md:280).  The argument errors of   *)
(* jitjson_writer_items overwrite it (writer_linux_amd64.c:183-193).       *)
FirstErrorKept ==
  [][stage = "orders" /\ Stopped(w) => w'.status = w.status]_nativeVars
=============================================================================
