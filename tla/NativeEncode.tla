---------------------------- MODULE NativeEncode ----------------------------
(***************************************************************************)
(* One call of jitjson_encoder_encode (bridge_linux_amd64.c): the checks   *)
(* of the arguments, the loop over the orders, each written by the machine *)
(* code, one operation after the other, or by the static function in one   *)
(* go, and the status returned.                                            *)
(***************************************************************************)
EXTENDS OrderWriter

VARIABLES
  stage,   \* "outside", "orders" (in the loop) or "returned"
  backend, \* "jit" or "static"
  view,    \* the arguments: orders, ordersNull, items, strings, stringsPlain
  w,       \* the writer
  index,   \* orders written
  op       \* 0 between two orders, then the operation that is next

nativeVars == <<stage, backend, view, w, index, op>>

NoView ==
  [orders |-> <<>>, ordersNull |-> FALSE, items |-> <<>>, strings |-> <<>>,
   stringsPlain |-> TRUE]

NativeInit ==
  /\ stage = "outside"
  /\ backend \in {"jit", "static"}
  /\ view = NoView
  /\ w = Writer(<<>>, 0, "OK")
  /\ index = 0
  /\ op = 0

(* Mutant: a null batch may have orders.                                   *)
BadArgumentsNoNull(v, cap) == cap = 0

(* native.Encoder.Encode refuses an empty output, the C function a null    *)
(* batch with orders.                                                      *)
BadArguments(v, cap) == cap = 0 \/ (v.ordersNull /\ v.orders # <<>>)

Enter(v, cap) ==
  /\ stage = "outside"
  /\ view' = v
  /\ IF BadArguments(v, cap)
     THEN w' = Writer(<<>>, cap, "INVALID_ARGUMENT") /\ stage' = "returned"
     ELSE /\ w' = Literal(Literal(Writer(<<>>, cap, "OK"), Chars("{\"orders\":")),
                          IF v.ordersNull THEN Chars("null") ELSE LeftBracket)
          /\ stage' = "orders"
  /\ UNCHANGED <<backend, index, op>>

(* The operations one order is written with.                               *)
Tables ==
  IF backend = "static" THEN << StaticTable >>
  ELSE [i \in 1 .. Len(Operations) |-> OperationTable(Operations[i])]

Separated(x) == IF index > 0 THEN Literal(x, Comma) ELSE x

(* Mutant: the loop does not look at the status.                           *)
BeginOrderStopped ==
  /\ stage = "orders"
  /\ op = 0
  /\ index < Len(view.orders)
  /\ w' = Separated(w)
  /\ op' = 1
  /\ UNCHANGED <<stage, backend, view, index>>

(* Between two orders the loop looks at the status, between two operations *)
(* of an order, and after the comma, nobody does.                          *)
BeginOrder ==
  /\ stage = "orders"
  /\ op = 0
  /\ index < Len(view.orders)
  /\ ~Stopped(w)
  /\ w' = Separated(w)
  /\ op' = 1
  /\ UNCHANGED <<stage, backend, view, index>>

CallOperation ==
  /\ stage = "orders"
  /\ op > 0
  /\ w' = WriteTable(w, view, Tables[op], view.orders[index + 1])
  /\ IF op = Len(Tables) THEN op' = 0 /\ index' = index + 1
     ELSE op' = op + 1 /\ UNCHANGED index
  /\ UNCHANGED <<stage, backend, view>>

LeaveLoop ==
  /\ stage = "orders"
  /\ op = 0
  /\ index = Len(view.orders) \/ Stopped(w)
  /\ w' = Literal(IF view.ordersNull THEN w ELSE Literal(w, RightBracket),
                  Chars("}"))
  /\ stage' = "returned"
  /\ UNCHANGED <<backend, view, index, op>>

(* The caller has read the status and the length.                          *)
Exit ==
  /\ stage = "returned"
  /\ stage' = "outside"
  /\ view' = NoView
  /\ w' = Writer(<<>>, 0, "OK")
  /\ index' = 0
  /\ op' = 0
  /\ UNCHANGED backend

NativeStep == BeginOrder \/ CallOperation \/ LeaveLoop
=============================================================================
