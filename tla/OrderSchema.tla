---------------------------- MODULE OrderSchema -----------------------------
(***************************************************************************)
(* The one JSON schema of the encoder, as the five copies of it in the     *)
(* code walk it: packOrder, estimateOrderMax and appendReferenceOrder in   *)
(* Go, jitjson_encode_order_static and the eight order operations in C.    *)
(* A copy is a table of steps, read from top to bottom; what a step does   *)
(* (count, pack, append, write) is defined where the table is used.        *)
(*                                                                         *)
(* A text is a sequence of characters, each of them a TLA+ string of       *)
(* length one.  A Go string value is a sequence of bytes, and a byte is    *)
(* one of five: two plain ones, a quote, a control character and one that  *)
(* makes the string invalid UTF-8.                                         *)
(***************************************************************************)
EXTENDS Integers, Sequences, SequencesExt

(* The text that a string literal of the code stands for.                  *)
Chars(string) == [i \in 1 .. Len(string) |-> SubSeq(string, i, i)]

Alphabet ==
  ToSet(Chars("abcdefghijklmnopqrstuvwxyzAINO0123456789-{}[]:,\"\\?!"))

JSON == Seq(Alphabet)

Quote        == Chars("\"")
Comma        == Chars(",")
LeftBracket  == Chars("[")
RightBracket == Chars("]")

Bytes == {"a", "b", "quote", "ctl", "bad"}

Raw(byte) ==
  CASE byte = "quote" -> "\""
    [] byte = "ctl"   -> "?"
    [] byte = "bad"   -> "!"
    [] OTHER          -> byte

NeedsEscape(byte) == byte \in {"quote", "ctl"}

Escaped(byte) ==
  CASE byte = "quote" -> Chars("\\\"")
    [] byte = "ctl"   -> Chars("\\u0001")
    [] OTHER          -> << Raw(byte) >>

ValidUTF8(value) == "bad" \notin ToSet(value)

-----------------------------------------------------------------------------
(* Steps of a table.  A literal step holds its text, the others the field  *)
(* they read.                                                              *)
Lit(string)     == [kind |-> "literal", arg |-> Chars(string)]
Str(field)      == [kind |-> "string", arg |-> field]
Bool(field)     == [kind |-> "bool", arg |-> field]
Num(field)      == [kind |-> "int", arg |-> field]
Nullable(field) == [kind |-> "nullable", arg |-> field]
ItemList        == [kind |-> "items", arg |-> "items"]

(* format.go                                                               *)
GoLiteral ==
  [batch |-> "{\"orders\":", orderID |-> "{\"orderId\":",
   createdAt |-> ",\"createdAt\":", status |-> ",\"status\":",
   paymentMethod |-> ",\"payment\":{\"method\":", paid |-> ",\"paid\":",
   paymentEnd |-> "}", buyerID |-> ",\"buyer\":{\"id\":",
   buyerName |-> ",\"name\":", buyerEnd |-> "}",
   shippingCity |-> ",\"shipping\":{\"city\":", address |-> ",\"address\":",
   trackingNo |-> ",\"trackingNo\":", shippingEnd |-> "}",
   items |-> ",\"items\":", remark |-> ",\"remark\":", orderEnd |-> "}",
   batchEnd |-> "}", itemSKU |-> "{\"sku\":", itemTitle |-> ",\"title\":",
   itemQty |-> ",\"qty\":", itemPrice |-> ",\"price\":", itemEnd |-> "}"]

LOCAL G == GoLiteral

PackTable ==
  << Lit(G.orderID), Str("orderID"), Lit(G.createdAt), Str("createdAt"),
     Lit(G.status), Str("status"), Lit(G.paymentMethod), Str("paymentMethod"),
     Lit(G.paid), Bool("paid"), Lit(G.paymentEnd \o G.buyerID), Num("buyerID"),
     Lit(G.buyerName), Str("buyerName"),
     Lit(G.buyerEnd \o G.shippingCity), Str("city"),
     Lit(G.address), Str("address"), Lit(G.trackingNo), Nullable("trackingNo"),
     Lit(G.shippingEnd \o G.items), ItemList, Lit(G.remark), Str("remark"),
     Lit(G.orderEnd) >>

PackItemTable ==
  << Lit(G.itemSKU), Str("sku"), Lit(G.itemTitle), Str("title"),
     Lit(G.itemQty), Num("qty"), Lit(G.itemPrice), Num("price"),
     Lit(G.itemEnd) >>

EstimateTable ==
  << Lit(G.orderID), Str("orderID"), Lit(G.createdAt), Str("createdAt"),
     Lit(G.status), Str("status"), Lit(G.paymentMethod), Str("paymentMethod"),
     Lit(G.paid), Bool("paid"), Lit(G.paymentEnd \o G.buyerID), Num("buyerID"),
     Lit(G.buyerName), Str("buyerName"),
     Lit(G.buyerEnd \o G.shippingCity), Str("city"),
     Lit(G.address), Str("address"), Lit(G.trackingNo), Nullable("trackingNo"),
     Lit(G.shippingEnd \o G.items), ItemList, Lit(G.remark), Str("remark"),
     Lit(G.orderEnd) >>

EstimateItemTable ==
  << Lit(G.itemSKU), Str("sku"), Lit(G.itemTitle), Str("title"),
     Lit(G.itemQty), Num("qty"), Lit(G.itemPrice), Num("price"),
     Lit(G.itemEnd) >>

ReferenceTable ==
  << Lit(G.orderID), Str("orderID"), Lit(G.createdAt), Str("createdAt"),
     Lit(G.status), Str("status"), Lit(G.paymentMethod), Str("paymentMethod"),
     Lit(G.paid), Bool("paid"), Lit(G.paymentEnd),
     Lit(G.buyerID), Num("buyerID"), Lit(G.buyerName), Str("buyerName"),
     Lit(G.buyerEnd), Lit(G.shippingCity), Str("city"),
     Lit(G.address), Str("address"), Lit(G.trackingNo), Nullable("trackingNo"),
     Lit(G.shippingEnd), Lit(G.items), ItemList,
     Lit(G.remark), Str("remark"), Lit(G.orderEnd) >>

ReferenceItemTable ==
  << Lit(G.itemSKU), Str("sku"), Lit(G.itemTitle), Str("title"),
     Lit(G.itemQty), Num("qty"), Lit(G.itemPrice), Num("price"),
     Lit(G.itemEnd) >>

-----------------------------------------------------------------------------
(* The literals and the tables of writer_linux_amd64.c.                    *)
NativeLiteral ==
  [order_id |-> "{\"orderId\":", created_at |-> ",\"createdAt\":",
   status |-> ",\"status\":", payment_method |-> ",\"payment\":{\"method\":",
   paid |-> ",\"paid\":", buyer_id |-> "},\"buyer\":{\"id\":",
   buyer_name |-> ",\"name\":", shipping_city |-> "},\"shipping\":{\"city\":",
   address |-> ",\"address\":", tracking_no |-> ",\"trackingNo\":",
   items |-> "},\"items\":", remark |-> ",\"remark\":", order_end |-> "}",
   item_sku |-> "{\"sku\":", item_title |-> ",\"title\":",
   item_qty |-> ",\"qty\":", item_price |-> ",\"price\":", item_end |-> "}",
   null |-> "null", true |-> "true", false |-> "false"]

LOCAL K == NativeLiteral

StaticTable ==
  << Lit(K.order_id), Str("orderID"), Lit(K.created_at), Str("createdAt"),
     Lit(K.status), Str("status"), Lit(K.payment_method), Str("paymentMethod"),
     Lit(K.paid), Bool("paid"), Lit(K.buyer_id), Num("buyerID"),
     Lit(K.buyer_name), Str("buyerName"), Lit(K.shipping_city), Str("city"),
     Lit(K.address), Str("address"),
     Lit(K.tracking_no), Nullable("trackingNo"), Lit(K.items), ItemList,
     Lit(K.remark), Str("remark"), Lit(K.order_end) >>

NativeItemTable ==
  << Lit(K.item_sku), Str("sku"), Lit(K.item_title), Str("title"),
     Lit(K.item_qty), Num("qty"), Lit(K.item_price), Num("price"),
     Lit(K.item_end) >>

OperationTable(op) ==
  CASE op = "order_id"   -> << Lit(K.order_id), Str("orderID") >>
    [] op = "created_at" -> << Lit(K.created_at), Str("createdAt") >>
    [] op = "status"     -> << Lit(K.status), Str("status") >>
    [] op = "payment"    -> << Lit(K.payment_method), Str("paymentMethod"),
                               Lit(K.paid), Bool("paid") >>
    [] op = "buyer"      -> << Lit(K.buyer_id), Num("buyerID"),
                               Lit(K.buyer_name), Str("buyerName") >>
    [] op = "shipping"   -> << Lit(K.shipping_city), Str("city"),
                               Lit(K.address), Str("address"),
                               Lit(K.tracking_no), Nullable("trackingNo") >>
    [] op = "items"      -> << Lit(K.items), ItemList >>
    [] op = "remark"     -> << Lit(K.remark), Str("remark"), Lit(K.order_end) >>

(* Mutant: the calls of two operations are swapped.                        *)
OperationsSwapped ==
  << "order_id", "created_at", "status", "payment",
     "shipping", "buyer", "items", "remark" >>

(* The operations that the machine code calls, in the order of the calls.  *)
Operations ==
  << "order_id", "created_at", "status", "payment",
     "buyer", "shipping", "items", "remark" >>

-----------------------------------------------------------------------------
(* What is known of the strings above: their characters, the lengths that  *)
(* the Go code writes down as numbers, and that C has joined three pairs   *)
(* of literals of Go (writer_linux_amd64.c:10-30).                         *)
Literals ==
  {GoLiteral[name] : name \in DOMAIN GoLiteral}
    \cup {NativeLiteral[name] : name \in DOMAIN NativeLiteral}
    \cup {"\"", ",", "[", "]", "\\\"", "\\u0001"}

ASSUME AlphabetAssumption ==
  /\ \A string \in Literals : Chars(string) \in JSON
  /\ \A byte \in Bytes : Raw(byte) \in Alphabet
  /\ \A digit \in 0 .. 9 : ToString(digit) \in Alphabet
  /\ "-" \in Alphabet

ASSUME LengthsAssumption ==
  /\ \A string \in {"\"", ",", "[", "]"} : Len(Chars(string)) = 1
  /\ Len(Chars("null")) = 4 /\ Len(Chars("true")) = 4 /\ Len(Chars("false")) = 5
  /\ Len(Chars("\\\"")) = 2 /\ Len(Chars("\\u0001")) = 6

ASSUME JoinsAssumption ==
  /\ \A s \in {G.paymentEnd, G.buyerEnd, G.shippingEnd},
        t \in {G.buyerID, G.shippingCity, G.items} :
       Chars(s \o t) = Chars(s) \o Chars(t)
  /\ "}" \o ",\"buyer\":{\"id\":" = "},\"buyer\":{\"id\":"
  /\ "}" \o ",\"shipping\":{\"city\":" = "},\"shipping\":{\"city\":"
  /\ "}" \o ",\"items\":" = "},\"items\":"
=============================================================================
