----------------------------- MODULE MCPipeline -----------------------------
(***************************************************************************)
(* Small instances of Pipeline.  The strings of an order are all different *)
(* so that no field can stand for another one.                             *)
(***************************************************************************)
EXTENDS Pipeline

Full ==
  [orderID |-> <<"a">>, createdAt |-> <<"b">>, status |-> <<"a", "a">>,
   paymentMethod |-> <<"a", "b">>, paid |-> TRUE, buyerID |-> 10,
   buyerName |-> <<"b", "a">>, city |-> <<"b", "b">>,
   address |-> <<"a", "a", "a">>, trackingNo |-> <<"a", "a", "b">>,
   items |-> << [sku |-> <<"a">>, title |-> <<"b">>, qty |-> 9, price |-> 100],
                [sku |-> <<>>, title |-> <<"a">>, qty |-> -1, price |-> 0] >>,
   remark |-> <<"a", "b", "a">>]

Nulls ==
  [Full EXCEPT !.trackingNo = Nil, !.items = Nil, !.paid = FALSE,
               !.buyerID = -128]

Escapes ==
  [Nulls EXCEPT !.city = <<"a", "quote", "ctl">>, !.trackingNo = <<"quote">>,
                !.items = <<>>]

(* Refused once most of its row is filled.                                 *)
Invalid8 ==
  [Full EXCEPT !.remark = <<"a", "bad">>]

(* Two items and no byte; two bytes and no item, the last string one of    *)
(* them; one bad byte.  The text of two orders of the second kind has 384  *)
(* bytes, of a first and a third kind more.                                *)
Bare ==
  [orderID |-> <<>>, createdAt |-> <<>>, status |-> <<>>,
   paymentMethod |-> <<>>, paid |-> FALSE, buyerID |-> 0, buyerName |-> <<>>,
   city |-> <<>>, address |-> <<>>, trackingNo |-> Nil,
   items |-> [i \in 1 .. 2 |->
                [sku |-> <<>>, title |-> <<>>, qty |-> 1, price |-> 1]],
   remark |-> <<>>]

Tiny == [Bare EXCEPT !.items = Nil, !.trackingNo = <<"quote">>,
                     !.remark = <<"a">>]

TinyBad == [Bare EXCEPT !.items = <<>>, !.status = <<"bad">>]

BatchesOver(orders, n) ==
  {Nil} \cup UNION {[1 .. k -> orders] : k \in 0 .. n}

MCBatches == BatchesOver({Full, Nulls, Escapes, Invalid8}, 2)
Small     == BatchesOver({Bare, Tiny, TinyBad}, 2)

NoCaps    == {}
SmallCaps == {1, 11, 12, 100, 191, 383}
=============================================================================
