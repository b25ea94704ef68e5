---------------------------- MODULE MCNativeRows ----------------------------
(***************************************************************************)
(* A small well-formed view, and the views that differ from it in one      *)
(* place: a reference or a range that ends one past its target, starts     *)
(* past it, or a null list that counts an element.                         *)
(***************************************************************************)
EXTENDS NativeRows

Ref(offset, length) == [offset |-> offset, length |-> length]

GoodItem == [sku |-> Ref(0, 1), title |-> Ref(1, 1), qty |-> 1, price |-> 2]

GoodRow ==
  [orderID |-> Ref(0, 2), createdAt |-> Ref(2, 0), status |-> Ref(1, 1),
   paymentMethod |-> Ref(0, 0), buyerName |-> Ref(0, 0), city |-> Ref(0, 0),
   address |-> Ref(0, 0), trackingNo |-> Ref(0, 1), remark |-> Ref(0, 0),
   itemStart |-> 0, itemCount |-> 1, buyerID |-> 0,
   paid |-> 1, hasTrackingNo |-> 1, itemsNull |-> 0]

View(rows) ==
  [orders |-> rows, ordersNull |-> FALSE, items |-> << GoodItem >>,
   strings |-> << "a", "quote" >>, stringsPlain |-> FALSE]

BadRefs == {Ref(1, 2), Ref(2, 1), Ref(3, 0)}

BadRows ==
  UNION {{[GoodRow EXCEPT ![field] = ref] : ref \in BadRefs} :
           field \in {"orderID", "trackingNo", "remark"}}
    \cup {[GoodRow EXCEPT !.itemStart = s, !.itemCount = n] :
            s \in 0 .. 2, n \in 0 .. 2}
    \cup {[GoodRow EXCEPT !.itemsNull = 1, !.itemCount = n] : n \in 0 .. 1}
    \cup {[GoodRow EXCEPT !.trackingNo = Ref(3, 0), !.hasTrackingNo = 0]}

MCViews ==
  {View(<< row >>) : row \in BadRows}
    \cup {View(<< GoodRow, row >>) : row \in BadRows}
    \cup {[View(<< GoodRow >>) EXCEPT !.items[1].title = ref] : ref \in BadRefs}
    \cup {[View(rows) EXCEPT !.ordersNull = TRUE] : rows \in {<<>>, << GoodRow >>}}

MCSizes == {0, 20, 160, 230, 600}
=============================================================================
