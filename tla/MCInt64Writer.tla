--------------------------- MODULE MCInt64Writer ----------------------------
(***************************************************************************)
(* Every integer of a small width, with a buffer that its least one fills, *)
(* and with a byte too little, just enough and a byte more of output.      *)
(***************************************************************************)
EXTENDS Int64Writer

MCSpares == -1 .. 1

MCQuotient ==
  LET q[k \in 0 .. BufferSize - 2] == IF k = 0 THEN Half ELSE q[k - 1] \div 10
  IN  q

(* The decimal text is the one that TLC prints a number with.              *)
ASSUME DecimalAssumption ==
  \A v \in Ints :
    Decimal(v) = [i \in 1 .. Len(ToString(v)) |-> SubSeq(ToString(v), i, i)]
=============================================================================
