-------------------------- MODULE ReferenceEncoder --------------------------
(***************************************************************************)
(* reference.go: MarshalReference, the plain Go encoder that the packed    *)
(* and native one is compared with, and estimateMaxOutput (packed.go),     *)
(* which computes the capacity of its buffer.                              *)
(***************************************************************************)
EXTENDS PackBatch

(* estimateMaxOutput adds up the sizes of the parts of the text, in order, *)
(* until a string is invalid or the sum is too large.                      *)
EstimateString(b, value) ==
  IF b.err # "none" \/ ValidUTF8(value) THEN Add(b, EncodedSize(value))
  ELSE [b EXCEPT !.err = "ErrInvalidUTF8"]

EstimateStep(b, step, from) ==
  CASE step.kind = "literal"  -> Add(b, Len(step.arg))
    [] step.kind = "string"   -> EstimateString(b, from[step.arg])
    [] step.kind = "bool"     -> Add(b, IF from[step.arg] THEN 4 ELSE 5)
    [] step.kind = "int"      -> Add(b, Int64Length(from[step.arg]))
    [] step.kind = "nullable" -> IF from[step.arg] = Nil THEN Add(b, 4)
                                 ELSE EstimateString(b, from[step.arg])

(* Mutant: the commas are forgotten.                                       *)
EstimateNoComma(b, i) == b

(* The comma in front of element i of a list.                              *)
EstimateComma(b, i) == IF i > 1 THEN Add(b, 1) ELSE b

EstimateItem(b, item) ==
  LET after[k \in 0 .. Len(EstimateItemTable)] ==
        IF k = 0 THEN b ELSE EstimateStep(after[k - 1], EstimateItemTable[k], item)
  IN  IF b.err # "none" THEN b ELSE after[Len(EstimateItemTable)]

EstimateItems(b, items) ==
  LET after[i \in 0 .. Count(items)] ==
        IF i = 0 THEN Add(b, 2)
        ELSE EstimateItem(EstimateComma(after[i - 1], i), items[i])
  IN  IF b.err # "none" \/ items = Nil THEN Add(b, 4) ELSE after[Count(items)]

EstimateRowStep(b, step, order) ==
  IF step.kind = "items" THEN EstimateItems(b, order.items)
  ELSE EstimateStep(b, step, order)

EstimateOrder(b, order) ==
  LET after[k \in 0 .. Len(EstimateTable)] ==
        IF k = 0 THEN b ELSE EstimateRowStep(after[k - 1], EstimateTable[k], order)
  IN  IF b.err # "none" THEN b ELSE after[Len(EstimateTable)]

Estimate(batch) ==
  LET start == Add([size |-> 0, err |-> "none"], Len(Chars(GoLiteral.batch)))
      after[i \in 0 .. Count(batch)] ==
        IF i = 0 THEN Add(start, IF batch = Nil THEN 4 ELSE 2)
        ELSE EstimateOrder(EstimateComma(after[i - 1], i), batch[i])
  IN  Add(after[Count(batch)], Len(Chars(GoLiteral.batchEnd)))

-----------------------------------------------------------------------------
(* The text itself.  Nothing here fails once every string was found valid  *)
(* by estimateMaxOutput; appendJSONString checks again all the same.       *)
JSONString(value) ==
  Quote \o FlattenSeq([i \in 1 .. Len(value) |-> Escaped(value[i])]) \o Quote

ReferenceStep(step, from) ==
  CASE step.kind = "literal"  -> step.arg
    [] step.kind = "string"   -> JSONString(from[step.arg])
    [] step.kind = "bool"     -> Chars(IF from[step.arg] THEN "true" ELSE "false")
    [] step.kind = "int"      -> Decimal(from[step.arg])
    [] step.kind = "nullable" -> IF from[step.arg] = Nil THEN Chars("null")
                                 ELSE JSONString(from[step.arg])

Bracketed(texts) ==
  LeftBracket
    \o FlattenSeq([i \in 1 .. Len(texts) |->
                     (IF i > 1 THEN Comma ELSE <<>>) \o texts[i]])
    \o RightBracket

ReferenceItem(item) ==
  FlattenSeq([i \in 1 .. Len(ReferenceItemTable) |->
                ReferenceStep(ReferenceItemTable[i], item)])

ReferenceItems(items) ==
  IF items = Nil THEN Chars("null")
  ELSE Bracketed([i \in 1 .. Len(items) |-> ReferenceItem(items[i])])

ReferenceRowStep(step, order) ==
  IF step.kind = "items" THEN ReferenceItems(order.items)
  ELSE ReferenceStep(step, order)

ReferenceOrder(order) ==
  FlattenSeq([i \in 1 .. Len(ReferenceTable) |->
                ReferenceRowStep(ReferenceTable[i], order)])

ReferenceText(batch) ==
  Chars(GoLiteral.batch)
    \o (IF batch = Nil THEN Chars("null")
        ELSE Bracketed([i \in 1 .. Len(batch) |-> ReferenceOrder(batch[i])]))
    \o Chars(GoLiteral.batchEnd)

(* MarshalReference.                                                       *)
MarshalReference(batch) ==
  LET estimate == Estimate(batch)
  IN  IF estimate.err # "none" THEN [err |-> estimate.err, text |-> <<>>]
      ELSE [err |-> "none", text |-> ReferenceText(batch)]
=============================================================================
