---------------------------- MODULE OrderWriter -----------------------------
(***************************************************************************)
(* writer_linux_amd64.c: the writer that appends to a buffer of fixed      *)
(* capacity and stops at its first error, and the operations that write    *)
(* one packed order with it.  A writer is its text, its capacity and its   *)
(* status; a view holds the rows, items and strings it reads.  Which scan  *)
(* finds the next byte to escape is the matter of StringWriter.              *)
(***************************************************************************)
EXTENDS OrderSchema, Int64Text

Writer(text, cap, status) == [text |-> text, cap |-> cap, status |-> status]

Stopped(w) == w.status # "OK"

(* Mutant: one byte more than the capacity is let through.                 *)
FitsLoose(w, n) == n <= w.cap - Len(w.text) + 1

(* writer_reserve                                                          *)
Fits(w, n) == n <= w.cap - Len(w.text)

Literal(w, text) ==
  IF Stopped(w) THEN w
  ELSE IF ~Fits(w, Len(text)) THEN [w EXCEPT !.status = "NO_SPACE"]
  ELSE [w EXCEPT !.text = @ \o text]

Invalid(w) == [w EXCEPT !.status = "INVALID_ARGUMENT"]

-----------------------------------------------------------------------------
(* Strings.                                                                *)

(* Mutant: no reference may begin where the arena ends.                    *)
ResolvesStrictly(v, ref) ==
  /\ ref.offset < Len(v.strings)
  /\ ref.length <= Len(v.strings) - ref.offset

(* resolve_ref, the test: the reference lies inside the arena.             *)
Resolves(v, ref) ==
  /\ ref.offset <= Len(v.strings)
  /\ ref.length <= Len(v.strings) - ref.offset

Value(v, ref) == SubSeq(v.strings, ref.offset + 1, ref.offset + ref.length)

RawText(value) == [i \in 1 .. Len(value) |-> Raw(value[i])]

(* The bytes before the first one that needs an escape.                    *)
SafeRun(value) ==
  LET special == {i \in 1 .. Len(value) : NeedsEscape(value[i])}
  IN  IF special = {} THEN value
      ELSE SubSeq(value, 1, (CHOOSE i \in special : \A j \in special : i <= j) - 1)

(* A turn of the loop of write_escaped: copy a safe run, escape the byte   *)
(* after it.  The loop has a writer and the bytes left.                    *)
EscapeTurn(s) ==
  LET safe   == Len(SafeRun(s.left))
      copied == Literal(s.w, RawText(SafeRun(s.left)))
  IN  IF s.left = <<>> \/ Stopped(s.w) THEN s
      ELSE IF safe = Len(s.left) THEN [w |-> copied, left |-> <<>>]
      ELSE [w    |-> Literal(copied, Escaped(s.left[safe + 1])),
            left |-> SubSeq(s.left, safe + 2, Len(s.left))]

(* Every turn takes a byte at least.                                       *)
WriteRuns(w, value) ==
  LET after[n \in 0 .. Len(value)] ==
        IF n = 0 THEN [w |-> w, left |-> value] ELSE EscapeTurn(after[n - 1])
  IN  after[Len(value)].w

Quoted(w, Body(_)) == Literal(Body(Literal(w, Quote)), Quote)

(* batch->write_string: the plain copy when the caller says that no string *)
(* of the batch needs an escape, write_escaped otherwise.                  *)
WriteString(w, v, ref) ==
  IF Stopped(w) THEN w
  ELSE IF ~Resolves(v, ref) THEN Invalid(w)
  ELSE IF v.stringsPlain
       THEN Quoted(w, LAMBDA x : Literal(x, RawText(Value(v, ref))))
       ELSE Quoted(w, LAMBDA x : WriteRuns(x, Value(v, ref)))

-----------------------------------------------------------------------------
(* The steps of the tables, and the list of items.                         *)

WriteStep(w, v, step, row) ==
  CASE step.kind = "literal"  -> Literal(w, step.arg)
    [] step.kind = "string"   -> WriteString(w, v, row[step.arg])
    [] step.kind = "bool"     -> Literal(w, IF row[step.arg] # 0
                                            THEN Chars(NativeLiteral.true)
                                            ELSE Chars(NativeLiteral.false))
    [] step.kind = "int"      -> Literal(w, Int64Bytes(row[step.arg]))
    [] step.kind = "nullable" -> IF row.hasTrackingNo = 0
                                 THEN Literal(w, Chars(NativeLiteral.null))
                                 ELSE WriteString(w, v, row[step.arg])

WriteItem(w, v, item) ==
  LET after[k \in 0 .. Len(NativeItemTable)] ==
        IF k = 0 THEN w
        ELSE WriteStep(after[k - 1], v, NativeItemTable[k], item)
  IN  after[Len(NativeItemTable)]

(* A turn of the loop of jitjson_writer_items: the i-th item of a row.     *)
NextItem(w, v, row, i) ==
  IF Stopped(w) THEN w
  ELSE WriteItem(IF i > 1 THEN Literal(w, Comma) ELSE w, v, v.items[row.itemStart + i])

WriteList(w, v, row) ==
  LET after[i \in 0 .. row.itemCount] ==
        IF i = 0 THEN Literal(w, LeftBracket)
        ELSE NextItem(after[i - 1], v, row, i)
  IN  Literal(after[row.itemCount], RightBracket)

(* jitjson_writer_items.  Its two argument errors do not look at the       *)
(* status that the writer already has.                                     *)
WriteItems(w, v, row) ==
  IF row.itemsNull # 0
  THEN IF row.itemCount # 0 THEN Invalid(w) ELSE Literal(w, Chars(NativeLiteral.null))
  ELSE IF \/ row.itemStart > Len(v.items)
          \/ row.itemCount > Len(v.items) - row.itemStart
       THEN Invalid(w)
  ELSE WriteList(w, v, row)

RowStep(w, v, step, row) ==
  IF step.kind = "items" THEN WriteItems(w, v, row) ELSE WriteStep(w, v, step, row)

WriteTable(w, v, table, row) ==
  LET after[k \in 0 .. Len(table)] ==
        IF k = 0 THEN w ELSE RowStep(after[k - 1], v, table[k], row)
  IN  after[Len(table)]
=============================================================================
