----------------------------- MODULE RowLayout ------------------------------
(***************************************************************************)
(* The rows as bytes.  Go declares OrderRow and ItemRow (types.go), C      *)
(* declares them again (jitjson.h), and C reads through its declaration    *)
(* the bytes that Go wrote through its own.  Both compilers lay a          *)
(* structure out by the same rule; ValidateGoLayout and the static         *)
(* assertions of the header compare some of the results with constants.    *)
(*                                                                         *)
(* The actions are the assignments of packOrder to a row, in their order,  *)
(* with the branches not taken and the string where packing is given up,   *)
(* in an array that the next call uses again, uncleared.  Other modules    *)
(* take a row for a record that both sides share: this one shows that they *)
(* may.  A field has the name that PackBatch gives it, on both sides.      *)
(***************************************************************************)
EXTENDS Integers, Sequences, SequencesExt

CONSTANTS
  Rows, \* length of the rows array
  Uses  \* calls that use it one after the other

ASSUME RowsAssumption == Rows \in Nat \ {0} /\ Uses \in Nat \ {0}

-----------------------------------------------------------------------------
(* Declarations.                                                           *)
Ref(name)  == [name |-> name, size |-> 8, align |-> 4]
U32(name)  == [name |-> name, size |-> 4, align |-> 4]
I64(name)  == [name |-> name, size |-> 8, align |-> 8]
U8(name)   == [name |-> name, size |-> 1, align |-> 1]
Padding(n) == [name |-> "_", size |-> n, align |-> 1]

(* Mutant: two references change places in Go.                             *)
GoOrderRowSwapped ==
  << Ref("orderID"), Ref("createdAt"), Ref("status"), Ref("paymentMethod"),
     Ref("buyerName"), Ref("address"), Ref("city"), Ref("trackingNo"),
     Ref("remark"), U32("itemStart"), U32("itemCount"), I64("buyerID"),
     U8("paid"), U8("hasTrackingNo"), U8("itemsNull"), Padding(5) >>

GoOrderRow ==
  << Ref("orderID"), Ref("createdAt"), Ref("status"), Ref("paymentMethod"),
     Ref("buyerName"), Ref("city"), Ref("address"), Ref("trackingNo"),
     Ref("remark"), U32("itemStart"), U32("itemCount"), I64("buyerID"),
     U8("paid"), U8("hasTrackingNo"), U8("itemsNull"), Padding(5) >>

GoItemRow == << Ref("sku"), Ref("title"), I64("qty"), I64("price") >>

COrderRow ==
  << Ref("orderID"), Ref("createdAt"), Ref("status"), Ref("paymentMethod"),
     Ref("buyerName"), Ref("city"), Ref("address"), Ref("trackingNo"),
     Ref("remark"), U32("itemStart"), U32("itemCount"), I64("buyerID"),
     U8("paid"), U8("hasTrackingNo"), U8("itemsNull"), Padding(5) >>

CItemRow == << Ref("sku"), Ref("title"), I64("qty"), I64("price") >>

-----------------------------------------------------------------------------
(* The rule: a field starts at the next multiple of its alignment, and the *)
(* size is a multiple of the largest alignment, 8 here.                    *)
RoundUp(n, align) == ((n + align - 1) \div align) * align

Offsets(decl) ==
  LET at[k \in 1 .. Len(decl)] ==
        RoundUp(IF k = 1 THEN 0 ELSE at[k - 1] + decl[k - 1].size, decl[k].align)
  IN  at

SizeOf(decl) == RoundUp(Offsets(decl)[Len(decl)] + Last(decl).size, 8)

Index(decl, name)    == CHOOSE k \in 1 .. Len(decl) : decl[k].name = name
OffsetOf(decl, name) == Offsets(decl)[Index(decl, name)]

ValidateGoLayout ==
  /\ SizeOf(GoOrderRow) = 96
  /\ OffsetOf(GoOrderRow, "itemStart") = 72
  /\ OffsetOf(GoOrderRow, "buyerID") = 80
  /\ OffsetOf(GoOrderRow, "paid") = 88
  /\ OffsetOf(GoOrderRow, "hasTrackingNo") = 89
  /\ OffsetOf(GoOrderRow, "itemsNull") = 90
  /\ SizeOf(GoItemRow) = 32
  /\ OffsetOf(GoItemRow, "qty") = 16
  /\ OffsetOf(GoItemRow, "price") = 24

StaticAsserts ==
  /\ Ref("sku").size = 8
  /\ SizeOf(COrderRow) = 96
  /\ OffsetOf(COrderRow, "itemStart") = 72
  /\ OffsetOf(COrderRow, "buyerID") = 80
  /\ OffsetOf(COrderRow, "paid") = 88
  /\ OffsetOf(COrderRow, "itemsNull") = 90
  /\ SizeOf(CItemRow) = 32

(* The header does not compile otherwise.                                  *)
ASSUME HeaderCompiles == StaticAsserts

-----------------------------------------------------------------------------
VARIABLES
  memory, \* the bytes of the rows array
  item,   \* the bytes of an element of the items array
  row,    \* the row being filled, or Rows when all are
  step,   \* the assignment that is next
  given,  \* given[i][f]: what Go last assigned to field f of row i
  packed, \* packed[f]: what Go last assigned to field f of the item
  use     \* calls begun

vars == <<memory, item, row, step, given, packed, use>>

(* The bytes of a value: zero, or one known by who assigned it.            *)
Bytes(v, size) ==
  [k \in 0 .. size - 1 |-> IF v = <<>> THEN <<>> ELSE <<v, k>>]

Zero == <<>>

Store(mem, base, decl, name, v) ==
  LET at    == base + OffsetOf(decl, name)
      bytes == Bytes(v, decl[Index(decl, name)].size)
  IN  [a \in DOMAIN mem |-> IF a - at \in DOMAIN bytes THEN bytes[a - at] ELSE mem[a]]

Load(mem, base, decl, name) ==
  LET at == base + OffsetOf(decl, name)
  IN  [k \in 0 .. decl[Index(decl, name)].size - 1 |-> mem[at + k]]

Names(decl) == {decl[k].name : k \in 1 .. Len(decl)} \ {"_"}

(* The assignments of packOrder: always, or on one branch; "string" may be *)
(* refused, and then leaves a zero reference.                              *)
Clear(name)  == [name |-> name, kind |-> "clear"]
Always(name) == [name |-> name, kind |-> "always"]
Branch(name) == [name |-> name, kind |-> "branch"]
Text(name)   == [name |-> name, kind |-> "string"]

Assignments ==
  << Clear("trackingNo"), Clear("paid"), Clear("hasTrackingNo"),
     Clear("itemsNull"), Text("orderID"), Text("createdAt"), Text("status"),
     Text("paymentMethod"), Text("buyerName"), Text("city"), Text("address"),
     Branch("hasTrackingNo"), Text("trackingNo"), Always("itemStart"),
     Always("itemCount"), Always("buyerID"), Branch("paid"),
     Branch("itemsNull"), Text("remark") >>

Init ==
  /\ memory = [a \in 0 .. Rows * SizeOf(GoOrderRow) - 1 |-> Zero]
  /\ item = [a \in 0 .. SizeOf(GoItemRow) - 1 |-> Zero]
  /\ row = Rows
  /\ step = 1
  /\ given = [i \in 0 .. Rows - 1 |-> [f \in Names(GoOrderRow) |-> Zero]]
  /\ packed = [f \in Names(GoItemRow) |-> Zero]
  /\ use = 0

(* packIntoMode, up to its loop.                                           *)
Start ==
  /\ row = Rows
  /\ use < Uses
  /\ ValidateGoLayout
  /\ use' = use + 1
  /\ row' = 0
  /\ step' = 1
  /\ UNCHANGED <<memory, item, given, packed>>

Assign(name, v) ==
  /\ memory' = Store(memory, row * SizeOf(GoOrderRow), GoOrderRow, name, v)
  /\ given' = [given EXCEPT ![row][name] = v]

Advance(n) ==
  /\ IF step + n > Len(Assignments) THEN row' = row + 1 /\ step' = 1
     ELSE row' = row /\ step' = step + n
  /\ UNCHANGED use

Current == Assignments[step]

AssignField ==
  /\ row < Rows
  /\ Assign(Current.name, IF Current.kind = "clear" THEN Zero ELSE <<use, Current.name>>)
  /\ Advance(1)
  /\ UNCHANGED <<item, packed>>

(* A branch not taken; with a nil tracking number its string is not packed.*)
SkipBranch ==
  /\ row < Rows
  /\ Current.kind = "branch"
  /\ Advance(IF Current.name = "hasTrackingNo" THEN 2 ELSE 1)
  /\ UNCHANGED <<memory, item, given, packed>>

(* packItem: items that are not nil; the row of one is appended whole.     *)
AppendItem ==
  /\ row < Rows
  /\ Current = Branch("itemsNull")
  /\ packed' = [f \in Names(GoItemRow) |-> <<use, f>>]
  /\ item' = LET filled[k \in 0 .. Len(GoItemRow)] ==
                   IF k = 0 THEN item
                   ELSE Store(filled[k - 1], 0, GoItemRow, GoItemRow[k].name,
                              <<use, GoItemRow[k].name>>)
             IN  filled[Len(GoItemRow)]
  /\ Advance(1)
  /\ UNCHANGED <<memory, given>>

(* Packing is given up at a string, or between two assignments where a     *)
(* size or a count passes its limit.                                       *)
GiveUp ==
  /\ row < Rows
  /\ \/ Current.kind = "string" /\ Assign(Current.name, Zero)
     \/ /\ \/ Current.name \in {"buyerName", "itemStart", "remark"}
           \/ Current = Branch("hasTrackingNo")
        /\ UNCHANGED <<memory, given>>
  /\ row' = Rows
  /\ step' = 1
  /\ UNCHANGED <<item, packed, use>>

Next == Start \/ AssignField \/ SkipBranch \/ AppendItem \/ GiveUp

Spec == Init /\ [][Next]_vars

-----------------------------------------------------------------------------
(* C reads, at its own offsets and with its own stride, what Go assigned   *)
(* last to each field of each row: no field is read from the place of      *)
(* another one, and no assignment touches two fields.  The checks of the   *)
(* layout do not say so, since they compare no reference with anything     *)
(* (jitjson.h:32-66, types.go:13-70).                                      *)
ReadsWhatWasWritten ==
  /\ \A i \in 0 .. Rows - 1, name \in Names(COrderRow) :
       Load(memory, i * SizeOf(COrderRow), COrderRow, name)
         = Bytes(given[i][name], COrderRow[Index(COrderRow, name)].size)
  /\ \A name \in Names(CItemRow) :
       Load(item, 0, CItemRow, name)
         = Bytes(packed[name], CItemRow[Index(CItemRow, name)].size)
=============================================================================
