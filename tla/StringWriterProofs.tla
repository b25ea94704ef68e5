------------------------- MODULE StringWriterProofs -------------------------
(***************************************************************************)
(* Proofs of the safety properties of StringWriter for every set of        *)
(* strings, every capacity, every width of a vector and every threshold.   *)
(***************************************************************************)
EXTENDS StringWriterProperties, RecursionLemmas

(* The bytes before position k of the rest of the string need no escape.   *)
ClearUpTo(k) == \A j \in 0 .. k - 1 : ~NeedsEscape(At(j))

ScanInv ==
  /\ pc \in {"block", "tail"} => writer # "plain" /\ ClearUpTo(i)
  /\ pc = "start" => i = 0 /\ pos = 0
  /\ writer = "plain" => pc \in {"start", "copy", "close", "done"}
  /\ writer = "plain" /\ pc = "copy" => i = Remaining
  /\ pc \in {"escape", "close", "done"} => i = 0

IInv == TypeOK /\ ScanInv /\ RunsAreSafe

(* The three classifications of a byte agree: the scalar comparison, the   *)
(* vector lane and the switch of analyzeJSONString.                        *)
LEMMA ClassesAgree ==
  ASSUME NEW byte \in Byte
  PROVE  /\ Special(byte) <=> NeedsEscape(byte)
         /\ Lane(byte) <=> NeedsEscape(byte)
<1>1. Special(byte) <=> NeedsEscape(byte)
  BY DEF Special, NeedsEscape, ShortEscapes, LongEscapes, Byte, Quote, Backslash
<1>2. HighBits(byte) = 0 <=> byte < 32
  BY DEF HighBits, Byte
<1>3. Lane(byte) <=> Special(byte)
  BY <1>2 DEF Lane, Special
<1> QED BY <1>1, <1>3

(* An escape is a sequence of bytes.                                       *)
LEMMA EscapeType ==
  ASSUME NEW byte \in Byte
  PROVE  Escape(byte) \in Seq(Byte)
<1>1. byte \div 16 \in 0 .. 15 /\ byte % 16 \in 0 .. 15
  BY DEF Byte
<1>2. Hex(byte \div 16) \in Byte /\ Hex(byte % 16) \in Byte
  BY <1>1 DEF Hex, Byte
<1>3. <<Backslash, 117, 48, 48, Hex(byte \div 16), Hex(byte % 16)>> \in Seq(Byte)
  BY <1>2 DEF Byte, Backslash
<1>4. ASSUME NEW b \in {Quote, Backslash, 98, 102, 110, 114, 116}
      PROVE  <<Backslash, b>> \in Seq(Byte)
  BY <1>4 DEF Byte, Backslash, Quote
<1> QED BY <1>3, <1>4, SMTT(30) DEF Escape

LEMMA LiteralType ==
  ASSUME TypeOK, NEW bytes \in Seq(Byte), Literal(bytes)
  PROVE  /\ out' \in Seq(Byte)
         /\ status' \in {"OK", "NO_SPACE"}
         /\ Len(out) <= cap => Len(out') <= cap
<1>1. out \in Seq(Byte) /\ cap \in Nat /\ status \in {"OK", "NO_SPACE"}
  BY DEF TypeOK
<1>2. CASE status = "OK" /\ Len(bytes) <= cap - Len(out)
  <2>1. out' = out \o bytes /\ status' = status
    BY <1>2 DEF Literal
  <2>2. out' \in Seq(Byte) /\ Len(out') = Len(out) + Len(bytes)
    BY <1>1, <2>1, ConcatProperties
  <2>3. Len(out) \in Nat /\ Len(bytes) \in Nat
    BY <1>1, LenProperties
  <2> QED BY <1>1, <1>2, <2>1, <2>2, <2>3
<1>3. CASE ~(status = "OK" /\ Len(bytes) <= cap - Len(out))
  BY <1>1, <1>3 DEF Literal
<1> QED BY <1>2, <1>3

-----------------------------------------------------------------------------
(* The least lane set in a movemask exists.                                *)
LEMMA LowestExists ==
  ASSUME NEW mask \in SUBSET Nat, mask # {}
  PROVE  LowestOf(mask) \in mask /\ \A k \in mask : LowestOf(mask) <= k
BY LeastElement DEF LowestOf

(* Positions inside the string hold bytes.                                 *)
LEMMA Positions ==
  ASSUME TypeOK
  PROVE  /\ Len(value) \in Nat /\ pos \in Nat /\ i \in Nat
         /\ pos + i <= Len(value)
         /\ Remaining = Len(value) - pos
         /\ Remaining \in Nat
         /\ \A k \in 0 .. Remaining - 1 : At(k) \in Byte
<1>1. Len(value) \in Nat
  BY LenProperties DEF TypeOK
<1>2. pos \in Nat /\ i \in Nat /\ pos + i <= Len(value) /\ pos <= Len(value)
  BY <1>1 DEF TypeOK
<1>3. ASSUME NEW k \in 0 .. Remaining - 1 PROVE At(k) \in Byte
  BY <1>1, <1>2, <1>3, ElementOfSeq DEF TypeOK, At, Remaining
<1> QED BY <1>1, <1>2, <1>3 DEF Remaining

(* What the loop of write_escaped goes on with.                            *)
LEMMA NextRunType ==
  ASSUME NEW s, NEW p
  PROVE  /\ NextRun(s, p) \in {"block", "tail", "close"}
         /\ NextRun(s, p) \in {"block", "tail"} => p < Len(value)
  BY DEF NextRun, Scan

-----------------------------------------------------------------------------
(* The invariant holds initially and is kept by every action.              *)
LEMMA Initially == Init => IInv
<1> SUFFICES ASSUME Init PROVE IInv
  OBVIOUS
<1>1. value \in Seq(Byte) /\ cap \in Nat
  BY StringsAssumption DEF Init
<1>2. Len(value) \in Nat
  BY <1>1, LenProperties
<1>3. TypeOK
  BY <1>1, <1>2, EmptySeq DEF Init, TypeOK
<1> QED BY <1>3 DEF IInv, ScanInv, RunsAreSafe, Init

(* Steps that only scan: the string, the output and the status stay, and   *)
(* what the scan says of the bytes it has reached is kept.                 *)
LEMMA ScanKeeps ==
  ASSUME IInv, NEW n \in Nat, n <= Remaining, i' = n,
         UNCHANGED <<value, writer, pos, out, cap, status>>,
         writer # "plain", ClearUpTo(n),
         \/ pc' \in {"block", "tail"}
         \/ pc' = "copy" /\ (n < Remaining => NeedsEscape(At(n)))
  PROVE  IInv'
<1>1. TypeOK'
  BY Positions DEF IInv, TypeOK
<1>2. Remaining' = Remaining /\ \A k : At(k)' = At(k)
  BY DEF Remaining, At
<1>3. At(i)' = At(n)
  BY DEF At
<1>4. ClearUpTo(i)'
  BY <1>2 DEF ClearUpTo, NeedsEscape
<1>5. pc' = "copy" => (i' < Remaining' => NeedsEscape(At(i)'))
  BY <1>2, <1>3
<1>6. ScanInv'
  BY <1>4 DEF ScanInv
<1>7. RunsAreSafe'
  BY <1>4, <1>5 DEF RunsAreSafe, ClearUpTo, NeedsEscape
<1> QED BY <1>1, <1>6, <1>7 DEF IInv

LEMMA ScanStep ==
  ASSUME IInv,
         BlockFound \/ BlockClear \/ BlocksDone \/ TailClear \/ TailDone
  PROVE  IInv'
<1>0. Block \in Nat \ {0}
  BY StringsAssumption
<1>1. /\ UNCHANGED <<value, writer, pos, out, cap, status>>
      /\ writer # "plain"
      /\ ClearUpTo(i)
  BY DEF BlockFound, BlockClear, BlocksDone, TailClear, TailDone, IInv, ScanInv
<1>2. /\ pos \in Nat /\ i \in Nat /\ Remaining \in Nat /\ i <= Remaining
      /\ \A k \in 0 .. Remaining - 1 :
           /\ Special(At(k)) <=> NeedsEscape(At(k))
           /\ Lane(At(k)) <=> NeedsEscape(At(k))
  BY Positions, ClassesAgree DEF IInv
(* A block of n lanes without one set.                                     *)
<1>3. ASSUME NEW n \in Nat, i + n <= Remaining,
             \A k \in 0 .. n - 1 : ~Lane(At(i + k))
      PROVE  ClearUpTo(i + n)
  <2>1. SUFFICES ASSUME NEW j \in 0 .. (i + n) - 1 PROVE ~NeedsEscape(At(j))
    BY DEF ClearUpTo
  <2>2. CASE j < i
    BY <1>1, <1>2, <2>2 DEF ClearUpTo
  <2>3. CASE j >= i
    <3>1. j - i \in 0 .. n - 1 /\ i + (j - i) = j /\ j \in 0 .. Remaining - 1
      BY <1>2, <1>3, <2>3
    <3> QED BY <1>2, <1>3, <3>1
  <2> QED BY <1>2, <2>2, <2>3
<1>4. CASE BlockFound
  <2> DEFINE m == LowestOf(Mask)
  <2>1. /\ Mask \subseteq Nat /\ Mask # {}
        /\ i + Block <= Remaining /\ i' = i + m /\ pc' = "copy"
    BY <1>0, <1>4 DEF BlockFound, Mask
  <2>2. m \in Mask /\ \A k \in Mask : m <= k
    BY <2>1, LowestExists
  <2>3. m \in 0 .. Block - 1 /\ Lane(At(i + m))
    BY <2>2 DEF Mask
  <2>4. \A k \in 0 .. m - 1 : ~Lane(At(i + k))
    BY <2>2, <2>3, <1>0 DEF Mask
  <2> HIDE DEF m
  <2>5. i + m \in Nat /\ i + m <= Remaining /\ i + m \in 0 .. Remaining - 1
    BY <1>0, <1>2, <2>1, <2>3
  <2>6. ClearUpTo(i + m)
    BY <1>3, <2>3, <2>4, <2>5
  <2>7. NeedsEscape(At(i + m))
    BY <1>2, <2>3, <2>5
  <2> QED BY <1>1, <2>1, <2>5, <2>6, <2>7, ScanKeeps
<1>5. CASE BlockClear
  <2>1. i + Block <= Remaining /\ i' = i + Block /\ pc' = "block"
    BY <1>5 DEF BlockClear
  <2>2. \A k \in 0 .. Block - 1 : ~Lane(At(i + k))
    BY <1>5 DEF BlockClear, Mask
  <2>3. ClearUpTo(i + Block)
    BY <1>0, <1>3, <2>1, <2>2
  <2> QED BY <1>0, <1>1, <1>2, <2>1, <2>3, ScanKeeps
<1>6. CASE BlocksDone
  BY <1>1, <1>2, <1>6, ScanKeeps DEF BlocksDone
<1>7. CASE TailClear
  <2>1. i < Remaining /\ ~Special(At(i)) /\ i' = i + 1 /\ pc' = "tail"
    BY <1>7 DEF TailClear
  <2>2. ClearUpTo(i + 1)
    BY <1>1, <1>2, <2>1 DEF ClearUpTo
  <2> QED BY <1>1, <1>2, <2>1, <2>2, ScanKeeps
<1>8. CASE TailDone
  <2>1. i' = i /\ pc' = "copy" /\ (i < Remaining => NeedsEscape(At(i)))
    BY <1>2, <1>8 DEF TailDone
  <2> QED BY <1>1, <1>2, <2>1, ScanKeeps
<1> QED BY <1>4, <1>5, <1>6, <1>7, <1>8

(* Steps that write: a literal is a sequence of bytes, and the position    *)
(* they leave is where the next scan or the close starts.                  *)
LEMMA WriteKeeps ==
  ASSUME IInv, NEW bytes \in Seq(Byte), Literal(bytes),
         UNCHANGED <<value, writer, cap>>,
         NEW n \in 0 .. Len(value), pos' = n, i' = 0,
         \/ pc' \in {"block", "tail"} /\ writer # "plain"
         \/ pc' = "escape" /\ writer # "plain"
              /\ n < Len(value) /\ NeedsEscape(value[n + 1])
         \/ pc' \in {"close", "done"}
  PROVE  IInv'
<1>1. TypeOK'
  BY LiteralType, Positions DEF IInv, TypeOK
<1>2. At(0)' = value[n + 1]
  BY DEF At
<1>3. ScanInv'
  BY DEF ScanInv, ClearUpTo
<1>4. RunsAreSafe'
  BY <1>2 DEF RunsAreSafe, NeedsEscape
<1> QED BY <1>1, <1>3, <1>4 DEF IInv

LEMMA WriteStep ==
  ASSUME IInv, Start \/ CopyRun \/ EscapeByte \/ Close
  PROVE  IInv'
<1>1. /\ pos \in Nat /\ i \in Nat /\ Len(value) \in Nat
      /\ pos + i <= Len(value) /\ Remaining = Len(value) - pos
      /\ value \in Seq(Byte)
      /\ \A k \in 0 .. Remaining - 1 : At(k) \in Byte
  BY Positions DEF IInv, TypeOK
<1>2. <<Quote>> \in Seq(Byte)
  BY DEF Quote, Byte
<1>3. CASE Start
  <2>1. /\ Literal(<<Quote>>) /\ UNCHANGED <<value, writer, pos, cap>>
        /\ pos = 0
        /\ pc' = IF writer = "plain" THEN "copy" ELSE NextRun(status', pos)
        /\ i' = IF writer = "plain" THEN Len(value) ELSE 0
    BY <1>3 DEF Start, IInv, ScanInv
  <2>2. CASE writer = "plain"
    <3>1. i' = Len(value) /\ pc' = "copy" /\ pos' = 0
      BY <2>1, <2>2
    <3>2. TypeOK'
      <4>1. out' \in Seq(Byte) /\ status' \in {"OK", "NO_SPACE"}
        BY <1>2, <2>1, LiteralType DEF IInv
      <4>2. pos' \in 0 .. Len(value') /\ i' \in 0 .. Len(value') - pos'
        BY <1>1, <2>1, <3>1
      <4> QED BY <2>1, <3>1, <4>1, <4>2 DEF IInv, TypeOK
    <3>3. ScanInv' /\ RunsAreSafe'
      BY <1>1, <2>1, <2>2, <3>1 DEF ScanInv, RunsAreSafe, Remaining
    <3> QED BY <3>2, <3>3 DEF IInv
  <2>3. CASE writer # "plain"
    <3>1. pc' \in {"block", "tail", "close"} /\ i' = 0 /\ pos' = 0
      BY <2>1, <2>3, NextRunType
    <3>2. 0 \in 0 .. Len(value) /\ UNCHANGED <<value, writer, cap>>
      BY <1>1, <2>1
    <3>3. Literal(<<Quote>>)
      BY <2>1
    <3> QED BY <1>2, <2>3, <3>1, <3>2, <3>3, WriteKeeps
  <2> QED BY <2>2, <2>3
<1>4. CASE CopyRun
  <2>1. /\ pc = "copy" /\ Literal(Run) /\ UNCHANGED <<value, writer, cap>>
        /\ pos' = pos + i /\ i' = 0
        /\ pc' = IF pos' = Len(value) THEN "close" ELSE "escape"
    BY <1>4 DEF CopyRun
  <2>2. \A k \in pos + 1 .. pos + i : value[k] \in Byte
    BY <1>1, ElementOfSeq
  <2>3. Run \in Seq(Byte)
    BY <1>1, <2>2, SubSeqProperties DEF Run
  <2>4. pos + i \in 0 .. Len(value)
    BY <1>1
  <2>5. CASE pos + i = Len(value)
    BY <2>1, <2>3, <2>4, <2>5, WriteKeeps
  <2>6. CASE pos + i # Len(value)
    <3>1. pc' = "escape" /\ pos + i < Len(value) /\ i < Remaining
      BY <1>1, <2>1, <2>6
    <3>2. writer # "plain"
      BY <1>1, <2>1, <3>1 DEF IInv, ScanInv
    <3>3. NeedsEscape(At(i))
      BY <2>1, <3>1, <3>2 DEF IInv, RunsAreSafe
    <3>4. NeedsEscape(value[(pos + i) + 1])
      BY <3>3 DEF At
    <3> QED BY <2>1, <2>3, <2>4, <3>1, <3>2, <3>4, WriteKeeps
  <2> QED BY <2>5, <2>6
<1>5. CASE EscapeByte
  <2>1. /\ Literal(Escape(At(0))) /\ UNCHANGED <<value, writer, i, cap>>
        /\ pos' = pos + 1 /\ pc' = NextRun(status', pos')
    BY <1>5 DEF EscapeByte
  <2>2. i = 0 /\ writer # "plain" /\ pos < Len(value)
    BY <1>5 DEF EscapeByte, IInv, ScanInv, RunsAreSafe
  <2>3. At(0) \in Byte /\ pos + 1 \in 0 .. Len(value)
    BY <1>1, <2>2
  <2>4. Escape(At(0)) \in Seq(Byte)
    BY <2>3, EscapeType
  <2>5. pc' \in {"block", "tail", "close"}
    BY <2>1, NextRunType
  <2> QED BY <2>1, <2>2, <2>3, <2>4, <2>5, WriteKeeps
<1>6. CASE Close
  <2>1. /\ Literal(<<Quote>>) /\ UNCHANGED <<value, writer, pos, i, cap>>
        /\ pc' = "done" /\ i = 0
    BY <1>6 DEF Close, IInv, ScanInv
  <2>2. pos \in 0 .. Len(value)
    BY <1>1
  <2> QED BY <1>2, <2>1, <2>2, WriteKeeps
<1> QED BY <1>3, <1>4, <1>5, <1>6

LEMMA Step == IInv /\ [Next]_vars => IInv'
<1> SUFFICES ASSUME IInv, [Next]_vars PROVE IInv'
  OBVIOUS
<1>1. CASE UNCHANGED vars
  BY <1>1 DEF vars, IInv, TypeOK, ScanInv, RunsAreSafe, ClearUpTo, At, Remaining
<1>2. CASE Next
  BY <1>2, ScanStep, WriteStep DEF Next
<1> QED BY <1>1, <1>2

(* The variables stay in their types; above all the scan and the position  *)
(* never pass the end of the string, for strings of any length.            *)
THEOREM TypesHold == Safe => []TypeOK
<1>1. IInv => TypeOK
  BY DEF IInv
<1> QED BY <1>1, Initially, Step, PTL DEF Safe

(* A run that is copied unescaped never holds a byte to escape, and stops  *)
(* right in front of one, in every writer and for every vector width.      *)
THEOREM RunsSafe == Safe => []RunsAreSafe
<1>1. IInv => RunsAreSafe
  BY DEF IInv
<1> QED BY <1>1, Initially, Step, PTL DEF Safe

(* Nothing is written past the capacity of the output.                     *)
THEOREM WritesStayInside == Safe => []StaysInside
<1>1. Init => StaysInside
  <2> SUFFICES ASSUME Init PROVE Len(out) <= cap
    BY DEF StaysInside
  <2>1. cap \in Nat /\ Len(out) = 0
    BY StringsAssumption, EmptySeq DEF Init
  <2> QED BY <2>1
<1>2. IInv /\ StaysInside /\ [Next]_vars => StaysInside'
  <2> SUFFICES ASSUME IInv, Len(out) <= cap, [Next]_vars
               PROVE  Len(out') <= cap'
    BY DEF StaysInside
  <2>1. CASE UNCHANGED <<out, cap>>
    BY <2>1
  <2>2. ASSUME NEW bytes \in Seq(Byte), Literal(bytes), UNCHANGED cap
        PROVE  Len(out') <= cap'
    BY <2>2, LiteralType DEF IInv
  <2>3. CASE Start \/ Close
    <3>1. <<Quote>> \in Seq(Byte)
      BY DEF Quote, Byte
    <3> QED BY <2>2, <2>3, <3>1 DEF Start, Close
  <2>4. CASE CopyRun
    <3>1. \A k \in pos + 1 .. pos + i : value[k] \in Byte
      BY Positions, ElementOfSeq DEF IInv, TypeOK
    <3>2. Run \in Seq(Byte)
      BY <3>1, Positions, SubSeqProperties DEF Run, IInv
    <3> QED BY <2>2, <2>4, <3>2 DEF CopyRun
  <2>5. CASE EscapeByte
    <3>1. At(0) \in Byte
      BY <2>5, Positions DEF EscapeByte, IInv, RunsAreSafe
    <3> QED BY <2>2, <2>5, <3>1, EscapeType DEF EscapeByte
  <2> QED
    BY <2>1, <2>3, <2>4, <2>5
       DEF Next, vars, BlockFound, BlockClear, BlocksDone, TailClear, TailDone
<1> QED BY <1>1, <1>2, Initially, Step, PTL DEF Safe

-----------------------------------------------------------------------------
(* The text.  What the reference encoder writes for the first p bytes.     *)
Escaped(v, p) == FlattenSeq([k \in 1 .. p |-> ReferenceByte(v[k])])

LEMMA ReferenceByteType ==
  ASSUME NEW byte \in Byte
  PROVE  /\ ReferenceByte(byte) \in Seq(Byte)
         /\ Len(ReferenceByte(byte)) = 1 + Extra(byte)
         /\ ~NeedsEscape(byte) => ReferenceByte(byte) = <<byte>>
         /\ NeedsEscape(byte) => ReferenceByte(byte) = Escape(byte)
<1>1. CASE ~NeedsEscape(byte)
  <2>1. ReferenceByte(byte) = <<byte>>
    BY <1>1 DEF ReferenceByte, NeedsEscape, ShortEscapes, LongEscapes, Byte, Quote, Backslash
  <2>2. Extra(byte) = 0
    BY <1>1 DEF Extra, NeedsEscape
  <2>3. <<byte>> \in Seq(Byte) /\ Len(<<byte>>) = 1
    OBVIOUS
  <2> QED BY <1>1, <2>1, <2>2, <2>3
<1>2. CASE NeedsEscape(byte)
  <2>1. ~(byte >= 32 /\ byte # Quote /\ byte # Backslash)
    BY <1>2 DEF NeedsEscape, ShortEscapes, LongEscapes, Quote, Backslash
  <2> DEFINE long == <<Backslash, 117, 48, 48, Hex(byte \div 16), Hex(byte % 16)>>
  <2>2. CASE byte \in ShortEscapes
    <3>1. /\ Extra(byte) = 1 /\ ReferenceByte(byte) = Escape(byte)
          /\ Len(Escape(byte)) = 2
      BY <2>1, <2>2 DEF Extra, ReferenceByte, Escape, ShortEscapes, Quote, Backslash
    <3> QED BY <1>2, <3>1, EscapeType
  <2>3. CASE byte \notin ShortEscapes
    <3>1. Extra(byte) = 5
      BY <1>2, <2>3 DEF Extra, NeedsEscape
    <3>2. ReferenceByte(byte) = long /\ Escape(byte) = long
      BY <2>1, <2>3 DEF ReferenceByte, Escape, ShortEscapes
    <3>3. Len(long) = 6
      OBVIOUS
    <3> HIDE DEF long
    <3>4. Escape(byte) \in Seq(Byte)
      BY EscapeType
    <3> QED BY <1>2, <3>1, <3>2, <3>3, <3>4
  <2> QED BY <2>2, <2>3
<1> QED BY <1>1, <1>2

(* The text grows by the text of the next byte.                            *)
LEMMA EscapedNext ==
  ASSUME NEW v \in Seq(Byte), NEW p \in Nat, p < Len(v)
  PROVE  /\ Escaped(v, p) \in Seq(Byte)
         /\ Escaped(v, p + 1) = Escaped(v, p) \o ReferenceByte(v[p + 1])
         /\ Escaped(v, p + 1) \in Seq(Byte)
<1> DEFINE s == [k \in 1 .. p |-> ReferenceByte(v[k])]
           t == [k \in 1 .. p + 1 |-> ReferenceByte(v[k])]
           r == ReferenceByte(v[p + 1])
<1>1. \A k \in 1 .. p + 1 : ReferenceByte(v[k]) \in Seq(Byte)
  <2> SUFFICES ASSUME NEW k \in 1 .. p + 1 PROVE ReferenceByte(v[k]) \in Seq(Byte)
    OBVIOUS
  <2>1. v[k] \in Byte
    BY ElementOfSeq
  <2> QED BY <2>1, ReferenceByteType
<1>2. s \in Seq(Seq(Byte)) /\ r \in Seq(Byte)
  BY <1>1
<1>3. t = Append(s, r)
  OBVIOUS
<1> HIDE DEF s, t, r
<1>4. /\ FlattenSeq(s) \in Seq(Byte)
      /\ FlattenSeq(t) = FlattenSeq(s) \o r
  BY <1>2, <1>3, FlattenAppend
<1>5. FlattenSeq(s) \o r \in Seq(Byte)
  BY <1>2, <1>4, ConcatProperties
<1> QED BY <1>4, <1>5 DEF Escaped, s, t, r

LEMMA EscapedNone == ASSUME NEW v PROVE Escaped(v, 0) = <<>>
<1>1. [k \in 1 .. 0 |-> ReferenceByte(v[k])] = <<>>
  OBVIOUS
<1> QED BY <1>1, FlattenEmpty DEF Escaped

LEMMA EscapedType ==
  ASSUME NEW v \in Seq(Byte), NEW p \in 0 .. Len(v)
  PROVE  Escaped(v, p) \in Seq(Byte)
<1>1. CASE p = 0
  <2>1. <<>> \in Seq(Byte)
    OBVIOUS
  <2> QED BY <1>1, <2>1, EscapedNone
<1>2. CASE p # 0
  <2>1. p - 1 \in Nat /\ p - 1 < Len(v) /\ (p - 1) + 1 = p
    BY <1>2, LenProperties
  <2> QED BY <2>1, EscapedNext
<1> QED BY <1>1, <1>2

(* Concatenation is associative: a form of it that names the sequences.    *)
AreTexts(a, b, c) == a \in Seq(Byte) /\ b \in Seq(Byte) /\ c \in Seq(Byte)

LEMMA TextsJoin ==
  ASSUME NEW a, NEW b, NEW c, AreTexts(a, b, c)
  PROVE  (a \o b) \o c = a \o (b \o c)
<1>1. a \in Seq(Byte) /\ b \in Seq(Byte) /\ c \in Seq(Byte)
  BY DEF AreTexts
<1> QED BY <1>1, ConcatAssociative

(* A run of bytes that need no escape is its own text.                     *)
LEMMA EscapedRun ==
  ASSUME NEW v \in Seq(Byte), NEW p \in Nat, NEW n \in Nat, p + n <= Len(v),
         \A k \in p + 1 .. p + n : ~NeedsEscape(v[k])
  PROVE  Escaped(v, p + n) = Escaped(v, p) \o SubSeq(v, p + 1, p + n)
<1> DEFINE P(m) == Escaped(v, p + m) = Escaped(v, p) \o SubSeq(v, p + 1, p + m)
           T == {m \in Nat : m <= n => P(m)}
<1>0. Len(v) \in Nat /\ Escaped(v, p) \in Seq(Byte)
  BY LenProperties, EscapedType
<1>1. 0 \in T
  <2>1. SubSeq(v, p + 1, p + 0) = <<>>
    BY SubSeqEmpty
  <2> QED BY <1>0, <2>1, ConcatEmptySeq
<1>2. ASSUME NEW m \in Nat, m \in T PROVE m + 1 \in T
  <2>0. P(m) /\ m + 1 <= n => P(m + 1)
    <3> SUFFICES ASSUME P(m), m + 1 <= n PROVE P(m + 1)
      OBVIOUS
    <3> DEFINE run == SubSeq(v, p + 1, p + m)
               b == v[(p + m) + 1]
    <3>1. Escaped(v, p + m) = Escaped(v, p) \o run
      OBVIOUS
    <3>2. b \in Byte /\ ReferenceByte(b) = <<b>>
      <4>1. (p + m) + 1 \in 1 .. Len(v) /\ (p + m) + 1 \in p + 1 .. p + n
        BY <1>0
      <4> QED BY <4>1, ElementOfSeq, ReferenceByteType
    <3>3. Escaped(v, (p + m) + 1) = Escaped(v, p + m) \o <<b>>
      <4>1. p + m \in Nat /\ p + m < Len(v)
        BY <1>0
      <4> QED BY <3>2, <4>1, EscapedNext
    <3>4. SubSeq(v, p + 1, (p + m) + 1) = run \o <<b>>
      <4>1. p + 1 \in 1 .. Len(v) /\ (p + m) + 1 \in p + 1 .. Len(v)
        BY <1>0
      <4>2. ((p + m) + 1) - 1 = p + m
        OBVIOUS
      <4> QED BY <4>1, <4>2, SubSeqRecursiveSecond
    <3>5. run \in Seq(Byte) /\ <<b>> \in Seq(Byte)
      <4>1. \A k \in p + 1 .. p + m : v[k] \in Byte
        BY <1>0, ElementOfSeq
      <4>2. run \in Seq(Byte)
        BY <4>1, SubSeqProperties
      <4> QED BY <3>2, <4>2
    <3>6. (Escaped(v, p) \o run) \o <<b>> = Escaped(v, p) \o (run \o <<b>>)
      <4>1. AreTexts(Escaped(v, p), run, <<b>>)
        BY <1>0, <3>5 DEF AreTexts
      <4> HIDE DEF P, run, b
      <4> QED BY <4>1, TextsJoin
    <3>7. p + (m + 1) = (p + m) + 1
      OBVIOUS
    <3> HIDE DEF run, b
    <3> QED BY <3>1, <3>3, <3>4, <3>6, <3>7
  <2> HIDE DEF P
  <2> QED BY <1>2, <2>0
<1>3. Nat \subseteq T
  <2> HIDE DEF T
  <2> QED BY <1>1, <1>2, Induction
<1>4. P(n)
  <2> HIDE DEF P
  <2> QED BY <1>3
<1> QED BY <1>4

(* What is written is followed by the text of the other bytes.             *)
LEMMA EscapedRest ==
  ASSUME NEW v \in Seq(Byte), NEW p \in 0 .. Len(v)
  PROVE  \E y \in Seq(Byte) : Escaped(v, Len(v)) = Escaped(v, p) \o y
<1> DEFINE P(q) == \E y \in Seq(Byte) : Escaped(v, q) = Escaped(v, p) \o y
           T == {m \in Nat : p + m <= Len(v) => P(p + m)}
<1>0. Len(v) \in Nat /\ Escaped(v, p) \in Seq(Byte) /\ p \in Nat /\ p <= Len(v)
  BY LenProperties, EscapedType
<1>1. P(p)
  <2>1. Escaped(v, p) = Escaped(v, p) \o <<>> /\ <<>> \in Seq(Byte)
    BY <1>0, ConcatEmptySeq
  <2> QED BY <2>1
<1>2. ASSUME NEW q \in Nat, q < Len(v), P(q) PROVE P(q + 1)
  <2>1. PICK y \in Seq(Byte) : Escaped(v, q) = Escaped(v, p) \o y
    BY <1>2
  <2>2. PICK r \in Seq(Byte) : r = ReferenceByte(v[q + 1])
    <3>1. v[q + 1] \in Byte
      BY <1>0, <1>2, ElementOfSeq
    <3> QED BY <3>1, ReferenceByteType
  <2>3. Escaped(v, q + 1) = (Escaped(v, p) \o y) \o r
    BY <1>2, <2>1, <2>2, EscapedNext
  <2>4. (Escaped(v, p) \o y) \o r = Escaped(v, p) \o (y \o r)
    BY <1>0, ConcatAssociative, SMTT(30)
  <2>5. y \o r \in Seq(Byte)
    BY ConcatProperties
  <2> QED BY <2>3, <2>4, <2>5
<1> HIDE DEF P
<1>3. 0 \in T
  <2>1. p + 0 = p
    BY <1>0
  <2> QED BY <1>1, <2>1
<1>4. ASSUME NEW m \in Nat, m \in T PROVE m + 1 \in T
  <2>1. PICK q \in Nat : q = p + m /\ q + 1 = p + (m + 1)
    BY <1>0
  <2>2. q < Len(v) => P(q + 1)
    BY <1>0, <1>2, <1>4, <2>1
  <2> QED BY <1>0, <2>1, <2>2
<1>5. Nat \subseteq T
  <2> HIDE DEF T
  <2> QED BY <1>3, <1>4, Induction
<1>6. PICK m \in Nat : p + m = Len(v)
  <2>1. Len(v) - p \in Nat /\ p + (Len(v) - p) = Len(v)
    BY <1>0
  <2> QED BY <2>1
<1>7. P(Len(v))
  BY <1>5, <1>6, SMTT(30)
<1> QED BY <1>7 DEF P

(* The bytes that packing counts for a string are those of its text.       *)
LEMMA CountedIsText ==
  ASSUME NEW v \in Seq(Byte)
  PROVE  AnalyzedSize(v) = Len(Escaped(v, Len(v))) + 2
<1>1. PICK n \in Nat : n = Len(v)
  BY LenProperties
<1> DEFINE Solves(f) == f = [k \in 0 .. n |-> IF k = 0 THEN n + 2
                                             ELSE f[k - 1] + Extra(v[k])]
           len == [k \in 0 .. n |-> Len(Escaped(v, k))]
           sizes == [k \in 0 .. n |-> n + 2 + len[k] - k]
<1>2. \A k \in 0 .. n : len[k] \in Nat
  BY <1>1, EscapedType, LenProperties
<1>3. \A k \in 1 .. n : Extra(v[k]) \in Nat
  BY DEF Extra
<1>4. len[0] = 0
  BY EscapedNone, EmptySeq
<1>5. ASSUME NEW k \in 1 .. n PROVE len[k] = len[k - 1] + 1 + Extra(v[k])
  <2>1. PICK p \in Nat : p = k - 1 /\ p + 1 = k /\ p < Len(v)
    BY <1>1
  <2>2. v[k] \in Byte
    BY <1>1, ElementOfSeq
  <2>3. PICK r \in Seq(Byte) : r = ReferenceByte(v[k]) /\ Len(r) = 1 + Extra(v[k])
    BY <2>2, ReferenceByteType
  <2>4. PICK e \in Seq(Byte) : e = Escaped(v, p) /\ Escaped(v, k) = e \o r
    <3>1. /\ Escaped(v, p) \in Seq(Byte)
          /\ Escaped(v, p + 1) = Escaped(v, p) \o ReferenceByte(v[p + 1])
      BY <2>1, EscapedNext
    <3> QED BY <2>1, <2>3, <3>1
  <2>5. Len(e \o r) = Len(e) + Len(r) /\ Len(e) \in Nat
    BY ConcatProperties, LenProperties
  <2>6. p \in 0 .. n /\ k \in 0 .. n
    BY <1>1, <2>1
  <2>7. len[p] = Len(e) /\ len[k] = Len(e \o r)
    BY <2>4, <2>6
  <2> HIDE DEF len
  <2> QED BY <1>3, <2>1, <2>3, <2>5, <2>7
<1> HIDE DEF len
<1>6. ASSUME NEW k \in 0 .. n
      PROVE  sizes[k] = IF k = 0 THEN n + 2 ELSE sizes[k - 1] + Extra(v[k])
  <2>1. CASE k = 0
    BY <1>4, <2>1
  <2>2. CASE k # 0
    <3>1. k \in 1 .. n /\ k - 1 \in 0 .. n
      BY <2>2
    <3> QED BY <1>2, <1>3, <1>5, <2>2, <3>1, SMTT(30)
  <2> QED BY <2>1, <2>2
<1>7. Solves(sizes)
  BY <1>6
<1>8. PICK g : g = CHOOSE f : Solves(f)
  OBVIOUS
<1>9. Solves(g)
  <2> HIDE DEF Solves, sizes
  <2> QED BY <1>7, <1>8
<1>10. AnalyzedSize(v) = g[n]
  BY <1>1, <1>8 DEF AnalyzedSize
<1> DEFINE T == {m \in Nat : m <= n => g[m] = sizes[m]}
<1>11. 0 \in T
  <2>1. 0 \in 0 .. n
    OBVIOUS
  <2>2. g[0] = n + 2
    BY <1>9, <2>1
  <2>3. sizes[0] = n + 2
    BY <1>6, <2>1
  <2> HIDE DEF sizes
  <2> QED BY <2>2, <2>3
<1>12. ASSUME NEW m \in Nat, m \in T PROVE m + 1 \in T
  <2>1. PICK k \in Nat : k = m + 1 /\ k # 0 /\ k - 1 = m
    OBVIOUS
  <2>2. k <= n => g[k] = g[k - 1] + Extra(v[k])
    BY <1>9, <2>1
  <2>3. k <= n => sizes[k] = sizes[k - 1] + Extra(v[k])
    BY <1>6, <2>1
  <2> HIDE DEF sizes
  <2> QED BY <1>12, <2>1, <2>2, <2>3
<1>13. Nat \subseteq T
  <2> HIDE DEF T
  <2> QED BY <1>11, <1>12, Induction
<1>14. g[n] = n + 2 + len[n] - n
  <2>1. g[n] = sizes[n]
    <3> HIDE DEF sizes
    <3> QED BY <1>13
  <2>2. n \in 0 .. n
    OBVIOUS
  <2> QED BY <2>1, <2>2
<1> QED BY <1>1, <1>2, <1>10, <1>14 DEF len

-----------------------------------------------------------------------------
(* What has been written when the first p bytes are.                       *)
Text(v, p) == <<Quote>> \o Escaped(v, p)

LEMMA QuoteType == <<Quote>> \in Seq(Byte) /\ Len(<<Quote>>) = 1
BY DEF Quote, Byte

LEMMA TextBegins ==
  ASSUME NEW v PROVE Text(v, 0) = <<Quote>>
BY QuoteType, EscapedNone, ConcatEmptySeq DEF Text

(* From p to q the text of v grows by s.                                   *)
GrowsBy(v, p, q, s) ==
  /\ v \in Seq(Byte) /\ p \in 0 .. Len(v) /\ s \in Seq(Byte)
  /\ Escaped(v, q) = Escaped(v, p) \o s

LEMMA TextGrows ==
  ASSUME NEW v, NEW p, NEW q, NEW s, GrowsBy(v, p, q, s)
  PROVE  Text(v, p) \in Seq(Byte) /\ Text(v, q) = Text(v, p) \o s
<1>0. /\ v \in Seq(Byte) /\ p \in 0 .. Len(v) /\ s \in Seq(Byte)
      /\ Escaped(v, q) = Escaped(v, p) \o s
  BY DEF GrowsBy
<1>1. PICK e \in Seq(Byte) : e = Escaped(v, p)
  BY <1>0, EscapedType
<1>2. PICK quote \in Seq(Byte) : quote = <<Quote>>
  BY QuoteType
<1>3. (quote \o e) \o s = quote \o (e \o s)
  <2>1. AreTexts(quote, e, s)
    BY <1>0 DEF AreTexts
  <2> QED BY <2>1, TextsJoin
<1>4. quote \o e \in Seq(Byte)
  BY ConcatProperties
<1> QED BY <1>0, <1>1, <1>2, <1>3, <1>4 DEF Text

(* It begins the text of the string, which has a byte more at least.       *)
LEMMA TextOfString ==
  ASSUME NEW v \in Seq(Byte), NEW p \in 0 .. Len(v)
  PROVE  /\ Text(v, p) \in Seq(Byte)
         /\ ReferenceString(v) \in Seq(Byte)
         /\ Len(ReferenceString(v)) = AnalyzedSize(v)
         /\ ReferenceString(v) = Text(v, Len(v)) \o <<Quote>>
         /\ \E y \in Seq(Byte) : ReferenceString(v) = Text(v, p) \o y
<1>1. Len(v) \in Nat /\ Len(v) \in 0 .. Len(v)
  BY LenProperties
<1>2. PICK e \in Seq(Byte) : e = Escaped(v, p)
  BY EscapedType
<1>3. PICK a \in Seq(Byte) : a = Escaped(v, Len(v))
  BY <1>1, EscapedType
<1>4. PICK q \in Seq(Byte) : q = <<Quote>> /\ Len(q) = 1
  BY QuoteType
<1>5. PICK r \in Seq(Byte) : a = e \o r
  BY <1>2, <1>3, EscapedRest
<1>6. ReferenceString(v) = (q \o a) \o q
  BY <1>3, <1>4 DEF ReferenceString, Escaped
<1>7. /\ q \o a \in Seq(Byte) /\ Len(q \o a) = 1 + Len(a)
      /\ q \o e \in Seq(Byte) /\ r \o q \in Seq(Byte)
  BY <1>4, ConcatProperties
<1>8. (q \o a) \o q \in Seq(Byte) /\ Len((q \o a) \o q) = (1 + Len(a)) + 1
  BY <1>4, <1>7, ConcatProperties
<1>9. (q \o (e \o r)) \o q = (q \o e) \o (r \o q)
  <2>1. AreTexts(q, e, r)
    BY DEF AreTexts
  <2>2. (q \o e) \o r = q \o (e \o r)
    BY <2>1, TextsJoin
  <2>3. PICK t \in Seq(Byte) : t = q \o e
    BY <1>7
  <2>4. AreTexts(t, r, q)
    BY DEF AreTexts
  <2>5. (t \o r) \o q = t \o (r \o q)
    BY <2>4, TextsJoin
  <2> QED BY <2>2, <2>3, <2>5
<1>10. Len(a) \in Nat /\ AnalyzedSize(v) = Len(a) + 2
  BY <1>3, CountedIsText, LenProperties
<1>11. Text(v, p) = q \o e /\ Text(v, Len(v)) = q \o a
  BY <1>2, <1>3, <1>4 DEF Text
<1>12. ReferenceString(v) = Text(v, p) \o (r \o q)
  BY <1>5, <1>6, <1>9, <1>11
<1>13. Text(v, p) \in Seq(Byte) /\ r \o q \in Seq(Byte)
  BY <1>7, <1>11
<1>14. ReferenceString(v) \in Seq(Byte) /\ Len(ReferenceString(v)) = AnalyzedSize(v)
  BY <1>6, <1>8, <1>10
<1>15. ReferenceString(v) = Text(v, Len(v)) \o <<Quote>>
  BY <1>4, <1>6, <1>11
<1> QED BY <1>12, <1>13, <1>14, <1>15

-----------------------------------------------------------------------------
(* While the status is OK the output is the text of the bytes before the   *)
(* position; from the write on that did not fit, it is what it was before  *)
(* that write, and the text of the string has more bytes than there is     *)
(* room for.                                                               *)
PlainFits == writer = "plain" => AnalyzedPlain(value)

Refused ==
  /\ AnalyzedSize(value) > cap
  /\ \E y \in Seq(Byte) : ReferenceString(value) = out \o y

TextInv ==
  /\ pc = "start" => out = <<>> /\ status = "OK"
  /\ PlainFits =>
       /\ status = "OK" =>
            /\ pc \notin {"start", "done"} => out = Text(value, pos)
            /\ pc = "close" => pos = Len(value)
            /\ pc = "done" => out = ReferenceString(value)
       /\ status # "OK" => Refused

(* A write of the bytes x, which the text of the string has next.          *)
LEMMA LiteralText ==
  ASSUME IInv, UNCHANGED <<value, cap>>, NEW x \in Seq(Byte), Literal(x),
         status # "OK" => Refused,
         NEW y \in Seq(Byte), status = "OK" => ReferenceString(value) = (out \o x) \o y
  PROVE  /\ status' = "OK" => status = "OK" /\ out' = out \o x
         /\ status' # "OK" => Refused'
<1>1. /\ value \in Seq(Byte) /\ out \in Seq(Byte) /\ cap \in Nat
      /\ Len(value) \in Nat
  BY LenProperties DEF IInv, TypeOK
<1>2. CASE status = "OK" /\ Len(x) <= cap - Len(out)
  BY <1>2 DEF Literal
<1>3. CASE status = "OK" /\ ~(Len(x) <= cap - Len(out))
  <2>1. status' = "NO_SPACE" /\ out' = out
    BY <1>3 DEF Literal
  <2>2. ReferenceString(value) = out \o (x \o y)
    <3>1. AreTexts(out, x, y)
      BY <1>1 DEF AreTexts
    <3>2. (out \o x) \o y = out \o (x \o y)
      BY <3>1, TextsJoin
    <3>3. ReferenceString(value) = (out \o x) \o y
      BY <1>3
    <3> QED BY <3>2, <3>3
  <2>3. x \o y \in Seq(Byte) /\ Len(x \o y) = Len(x) + Len(y)
    BY ConcatProperties
  <2>4. Len(ReferenceString(value)) = Len(out) + (Len(x) + Len(y))
    BY <1>1, <2>2, <2>3, ConcatProperties
  <2>5. Len(out) \in Nat /\ Len(x) \in Nat /\ Len(y) \in Nat
    BY <1>1, LenProperties
  <2>6. AnalyzedSize(value) = Len(ReferenceString(value))
    <3>1. 0 \in 0 .. Len(value)
      BY <1>1
    <3> QED BY <1>1, <3>1, TextOfString
  <2>7. AnalyzedSize(value) > cap
    BY <1>1, <1>3, <2>4, <2>5, <2>6
  <2>8. Refused'
    BY <2>1, <2>2, <2>3, <2>7 DEF Refused
  <2> QED BY <2>1, <2>8
<1>4. CASE status # "OK"
  <2>1. status' = "NO_SPACE" /\ out' = out
    BY <1>4 DEF Literal
  <2>2. Refused'
    BY <1>4, <2>1 DEF Refused
  <2> QED BY <2>1, <2>2
<1> QED BY <1>2, <1>3, <1>4

(* A write that goes from the text of pos bytes to that of p.              *)
LEMMA GrowText ==
  ASSUME IInv, TextInv, PlainFits, UNCHANGED <<value, writer, cap>>,
         NEW x \in Seq(Byte), Literal(x), NEW p \in 0 .. Len(value), pos' = p,
         status = "OK" => Text(value, p) = out \o x,
         pc # "start", pc # "done",
         pc' \notin {"start", "done"},
         pc' = "close" => (p = Len(value) \/ status' # "OK")
  PROVE  TextInv'
<1>1. value \in Seq(Byte)
  BY DEF IInv, TypeOK
<1>2. PICK y \in Seq(Byte) : ReferenceString(value) = Text(value, p) \o y
  BY <1>1, TextOfString
<1>3. /\ status' = "OK" => status = "OK" /\ out' = out \o x
      /\ status' # "OK" => Refused'
  <2>1. status = "OK" => ReferenceString(value) = (out \o x) \o y
    BY <1>2
  <2>2. status # "OK" => Refused
    BY DEF TextInv
  <2> QED BY <2>1, <2>2, LiteralText
<1>4. status' = "OK" => out' = Text(value', pos')
  BY <1>3
<1> QED BY <1>3, <1>4 DEF TextInv

LEMMA TextInitially == Init => TextInv
BY DEF Init, TextInv

LEMMA TextStep ==
  ASSUME IInv, TextInv, [Next]_vars
  PROVE  TextInv'
<1>0. pc' = "start" => out' = <<>> /\ status' = "OK"
  <2>1. CASE UNCHANGED vars
    BY <2>1 DEF vars, TextInv
  <2>2. CASE Next
    <3>1. pc' # "start"
      BY <2>2 DEF Next, Start, BlockFound, BlockClear, BlocksDone, TailClear,
                  TailDone, CopyRun, EscapeByte, Close, NextRun, Scan
    <3> QED BY <3>1
  <2> QED BY <2>1, <2>2
<1> SUFFICES ASSUME PlainFits' PROVE TextInv'
  BY <1>0 DEF TextInv
<1>1. /\ pos \in Nat /\ i \in Nat /\ Len(value) \in Nat
      /\ pos + i <= Len(value) /\ Remaining = Len(value) - pos
      /\ value \in Seq(Byte) /\ out \in Seq(Byte)
  BY Positions DEF IInv, TypeOK
<1>2. CASE UNCHANGED vars
  BY <1>2 DEF vars, TextInv, PlainFits, Refused
<1>3. CASE BlockFound \/ BlockClear \/ BlocksDone \/ TailClear \/ TailDone
  <2>1. /\ UNCHANGED <<value, writer, pos, out, cap, status>>
        /\ pc \notin {"start", "done"} /\ pc' \in {"block", "tail", "copy"}
    BY <1>3 DEF BlockFound, BlockClear, BlocksDone, TailClear, TailDone
  <2> QED BY <2>1 DEF TextInv, PlainFits, Refused
<1>4. CASE Start
  <2>1. /\ Literal(<<Quote>>) /\ UNCHANGED <<value, writer, pos, cap>>
        /\ pos = 0 /\ out = <<>> /\ status = "OK"
        /\ pc' = IF writer = "plain" THEN "copy" ELSE NextRun(status', pos)
    BY <1>4 DEF Start, IInv, ScanInv, TextInv
  <2>2. <<>> \o <<Quote>> = <<Quote>>
    BY QuoteType, ConcatEmptySeq
  <2>3. PICK y \in Seq(Byte) : ReferenceString(value) = <<Quote>> \o y
    <3>1. 0 \in 0 .. Len(value)
      BY <1>1
    <3>2. PICK y \in Seq(Byte) : ReferenceString(value) = Text(value, 0) \o y
      BY <1>1, <3>1, TextOfString
    <3>3. Text(value, 0) = <<Quote>>
      BY TextBegins
    <3> QED BY <3>2, <3>3
  <2>4. /\ status' = "OK" => out' = <<Quote>>
        /\ status' # "OK" => Refused'
    <3>1. <<Quote>> \in Seq(Byte) /\ ReferenceString(value) = (out \o <<Quote>>) \o y
      BY <2>1, <2>2, <2>3, QuoteType
    <3>2. PICK x \in Seq(Byte) : x = <<Quote>>
      BY <3>1
    <3>3. Literal(x) /\ ReferenceString(value) = (out \o x) \o y
      BY <2>1, <3>1, <3>2
    <3>4. UNCHANGED <<value, cap>>
      BY <2>1
    <3> QED BY <2>1, <2>2, <3>2, <3>3, <3>4, LiteralText
  <2>5. Text(value', pos') = <<Quote>>
    BY <2>1, TextBegins
  <2>6. /\ pc' \in {"copy", "block", "tail", "close"}
        /\ pc' = "close" /\ status' = "OK" => pos = Len(value)
    BY <1>1, <2>1 DEF NextRun, Scan
  <2> QED BY <2>1, <2>4, <2>5, <2>6 DEF TextInv
<1>5. CASE CopyRun
  <2>1. /\ pc = "copy" /\ Literal(Run) /\ UNCHANGED <<value, writer, cap>>
        /\ pos' = pos + i
        /\ pc' = IF pos' = Len(value) THEN "close" ELSE "escape"
    BY <1>5 DEF CopyRun
  <2>2. PlainFits
    BY <2>1 DEF PlainFits
  <2>3. \A k \in pos + 1 .. pos + i : ~NeedsEscape(value[k])
    <3> SUFFICES ASSUME NEW k \in pos + 1 .. pos + i PROVE ~NeedsEscape(value[k])
      OBVIOUS
    <3>1. CASE writer = "plain"
      <4>1. k \in 1 .. Len(value)
        BY <1>1
      <4> QED BY <2>2, <3>1, <4>1 DEF PlainFits, AnalyzedPlain
    <3>2. CASE writer # "plain"
      <4>1. PICK j \in 0 .. i - 1 : pos + j + 1 = k
        <5>1. k - (pos + 1) \in 0 .. i - 1 /\ pos + (k - (pos + 1)) + 1 = k
          BY <1>1
        <5> QED BY <5>1
      <4>2. ~NeedsEscape(At(j))
        BY <2>1, <3>2 DEF IInv, RunsAreSafe
      <4> QED BY <4>1, <4>2 DEF At
    <3> QED BY <3>1, <3>2
  <2>4. PICK run \in Seq(Byte) : run = Run
    <3>1. \A k \in pos + 1 .. pos + i : value[k] \in Byte
      BY <1>1, ElementOfSeq
    <3>2. SubSeq(value, pos + 1, pos + i) \in Seq(Byte)
      BY <1>1, <3>1, SubSeqProperties
    <3> QED BY <3>2 DEF Run
  <2>5. Escaped(value, pos + i) = Escaped(value, pos) \o run
    BY <1>1, <2>3, <2>4, EscapedRun DEF Run
  <2>6. Text(value, pos + i) = Text(value, pos) \o run
    <3>1. GrowsBy(value, pos, pos + i, run)
      BY <1>1, <2>5 DEF GrowsBy
    <3> QED BY <3>1, TextGrows
  <2>7. status = "OK" => Text(value, pos + i) = out \o run
    BY <2>1, <2>2, <2>6 DEF TextInv
  <2>8. PICK p \in 0 .. Len(value) : p = pos + i
    BY <1>1
  <2>9. Literal(run)
    BY <2>1, <2>4
  <2>10. pc' = "close" => (p = Len(value) \/ status' # "OK")
    BY <2>1, <2>8
  <2>11. pc' \notin {"start", "done"} /\ pc # "start" /\ pc # "done" /\ pos' = p
    BY <2>1, <2>8
  <2>12. UNCHANGED <<value, writer, cap>> /\ (status = "OK" => Text(value, p) = out \o run)
    BY <2>1, <2>7, <2>8
  <2> QED BY <2>2, <2>9, <2>10, <2>11, <2>12, GrowText
<1>6. CASE EscapeByte
  <2>1. /\ pc = "escape" /\ Literal(Escape(At(0)))
        /\ UNCHANGED <<value, writer, cap>>
        /\ pos' = pos + 1 /\ pc' = NextRun(status', pos')
    BY <1>6 DEF EscapeByte
  <2>2. PlainFits
    BY <2>1 DEF PlainFits
  <2>3. pos < Len(value) /\ NeedsEscape(value[pos + 1]) /\ value[pos + 1] \in Byte
    <3>1. pos < Len(value) /\ NeedsEscape(At(0))
      BY <2>1 DEF IInv, RunsAreSafe
    <3>2. At(0) = value[pos + 1]
      BY <1>1 DEF At
    <3>3. pos + 1 \in 1 .. Len(value)
      BY <1>1, <3>1
    <3> QED BY <1>1, <3>1, <3>2, <3>3, ElementOfSeq
  <2>4. PICK x \in Seq(Byte) : x = Escape(At(0)) /\ x = ReferenceByte(value[pos + 1])
    <3>1. At(0) = value[pos + 1]
      BY <1>1 DEF At
    <3> QED BY <2>3, <3>1, ReferenceByteType
  <2>5. Escaped(value, pos + 1) = Escaped(value, pos) \o x
    BY <1>1, <2>3, <2>4, EscapedNext
  <2>6. Text(value, pos + 1) = Text(value, pos) \o x
    <3>1. GrowsBy(value, pos, pos + 1, x)
      BY <1>1, <2>5 DEF GrowsBy
    <3> QED BY <3>1, TextGrows
  <2>7. PICK p \in 0 .. Len(value) : p = pos + 1
    BY <1>1, <2>3
  <2>8. status = "OK" => Text(value, p) = out \o x
    BY <2>1, <2>2, <2>6, <2>7 DEF TextInv
  <2>9. Literal(x)
    BY <2>1, <2>4
  <2>10. /\ pc' = "close" => (p = Len(value) \/ status' # "OK")
         /\ pc' \notin {"start", "done"}
    BY <1>1, <2>1, <2>7 DEF NextRun, Scan
  <2>11. UNCHANGED <<value, writer, cap>> /\ pos' = p /\ pc # "start" /\ pc # "done"
    BY <2>1, <2>7
  <2> QED BY <2>2, <2>8, <2>9, <2>10, <2>11, GrowText
<1>7. CASE Close
  <2>1. /\ pc = "close" /\ pc' = "done" /\ Literal(<<Quote>>)
        /\ UNCHANGED <<value, writer, cap>>
    BY <1>7 DEF Close
  <2>2. PlainFits
    BY <2>1 DEF PlainFits
  <2>3. status = "OK" => out \o <<Quote>> = ReferenceString(value)
    <3>1. status = "OK" => out = Text(value, Len(value))
      BY <2>1, <2>2 DEF TextInv
    <3>2. Len(value) \in 0 .. Len(value)
      BY <1>1
    <3>3. ReferenceString(value) = Text(value, Len(value)) \o <<Quote>>
      BY <1>1, <3>2, TextOfString
    <3> QED BY <3>1, <3>3
  <2>4. PICK x \in Seq(Byte) : x = <<Quote>>
    BY QuoteType
  <2>5. PICK y \in Seq(Byte) : y = <<>>
    BY EmptySeq
  <2>6. status = "OK" => ReferenceString(value) = (out \o x) \o y
    <3>1. out \o x \in Seq(Byte)
      BY <1>1, ConcatProperties
    <3>2. (out \o x) \o y = out \o x
      BY <2>5, <3>1, ConcatEmptySeq
    <3> QED BY <2>3, <2>4, <3>2
  <2>7. Literal(x) /\ UNCHANGED <<value, cap>> /\ (status # "OK" => Refused)
    BY <2>1, <2>2, <2>4 DEF TextInv
  <2>8. /\ status' = "OK" => status = "OK" /\ out' = out \o x
        /\ status' # "OK" => Refused'
    BY <2>6, <2>7, LiteralText
  <2>9. status' = "OK" => out' = ReferenceString(value')
    BY <2>1, <2>3, <2>4, <2>8
  <2> QED BY <2>1, <2>8, <2>9 DEF TextInv
<1> QED BY <1>2, <1>3, <1>4, <1>5, <1>6, <1>7 DEF Next

(* Every writer writes the text of the reference encoder, byte for byte,   *)
(* if the output has room for the bytes that packing counted, and a proper *)
(* beginning of it and an error if it has not: for strings of any length,  *)
(* vectors of any width and outputs of any size (packed.go:384-405,        *)
(* reference.go:121-152, writer_linux_amd64.c:32-51, 98-157).              *)
THEOREM StringsAsReference == Safe => []WritesReference
<1>1. IInv /\ TextInv /\ StaysInside => WritesReference
  <2> SUFFICES ASSUME IInv, TextInv, StaysInside, pc = "done", PlainFits
               PROVE  /\ status = "OK" <=> AnalyzedSize(value) <= cap
                      /\ status = "OK" => out = ReferenceString(value)
                      /\ IsPrefix(out, ReferenceString(value))
    BY DEF WritesReference, PlainFits
  <2>1. /\ value \in Seq(Byte) /\ out \in Seq(Byte) /\ cap \in Nat
        /\ Len(value) \in Nat
    BY LenProperties DEF IInv, TypeOK
  <2>2. /\ ReferenceString(value) \in Seq(Byte)
        /\ Len(ReferenceString(value)) = AnalyzedSize(value)
    <3>1. 0 \in 0 .. Len(value)
      BY <2>1
    <3> QED BY <2>1, <3>1, TextOfString
  <2>3. CASE status = "OK"
    <3>1. out = ReferenceString(value) /\ Len(out) <= cap
      BY <2>3 DEF TextInv, StaysInside
    <3> QED BY <2>1, <2>2, <2>3, <3>1 DEF IsPrefix
  <2>4. CASE status # "OK"
    <3>1. AnalyzedSize(value) > cap
      BY <2>4 DEF TextInv, Refused
    <3>2. PICK y \in Seq(Byte) : ReferenceString(value) = out \o y
      BY <2>4 DEF TextInv, Refused
    <3>3. IsPrefix(out, out \o y)
      <4>1. SubSeq(out \o y, 1, Len(out)) = out
        BY <2>1, ConcatProperties, SubSeqProperties, LenProperties
      <4>2. SubSeq(out, 1, Len(out)) = out
        BY <2>1, SubSeqFull
      <4>3. Len(out) <= Len(out \o y)
        BY <2>1, ConcatProperties, LenProperties
      <4> QED BY <4>1, <4>2, <4>3 DEF IsPrefix
    <3>4. AnalyzedSize(value) \in Nat
      BY <2>2, LenProperties
    <3> QED BY <2>1, <2>4, <3>1, <3>2, <3>3, <3>4
  <2> QED BY <2>3, <2>4
<1>2. Safe => [](IInv /\ TextInv)
  BY Initially, Step, TextInitially, TextStep, PTL DEF Safe
<1> QED BY <1>1, <1>2, WritesStayInside, PTL
=============================================================================
