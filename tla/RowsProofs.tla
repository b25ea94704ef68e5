----------------------------- MODULE RowsProofs ------------------------------
(***************************************************************************)
(* Proofs about rows: what the native encoder does with rows that nobody   *)
(* checked before (NativeRows), and what packing puts into them (PackBatch *)
(* and Pipeline), for any number of orders, items and string bytes, any    *)
(* capacity and any number of calls.                                       *)
(*                                                                         *)
(* Texts play no part in it.  What matters of a writer is its status,      *)
(* which becomes an error at any write, never OK again, and is OK in the   *)
(* end only if every reference and every range was inside.  What matters   *)
(* of packing is where the strings and the items of an order are once the  *)
(* arrays have grown further.                                              *)
(***************************************************************************)
EXTENDS NativeRows, Pipeline, RecursionLemmas

-----------------------------------------------------------------------------
(* The native encoder.                                                     *)

Statuses == {"OK", "NO_SPACE", "INVALID_ARGUMENT"}

IsWriter(x) ==
  /\ x = [text |-> x.text, cap |-> x.cap, status |-> x.status]
  /\ x.status \in Statuses

(* y is a writer some time after x.                                        *)
Follows(x, y) ==
  /\ IsWriter(x)
  /\ IsWriter(y)
  /\ y.cap = x.cap
  /\ Stopped(x) => Stopped(y)

(* Doing nothing follows; and following goes on along a sequence of        *)
(* writes.                                                                 *)
LEMMA FollowsItself ==
  ASSUME NEW x, IsWriter(x)
  PROVE  Follows(x, x)
BY DEF Follows

LEMMA FollowsFurther ==
  ASSUME NEW x, NEW y, NEW z, Follows(x, y), Follows(y, z)
  PROVE  Follows(x, z)
BY DEF Follows

(* A literal: OK in the end only if it was OK before, and an error stays.  *)
LEMMA LiteralFollows ==
  ASSUME NEW x, IsWriter(x), NEW text
  PROVE  Follows(x, Literal(x, text))
<1>1. x = [text |-> x.text, cap |-> x.cap, status |-> x.status] /\ x.status \in Statuses
  BY DEF IsWriter
<1>2. PICK t, c, s : x = [text |-> t, cap |-> c, status |-> s] /\ s \in Statuses
  BY <1>1
<1>3. PICK y : y = Literal(x, text)
  OBVIOUS
<1>4. CASE Stopped(x)
  <2>1. y = x
    BY <1>3, <1>4 DEF Literal
  <2> QED BY <1>3, <2>1, FollowsItself
<1>5. CASE ~Stopped(x) /\ ~Fits(x, Len(text))
  <2>1. y = [x EXCEPT !.status = "NO_SPACE"]
    BY <1>3, <1>5 DEF Literal
  <2>2. y = [text |-> t, cap |-> c, status |-> "NO_SPACE"]
    BY <1>2, <2>1
  <2>3. y.text = t /\ y.cap = c /\ y.status = "NO_SPACE" /\ x.cap = c
    BY <1>2, <2>2
  <2> QED BY <1>3, <1>5, <2>2, <2>3 DEF Follows, IsWriter, Statuses, Stopped
<1>6. CASE ~Stopped(x) /\ Fits(x, Len(text))
  <2>1. y = [x EXCEPT !.text = @ \o text]
    BY <1>3, <1>6 DEF Literal
  <2>2. PICK u : u = t \o text
    BY Zenon
  <2>3. y = [text |-> u, cap |-> c, status |-> s]
    BY <1>2, <2>1, <2>2, Zenon
  <2>4. y.text = u /\ y.cap = c /\ y.status = s /\ x.cap = c /\ x.status = s
    BY <1>2, <2>3
  <2> QED BY <1>2, <1>3, <1>6, <2>3, <2>4 DEF Follows, IsWriter, Statuses, Stopped
<1> QED BY <1>4, <1>5, <1>6

LEMMA InvalidFollows ==
  ASSUME NEW x, IsWriter(x)
  PROVE  Follows(x, Invalid(x)) /\ Stopped(Invalid(x))
<1>1. PICK t, c, s : x = [text |-> t, cap |-> c, status |-> s] /\ s \in Statuses
  BY DEF IsWriter
<1>2. PICK y : y = Invalid(x)
  OBVIOUS
<1>3. y = [text |-> t, cap |-> c, status |-> "INVALID_ARGUMENT"]
  BY <1>1, <1>2 DEF Invalid
<1>4. y.text = t /\ y.cap = c /\ y.status = "INVALID_ARGUMENT" /\ x.cap = c
  BY <1>1, <1>3
<1> QED BY <1>2, <1>3, <1>4 DEF Follows, IsWriter, Statuses, Stopped

-----------------------------------------------------------------------------
(* write_escaped.                                                          *)
LEMMA TurnFollows ==
  ASSUME NEW s, IsWriter(s.w), s = [w |-> s.w, left |-> s.left]
  PROVE  /\ EscapeTurn(s) = [w |-> EscapeTurn(s).w, left |-> EscapeTurn(s).left]
         /\ Follows(s.w, EscapeTurn(s).w)
<1>1. PICK r : r = EscapeTurn(s)
  OBVIOUS
<1>2. PICK x, left : x = s.w /\ left = s.left
  OBVIOUS
<1>3. PICK run, byte, rest :
        /\ run = RawText(SafeRun(left))
        /\ byte = Escaped(left[Len(SafeRun(left)) + 1])
        /\ rest = SubSeq(left, Len(SafeRun(left)) + 2, Len(left))
  BY Zenon
<1>4. PICK copied : copied = Literal(x, run) /\ Follows(x, copied)
  BY <1>2, LiteralFollows
<1>5. PICK escaped : escaped = Literal(copied, byte) /\ Follows(x, escaped)
  BY <1>4, LiteralFollows, FollowsFurther DEF Follows
<1>6. \/ r = s
      \/ r = [w |-> copied, left |-> <<>>]
      \/ r = [w |-> escaped, left |-> rest]
  BY <1>1, <1>2, <1>3, <1>4, <1>5 DEF EscapeTurn
<1>7. CASE r = s
  BY <1>1, <1>7, FollowsItself
<1>8. CASE r = [w |-> copied, left |-> <<>>]
  BY <1>1, <1>2, <1>4, <1>8
<1>9. CASE r = [w |-> escaped, left |-> rest]
  BY <1>1, <1>2, <1>5, <1>9
<1> QED BY <1>1, <1>6, <1>7, <1>8, <1>9

Turns(after, n, x, value) ==
  /\ after = [k \in 0 .. n |-> after[k]]
  /\ after[0] = [w |-> x, left |-> value]
  /\ \A k \in 1 .. n : after[k] = EscapeTurn(after[k - 1])

LEMMA TurnsExist ==
  ASSUME NEW n \in Nat, NEW x, NEW value
  PROVE  \E after : Turns(after, n, x, value)
<1> DEFINE T == {m \in Nat : \E after : Turns(after, m, x, value)}
<1>1. 0 \in T
  <2>1. PICK g : g = [k \in 0 .. 0 |-> [w |-> x, left |-> value]]
    BY Zenon
  <2>2. Turns(g, 0, x, value)
    BY <2>1 DEF Turns
  <2> QED BY <2>2
<1>2. ASSUME NEW m \in Nat, m \in T PROVE m + 1 \in T
  <2>1. PICK g : Turns(g, m, x, value)
    BY <1>2
  <2>0. PICK z : z = EscapeTurn(g[m])
    OBVIOUS
  <2>2. PICK h : Extends(h, g, m, z)
    BY OneMore
  <2>3. ASSUME NEW k \in 1 .. m + 1 PROVE h[k] = EscapeTurn(h[k - 1])
    <3>1. CASE k \in 1 .. m
      <4>1. k \in 0 .. m /\ k - 1 \in 0 .. m
        BY <3>1
      <4> QED BY <2>1, <2>2, <3>1, <4>1, Zenon DEF Turns, Extends
    <3>2. CASE k = m + 1
      <4>1. k - 1 = m /\ m \in 0 .. m
        BY <3>2
      <4> QED BY <2>0, <2>2, <3>2, <4>1, Zenon DEF Extends
    <3>3. k \in 1 .. m \/ k = m + 1
      OBVIOUS
    <3> QED BY <3>1, <3>2, <3>3
  <2>4. 0 \in 0 .. m
    OBVIOUS
  <2>5. Turns(h, m + 1, x, value)
    BY <2>1, <2>2, <2>3, <2>4, Zenon DEF Turns, Extends
  <2> QED BY <2>5
<1>3. Nat \subseteq T
  <2> HIDE DEF T
  <2> QED BY <1>1, <1>2, Induction
<1> QED BY <1>3

LEMMA WriteRunsTurns ==
  ASSUME NEW x, NEW value, NEW n \in Nat, n = Len(value)
  PROVE  \E after : Turns(after, n, x, value) /\ WriteRuns(x, value) = after[n].w
<1> DEFINE Solves(f) ==
      f = [k \in 0 .. n |-> IF k = 0 THEN [w |-> x, left |-> value]
                            ELSE EscapeTurn(f[k - 1])]
<1>1. PICK g : Turns(g, n, x, value)
  BY TurnsExist, Zenon
<1>2. Solves(g)
  <2>1. ASSUME NEW k \in 0 .. n
        PROVE  g[k] = IF k = 0 THEN [w |-> x, left |-> value]
                      ELSE EscapeTurn(g[k - 1])
    <3>1. CASE k = 0
      BY <1>1, <3>1 DEF Turns
    <3>2. CASE k # 0
      <4>1. k \in 1 .. n
        BY <3>2
      <4> QED BY <1>1, <3>2, <4>1, Zenon DEF Turns
    <3> QED BY <3>1, <3>2
  <2>2. g = [k \in 0 .. n |-> g[k]]
    BY <1>1 DEF Turns
  <2> QED BY <2>1, <2>2, Zenon
<1>3. PICK f : f = CHOOSE h : Solves(h)
  OBVIOUS
<1>4. Solves(f)
  <2> HIDE DEF Solves
  <2> QED BY <1>2, <1>3
<1>5. WriteRuns(x, value) = f[n].w
  BY <1>3 DEF WriteRuns
<1>6. Turns(f, n, x, value)
  <2>1. \A k \in 0 .. n : f[k] = IF k = 0 THEN [w |-> x, left |-> value]
                                 ELSE EscapeTurn(f[k - 1])
    BY <1>4, Zenon
  <2>2. f = [k \in 0 .. n |-> f[k]]
    BY <1>4
  <2>3. f[0] = [w |-> x, left |-> value]
    BY <2>1
  <2>4. \A k \in 1 .. n : f[k] = EscapeTurn(f[k - 1])
    BY <2>1
  <2> QED BY <2>2, <2>3, <2>4, Zenon DEF Turns
<1> QED BY <1>5, <1>6

(* A string, however many runs and escapes it takes.                       *)
LEMMA WriteRunsFollows ==
  ASSUME NEW x, IsWriter(x), NEW value, NEW n \in Nat, n = Len(value)
  PROVE  Follows(x, WriteRuns(x, value))
<1>1. PICK after : Turns(after, n, x, value) /\ WriteRuns(x, value) = after[n].w
  BY WriteRunsTurns
<1> DEFINE T == {k \in Nat : k <= n =>
                   /\ after[k] = [w |-> after[k].w, left |-> after[k].left]
                   /\ Follows(x, after[k].w)}
<1>2. 0 \in T
  BY <1>1, FollowsItself DEF Turns
<1>3. ASSUME NEW k \in Nat, k \in T PROVE k + 1 \in T
  <2> SUFFICES ASSUME k + 1 <= n
               PROVE  /\ after[k + 1] = [w |-> after[k + 1].w, left |-> after[k + 1].left]
                      /\ Follows(x, after[k + 1].w)
    OBVIOUS
  <2>1. PICK s : /\ s = after[k] /\ s = [w |-> s.w, left |-> s.left]
                 /\ Follows(x, s.w)
    BY <1>3
  <2>2. after[k + 1] = EscapeTurn(s)
    <3>1. k + 1 \in 1 .. n /\ (k + 1) - 1 = k
      OBVIOUS
    <3> QED BY <1>1, <2>1, <3>1, Zenon DEF Turns
  <2>3. IsWriter(s.w)
    BY <2>1 DEF Follows
  <2> QED BY <2>1, <2>2, <2>3, TurnFollows, FollowsFurther
<1>4. Nat \subseteq T
  <2> HIDE DEF T
  <2> QED BY <1>2, <1>3, Induction
<1>5. n \in T /\ n <= n
  BY <1>4
<1>6. Follows(x, after[n].w)
  BY <1>5
<1> QED BY <1>1, <1>6

-----------------------------------------------------------------------------
(* Strings and steps.                                                      *)
LEMMA ReferenceIn ==
  ASSUME NEW v \in BatchView, NEW ref \in RowRef, Resolves(v, ref)
  PROVE  In(v, ref)
BY DEF BatchView, RowRef, Resolves, In

LEMMA ValueFinite ==
  ASSUME NEW v \in BatchView, NEW ref \in RowRef, Resolves(v, ref)
  PROVE  Value(v, ref) \in Seq(Bytes) /\ Len(Value(v, ref)) \in Nat
<1>1. PICK s \in Seq(Bytes) : s = v.strings
  BY DEF BatchView
<1>2. PICK a \in Nat, b \in Nat : a = ref.offset /\ b = ref.length
  BY DEF RowRef
<1>3. a + b <= Len(s)
  BY <1>1, <1>2, ReferenceIn DEF In
<1>4. \A i \in a + 1 .. a + b : s[i] \in Bytes
  BY <1>3
<1>5. SubSeq(s, a + 1, a + b) \in Seq(Bytes)
  BY <1>4, SubSeqProperties
<1> QED BY <1>1, <1>2, <1>5, SMTT(30) DEF Value

(* A reference is resolved before its string is written: OK in the end     *)
(* only if it lies in the arena.                                           *)
LEMMA WriteStringFollows ==
  ASSUME NEW x, IsWriter(x), NEW v \in BatchView, NEW ref \in RowRef
  PROVE  /\ Follows(x, WriteString(x, v, ref))
         /\ ~Stopped(WriteString(x, v, ref)) => In(v, ref)
<1>1. PICK y : y = WriteString(x, v, ref)
  OBVIOUS
<1>2. CASE Stopped(x)
  <2>1. y = x
    BY <1>1, <1>2 DEF WriteString
  <2> QED BY <1>1, <1>2, <2>1, FollowsItself
<1>3. CASE ~Stopped(x) /\ ~Resolves(v, ref)
  <2>1. y = Invalid(x)
    BY <1>1, <1>3 DEF WriteString
  <2> QED BY <1>1, <2>1, InvalidFollows
<1>4. CASE ~Stopped(x) /\ Resolves(v, ref)
  <2>1. PICK opened : opened = Literal(x, Quote) /\ Follows(x, opened)
    BY LiteralFollows
  <2>2. PICK plain, runs, value :
          /\ plain = Literal(opened, RawText(value))
          /\ runs = WriteRuns(opened, value)
          /\ value = Value(v, ref)
    OBVIOUS
  <2>3. IsWriter(opened)
    BY <2>1 DEF Follows
  <2>4. Follows(opened, plain) /\ Follows(opened, runs)
    <3>1. PICK n \in Nat : n = Len(value)
      BY <1>4, <2>2, ValueFinite
    <3> QED BY <2>2, <2>3, <3>1, LiteralFollows, WriteRunsFollows
  <2>5. /\ Follows(plain, Literal(plain, Quote))
        /\ Follows(runs, Literal(runs, Quote))
    BY <2>4, LiteralFollows DEF Follows
  <2>6. y = IF v.stringsPlain THEN Literal(plain, Quote) ELSE Literal(runs, Quote)
    BY <1>1, <1>4, <2>1, <2>2 DEF WriteString, Quoted
  <2>7. Follows(x, y)
    BY <2>1, <2>4, <2>5, <2>6, FollowsFurther
  <2> QED BY <1>1, <1>4, <2>7, ReferenceIn
<1> QED BY <1>2, <1>3, <1>4

(* A step that reads a field which the row has.                            *)
Readable(step, row) ==
  /\ step.kind \in {"literal", "string", "bool", "int", "nullable"}
  /\ step.kind \in {"string", "nullable"} => row[step.arg] \in RowRef

StepIn(v, step, row) ==
  /\ step.kind = "string" => In(v, row[step.arg])
  /\ step.kind = "nullable" /\ row.hasTrackingNo # 0 => In(v, row[step.arg])

LEMMA WriteStepFollows ==
  ASSUME NEW x, IsWriter(x), NEW v \in BatchView, NEW step, NEW row,
         Readable(step, row)
  PROVE  /\ Follows(x, WriteStep(x, v, step, row))
         /\ ~Stopped(WriteStep(x, v, step, row)) => StepIn(v, step, row)
<1>1. PICK y : y = WriteStep(x, v, step, row)
  OBVIOUS
<1>2. CASE step.kind \in {"literal", "bool", "int"}
  <2>1. PICK text : y = Literal(x, text)
    BY <1>1, <1>2 DEF WriteStep
  <2> QED BY <1>1, <1>2, <2>1, LiteralFollows DEF StepIn
<1>3. CASE step.kind = "string"
  <2>1. y = WriteString(x, v, row[step.arg]) /\ row[step.arg] \in RowRef
    BY <1>1, <1>3 DEF WriteStep, Readable
  <2> QED BY <1>1, <1>3, <2>1, WriteStringFollows DEF StepIn
<1>4. CASE step.kind = "nullable" /\ row.hasTrackingNo = 0
  <2>1. y = Literal(x, Chars(NativeLiteral.null))
    BY <1>1, <1>4 DEF WriteStep
  <2> QED BY <1>1, <1>4, <2>1, LiteralFollows DEF StepIn
<1>5. CASE step.kind = "nullable" /\ row.hasTrackingNo # 0
  <2>1. y = WriteString(x, v, row[step.arg]) /\ row[step.arg] \in RowRef
    BY <1>1, <1>5 DEF WriteStep, Readable
  <2> QED BY <1>1, <1>5, <2>1, WriteStringFollows DEF StepIn
<1> QED BY <1>2, <1>3, <1>4, <1>5 DEF Readable

-----------------------------------------------------------------------------
(* Items.                                                                  *)
(* The writers of the steps of one item.                                   *)
ItemSteps(after, n, x, v, item) ==
  /\ after = [k \in 0 .. n |-> after[k]]
  /\ after[0] = x
  /\ \A k \in 1 .. n : after[k] = WriteStep(after[k - 1], v, NativeItemTable[k], item)

LEMMA ItemStepsExist ==
  ASSUME NEW n \in Nat, NEW x, NEW v, NEW item
  PROVE  \E after : ItemSteps(after, n, x, v, item)
<1> DEFINE T == {m \in Nat : \E after : ItemSteps(after, m, x, v, item)}
<1>1. 0 \in T
  <2>1. PICK z : z = x
    OBVIOUS
  <2>2. PICK g : g = [k \in 0 .. 0 |-> z]
    BY Zenon
  <2>3. ItemSteps(g, 0, x, v, item)
    BY <2>1, <2>2 DEF ItemSteps
  <2> QED BY <2>3
<1>2. ASSUME NEW m \in Nat, m \in T PROVE m + 1 \in T
  <2>1. PICK g : ItemSteps(g, m, x, v, item)
    BY <1>2
  <2>2. PICK z : z = WriteStep(g[m], v, NativeItemTable[m + 1], item)
    OBVIOUS
  <2>3. PICK h : Extends(h, g, m, z)
    BY OneMore
  <2>4. ASSUME NEW k \in 1 .. m + 1
        PROVE  h[k] = WriteStep(h[k - 1], v, NativeItemTable[k], item)
    <3>1. CASE k \in 1 .. m
      <4>1. k \in 0 .. m /\ k - 1 \in 0 .. m
        BY <3>1
      <4> QED BY <2>1, <2>3, <3>1, <4>1, Zenon DEF ItemSteps, Extends
    <3>2. CASE k = m + 1
      <4>1. k - 1 = m /\ m \in 0 .. m
        BY <3>2
      <4> QED BY <2>2, <2>3, <3>2, <4>1, Zenon DEF Extends
    <3>3. k \in 1 .. m \/ k = m + 1
      OBVIOUS
    <3> QED BY <3>1, <3>2, <3>3
  <2>5. 0 \in 0 .. m
    OBVIOUS
  <2>6. ItemSteps(h, m + 1, x, v, item)
    BY <2>1, <2>3, <2>4, <2>5, Zenon DEF ItemSteps, Extends
  <2> QED BY <2>6
<1>3. Nat \subseteq T
  <2> HIDE DEF T
  <2> QED BY <1>1, <1>2, Induction
<1> QED BY <1>3

LEMMA WriteItemSteps ==
  ASSUME NEW x, NEW v, NEW item, NEW n \in Nat, n = Len(NativeItemTable)
  PROVE  \E after : ItemSteps(after, n, x, v, item) /\ WriteItem(x, v, item) = after[n]
<1> DEFINE Solves(f) ==
      f = [k \in 0 .. n |-> IF k = 0 THEN x
                            ELSE WriteStep(f[k - 1], v, NativeItemTable[k], item)]
<1>1. PICK g : ItemSteps(g, n, x, v, item)
  BY ItemStepsExist
<1>2. Solves(g)
  <2>1. ASSUME NEW k \in 0 .. n
        PROVE  g[k] = IF k = 0 THEN x ELSE WriteStep(g[k - 1], v, NativeItemTable[k], item)
    <3>1. CASE k = 0
      BY <1>1, <3>1 DEF ItemSteps
    <3>2. CASE k # 0
      <4>1. k \in 1 .. n
        BY <3>2
      <4> QED BY <1>1, <3>2, <4>1, Zenon DEF ItemSteps
    <3> QED BY <3>1, <3>2
  <2>2. g = [k \in 0 .. n |-> g[k]]
    BY <1>1 DEF ItemSteps
  <2> QED BY <2>1, <2>2
<1>3. PICK f : f = CHOOSE h : Solves(h)
  OBVIOUS
<1>4. Solves(f)
  <2> HIDE DEF Solves
  <2> QED BY <1>2, <1>3
<1>5. WriteItem(x, v, item) = f[n]
  BY <1>3 DEF WriteItem
<1>6. ItemSteps(f, n, x, v, item)
  <2>1. /\ f = [k \in 0 .. n |-> f[k]]
        /\ \A k \in 0 .. n : f[k] = IF k = 0 THEN x
                                     ELSE WriteStep(f[k - 1], v, NativeItemTable[k], item)
    BY <1>4
  <2>2. f[0] = x
    BY <2>1
  <2>3. ASSUME NEW k \in 1 .. n
        PROVE  f[k] = WriteStep(f[k - 1], v, NativeItemTable[k], item)
    <3>1. k \in 0 .. n /\ k # 0
      OBVIOUS
    <3> QED BY <2>1, <3>1, Zenon
  <2> QED BY <2>1, <2>2, <2>3 DEF ItemSteps
<1> QED BY <1>5, <1>6

(* The writers of the turns of the loop over the items.                    *)
ListTurns(after, n, x, v, row) ==
  /\ after = [k \in 0 .. n |-> after[k]]
  /\ after[0] = Literal(x, LeftBracket)
  /\ \A k \in 1 .. n : after[k] = NextItem(after[k - 1], v, row, k)

LEMMA ListTurnsExist ==
  ASSUME NEW n \in Nat, NEW x, NEW v, NEW row
  PROVE  \E after : ListTurns(after, n, x, v, row)
<1> DEFINE T == {m \in Nat : \E after : ListTurns(after, m, x, v, row)}
<1>1. 0 \in T
  <2>1. PICK z : z = Literal(x, LeftBracket)
    OBVIOUS
  <2>2. PICK g : g = [k \in 0 .. 0 |-> z]
    BY Zenon
  <2>3. ListTurns(g, 0, x, v, row)
    BY <2>1, <2>2 DEF ListTurns
  <2> QED BY <2>3
<1>2. ASSUME NEW m \in Nat, m \in T PROVE m + 1 \in T
  <2>1. PICK g : ListTurns(g, m, x, v, row)
    BY <1>2
  <2>2. PICK z : z = NextItem(g[m], v, row, m + 1)
    OBVIOUS
  <2>3. PICK h : Extends(h, g, m, z)
    BY OneMore
  <2>4. ASSUME NEW k \in 1 .. m + 1
        PROVE  h[k] = NextItem(h[k - 1], v, row, k)
    <3>1. CASE k \in 1 .. m
      <4>1. k \in 0 .. m /\ k - 1 \in 0 .. m
        BY <3>1
      <4> QED BY <2>1, <2>3, <3>1, <4>1, Zenon DEF ListTurns, Extends
    <3>2. CASE k = m + 1
      <4>1. k - 1 = m /\ m \in 0 .. m
        BY <3>2
      <4> QED BY <2>2, <2>3, <3>2, <4>1, Zenon DEF Extends
    <3>3. k \in 1 .. m \/ k = m + 1
      OBVIOUS
    <3> QED BY <3>1, <3>2, <3>3
  <2>5. 0 \in 0 .. m
    OBVIOUS
  <2>6. ListTurns(h, m + 1, x, v, row)
    BY <2>1, <2>3, <2>4, <2>5, Zenon DEF ListTurns, Extends
  <2> QED BY <2>6
<1>3. Nat \subseteq T
  <2> HIDE DEF T
  <2> QED BY <1>1, <1>2, Induction
<1> QED BY <1>3

LEMMA WriteListTurns ==
  ASSUME NEW x, NEW v, NEW row, NEW n \in Nat, n = row.itemCount
  PROVE  \E after : ListTurns(after, n, x, v, row) /\ WriteList(x, v, row) = Literal(after[n], RightBracket)
<1> DEFINE Solves(f) ==
      f = [k \in 0 .. n |-> IF k = 0 THEN Literal(x, LeftBracket)
                            ELSE NextItem(f[k - 1], v, row, k)]
<1>1. PICK g : ListTurns(g, n, x, v, row)
  BY ListTurnsExist
<1>2. Solves(g)
  <2>1. ASSUME NEW k \in 0 .. n
        PROVE  g[k] = IF k = 0 THEN Literal(x, LeftBracket) ELSE NextItem(g[k - 1], v, row, k)
    <3>1. CASE k = 0
      BY <1>1, <3>1 DEF ListTurns
    <3>2. CASE k # 0
      <4>1. k \in 1 .. n
        BY <3>2
      <4> QED BY <1>1, <3>2, <4>1, Zenon DEF ListTurns
    <3> QED BY <3>1, <3>2
  <2>2. g = [k \in 0 .. n |-> g[k]]
    BY <1>1 DEF ListTurns
  <2> QED BY <2>1, <2>2, Zenon
<1>3. PICK f : f = CHOOSE h : Solves(h)
  OBVIOUS
<1>4. Solves(f)
  <2> HIDE DEF Solves
  <2> QED BY <1>2, <1>3
<1>5. WriteList(x, v, row) = Literal(f[n], RightBracket)
  BY <1>3 DEF WriteList
<1>6. ListTurns(f, n, x, v, row)
  <2>1. /\ f = [k \in 0 .. n |-> f[k]]
        /\ \A k \in 0 .. n : f[k] = IF k = 0 THEN Literal(x, LeftBracket)
                                     ELSE NextItem(f[k - 1], v, row, k)
    BY <1>4
  <2>2. f[0] = Literal(x, LeftBracket)
    BY <2>1
  <2>3. ASSUME NEW k \in 1 .. n PROVE f[k] = NextItem(f[k - 1], v, row, k)
    <3>1. k \in 0 .. n /\ k # 0
      OBVIOUS
    <3> QED BY <2>1, <3>1, Zenon
  <2> QED BY <2>1, <2>2, <2>3, Zenon DEF ListTurns
<1> QED BY <1>5, <1>6


LEMMA ItemTable ==
  ASSUME NEW item \in ItemRow
  PROVE  /\ Len(NativeItemTable) = 9
         /\ \A k \in 1 .. 9 : Readable(NativeItemTable[k], item)
         /\ NativeItemTable[2] = Str("sku")
         /\ NativeItemTable[4] = Str("title")
BY DEF NativeItemTable, Readable, Lit, Str, Num, ItemRow

LEMMA WriteItemFollows ==
  ASSUME NEW x, IsWriter(x), NEW v \in BatchView, NEW item \in ItemRow
  PROVE  /\ Follows(x, WriteItem(x, v, item))
         /\ ~Stopped(WriteItem(x, v, item)) => ItemIn(v, item)
<1>1. 9 \in Nat /\ 9 = Len(NativeItemTable)
  BY ItemTable
<1>2. PICK after : ItemSteps(after, 9, x, v, item) /\ WriteItem(x, v, item) = after[9]
  BY <1>1, WriteItemSteps
<1> DEFINE T == {k \in Nat : k <= 9 =>
                   /\ Follows(x, after[k])
                   /\ ~Stopped(after[k]) =>
                        \A j \in 1 .. k : StepIn(v, NativeItemTable[j], item)}
<1>3. 0 \in T
  BY <1>2, FollowsItself DEF ItemSteps
<1>4. ASSUME NEW k \in Nat, k \in T PROVE k + 1 \in T
  <2> SUFFICES ASSUME k + 1 <= 9
               PROVE  /\ Follows(x, after[k + 1])
                      /\ ~Stopped(after[k + 1]) =>
                           \A j \in 1 .. k + 1 : StepIn(v, NativeItemTable[j], item)
    OBVIOUS
  <2>1. PICK y, step : y = after[k] /\ step = NativeItemTable[k + 1]
    OBVIOUS
  <2>2. /\ Follows(x, y)
        /\ ~Stopped(y) => \A j \in 1 .. k : StepIn(v, NativeItemTable[j], item)
    BY <1>4, <2>1
  <2>3. after[k + 1] = WriteStep(y, v, step, item)
    <3>1. k + 1 \in 1 .. 9 /\ (k + 1) - 1 = k
      OBVIOUS
    <3> QED BY <1>2, <2>1, <3>1 DEF ItemSteps
  <2>4. Readable(step, item) /\ IsWriter(y)
    BY <2>1, <2>2, ItemTable DEF Follows
  <2>5. /\ Follows(y, after[k + 1])
        /\ ~Stopped(after[k + 1]) => StepIn(v, step, item)
    BY <2>3, <2>4, WriteStepFollows
  <2>6. ~Stopped(after[k + 1]) => ~Stopped(y)
    BY <2>5 DEF Follows
  <2> QED BY <2>1, <2>2, <2>5, <2>6, FollowsFurther
<1>5. Nat \subseteq T
  <2> HIDE DEF T
  <2> QED BY <1>3, <1>4, Induction
<1>6. /\ Follows(x, after[9])
      /\ ~Stopped(after[9]) => \A j \in 1 .. 9 : StepIn(v, NativeItemTable[j], item)
  <2>1. 9 \in T
    BY <1>5
  <2> QED BY <2>1
<1>7. ASSUME ~Stopped(after[9]) PROVE ItemIn(v, item)
  <2>1. StepIn(v, Str("sku"), item) /\ StepIn(v, Str("title"), item)
    BY <1>6, <1>7, ItemTable
  <2> QED BY <2>1 DEF StepIn, Str, ItemIn
<1> QED BY <1>2, <1>6, <1>7

LEMMA NextItemFollows ==
  ASSUME NEW x, IsWriter(x), NEW v \in BatchView, NEW row, NEW i \in Nat,
         v.items[row.itemStart + i] \in ItemRow
  PROVE  /\ Follows(x, NextItem(x, v, row, i))
         /\ ~Stopped(NextItem(x, v, row, i)) => ItemIn(v, v.items[row.itemStart + i])
<1>1. PICK y, item : y = NextItem(x, v, row, i) /\ item = v.items[row.itemStart + i]
  OBVIOUS
<1>2. CASE Stopped(x)
  <2>1. y = x
    BY <1>1, <1>2 DEF NextItem
  <2> QED BY <1>1, <1>2, <2>1, FollowsItself
<1>3. CASE ~Stopped(x)
  <2>1. PICK z : z = (IF i > 1 THEN Literal(x, Comma) ELSE x)
    OBVIOUS
  <2>2. Follows(x, z) /\ IsWriter(z)
    BY <2>1, LiteralFollows, FollowsItself DEF Follows
  <2>3. y = WriteItem(z, v, item)
    BY <1>1, <1>3, <2>1 DEF NextItem
  <2> QED BY <1>1, <2>2, <2>3, WriteItemFollows, FollowsFurther
<1> QED BY <1>2, <1>3

(* The items of an order: OK in the end only if the references of each of  *)
(* them were inside.                                                       *)
LEMMA WriteListFollows ==
  ASSUME NEW x, IsWriter(x), NEW v \in BatchView, NEW row \in OrderRow,
         row.itemStart + row.itemCount <= Len(v.items)
  PROVE  /\ Follows(x, WriteList(x, v, row))
         /\ ~Stopped(WriteList(x, v, row)) =>
              \A i \in 1 .. row.itemCount : ItemIn(v, v.items[row.itemStart + i])
<1>1. PICK s \in Nat, n \in Nat : s = row.itemStart /\ n = row.itemCount
  BY DEF OrderRow
<1>2. \A i \in 1 .. n : v.items[s + i] \in ItemRow
  <2>1. PICK items \in Seq(ItemRow) : items = v.items
    BY DEF BatchView
  <2>2. s + n <= Len(items)
    BY <1>1, <2>1
  <2>3. ASSUME NEW i \in 1 .. n PROVE items[s + i] \in ItemRow
    <3>1. s + i \in 1 .. Len(items)
      BY <2>2
    <3> QED BY <3>1
  <2> QED BY <2>1, <2>3
<1>3. PICK after : /\ ListTurns(after, n, x, v, row)
                  /\ WriteList(x, v, row) = Literal(after[n], RightBracket)
  BY <1>1, WriteListTurns
<1> DEFINE T == {k \in Nat : k <= n =>
                   /\ Follows(x, after[k])
                   /\ ~Stopped(after[k]) =>
                        \A j \in 1 .. k : ItemIn(v, v.items[s + j])}
<1>4. 0 \in T
  BY <1>3, LiteralFollows DEF ListTurns
<1>5. ASSUME NEW k \in Nat, k \in T PROVE k + 1 \in T
  <2> SUFFICES ASSUME k + 1 <= n
               PROVE  /\ Follows(x, after[k + 1])
                      /\ ~Stopped(after[k + 1]) =>
                           \A j \in 1 .. k + 1 : ItemIn(v, v.items[s + j])
    OBVIOUS
  <2>1. PICK y : y = after[k]
    OBVIOUS
  <2>2. /\ Follows(x, y)
        /\ ~Stopped(y) => \A j \in 1 .. k : ItemIn(v, v.items[s + j])
    BY <1>5, <2>1
  <2>3. PICK i \in 1 .. n : i = k + 1
    OBVIOUS
  <2>4. after[i] = NextItem(y, v, row, i)
    <3>1. i - 1 = k
      BY <2>3
    <3> QED BY <1>3, <2>1, <3>1, Zenon DEF ListTurns
  <2>5. v.items[row.itemStart + i] \in ItemRow
    BY <1>1, <1>2
  <2>6. IsWriter(y) /\ i \in Nat
    BY <2>2 DEF Follows
  <2>7. /\ Follows(y, after[i])
        /\ ~Stopped(after[i]) => ItemIn(v, v.items[row.itemStart + i])
    BY <2>4, <2>5, <2>6, NextItemFollows
  <2>8. ~Stopped(after[i]) => ~Stopped(y)
    BY <2>7 DEF Follows
  <2>9. ASSUME ~Stopped(after[i]), NEW j \in 1 .. k + 1
        PROVE  ItemIn(v, v.items[s + j])
    <3>1. CASE j \in 1 .. k
      BY <2>2, <2>8, <2>9, <3>1, Zenon
    <3>2. CASE j = k + 1
      BY <1>1, <2>3, <2>7, <2>9, <3>2
    <3>3. j \in 1 .. k \/ j = k + 1
      OBVIOUS
    <3> QED BY <3>1, <3>2, <3>3
  <2> QED BY <2>2, <2>3, <2>7, <2>9, FollowsFurther
<1>6. Nat \subseteq T
  <2> HIDE DEF T
  <2> QED BY <1>4, <1>5, Induction
<1>7. PICK y : y = after[n]
  OBVIOUS
<1>8. /\ Follows(x, y)
      /\ ~Stopped(y) => \A j \in 1 .. n : ItemIn(v, v.items[s + j])
  <2>1. n \in T
    <3> HIDE DEF T
    <3> QED BY <1>6
  <2> QED BY <1>7, <2>1
<1>9. Follows(y, Literal(y, RightBracket))
  BY <1>8, LiteralFollows DEF Follows
<1>10. ~Stopped(Literal(y, RightBracket)) => ~Stopped(y)
  BY <1>9 DEF Follows
<1>11. Follows(x, Literal(y, RightBracket))
  BY <1>8, <1>9, FollowsFurther
<1> QED BY <1>1, <1>3, <1>7, <1>8, <1>10, <1>11

(* The range is tested in front of the loop, and a null list must count    *)
(* none.                                                                   *)
LEMMA WriteItemsFollows ==
  ASSUME NEW x, IsWriter(x), NEW v \in BatchView, NEW row \in OrderRow
  PROVE  /\ Follows(x, WriteItems(x, v, row))
         /\ ~Stopped(WriteItems(x, v, row)) => ItemsIn(v, row)
<1>1. PICK y : y = WriteItems(x, v, row)
  OBVIOUS
<1>2. PICK s \in Nat, n \in Nat, m \in Nat :
        s = row.itemStart /\ n = row.itemCount /\ m = Len(v.items)
  <2>1. Len(v.items) \in Nat
    BY DEF BatchView
  <2> QED BY <2>1 DEF OrderRow
<1>3. CASE row.itemsNull # 0 /\ n # 0
  <2>1. y = Invalid(x)
    BY <1>1, <1>2, <1>3 DEF WriteItems
  <2> QED BY <1>1, <2>1, InvalidFollows
<1>4. CASE row.itemsNull # 0 /\ n = 0
  <2>1. y = Literal(x, Chars(NativeLiteral.null))
    BY <1>1, <1>2, <1>4 DEF WriteItems
  <2> QED BY <1>1, <1>2, <1>4, <2>1, LiteralFollows DEF ItemsIn
<1>5. CASE row.itemsNull = 0 /\ (s > m \/ n > m - s)
  <2>1. y = Invalid(x)
    BY <1>1, <1>2, <1>5 DEF WriteItems
  <2> QED BY <1>1, <2>1, InvalidFollows
<1>6. CASE row.itemsNull = 0 /\ ~(s > m \/ n > m - s)
  <2>1. s + n <= m
    BY <1>6
  <2>2. y = WriteList(x, v, row)
    BY <1>1, <1>2, <1>6 DEF WriteItems
  <2>3. /\ Follows(x, y)
        /\ ~Stopped(y) => \A i \in 1 .. n : ItemIn(v, v.items[s + i])
    BY <1>2, <2>1, <2>2, WriteListFollows
  <2>4. ASSUME ~Stopped(y), NEW i \in s + 1 .. s + n PROVE ItemIn(v, v.items[i])
    <3>1. i - s \in 1 .. n /\ s + (i - s) = i
      OBVIOUS
    <3> QED BY <2>3, <2>4, <3>1
  <2> QED BY <1>1, <1>2, <1>6, <2>1, <2>3, <2>4 DEF ItemsIn
<1> QED BY <1>3, <1>4, <1>5, <1>6

-----------------------------------------------------------------------------
(* Rows.                                                                   *)
(* The writers of the steps of a table.                                    *)
RowSteps(after, n, x, v, table, row) ==
  /\ after = [k \in 0 .. n |-> after[k]]
  /\ after[0] = x
  /\ \A k \in 1 .. n : after[k] = RowStep(after[k - 1], v, table[k], row)

LEMMA RowStepsExist ==
  ASSUME NEW n \in Nat, NEW x, NEW v, NEW table, NEW row
  PROVE  \E after : RowSteps(after, n, x, v, table, row)
<1> DEFINE T == {m \in Nat : \E after : RowSteps(after, m, x, v, table, row)}
<1>1. 0 \in T
  <2>1. PICK z : z = x
    OBVIOUS
  <2>2. PICK g : g = [k \in 0 .. 0 |-> z]
    BY Zenon
  <2>3. RowSteps(g, 0, x, v, table, row)
    BY <2>1, <2>2 DEF RowSteps
  <2> QED BY <2>3
<1>2. ASSUME NEW m \in Nat, m \in T PROVE m + 1 \in T
  <2>1. PICK g : RowSteps(g, m, x, v, table, row)
    BY <1>2
  <2>2. PICK z : z = RowStep(g[m], v, table[m + 1], row)
    OBVIOUS
  <2>3. PICK h : Extends(h, g, m, z)
    BY OneMore
  <2>4. ASSUME NEW k \in 1 .. m + 1
        PROVE  h[k] = RowStep(h[k - 1], v, table[k], row)
    <3>1. CASE k \in 1 .. m
      <4>1. k \in 0 .. m /\ k - 1 \in 0 .. m
        BY <3>1
      <4> QED BY <2>1, <2>3, <3>1, <4>1, Zenon DEF RowSteps, Extends
    <3>2. CASE k = m + 1
      <4>1. k - 1 = m /\ m \in 0 .. m
        BY <3>2
      <4> QED BY <2>2, <2>3, <3>2, <4>1, Zenon DEF Extends
    <3>3. k \in 1 .. m \/ k = m + 1
      OBVIOUS
    <3> QED BY <3>1, <3>2, <3>3
  <2>5. 0 \in 0 .. m
    OBVIOUS
  <2>6. RowSteps(h, m + 1, x, v, table, row)
    BY <2>1, <2>3, <2>4, <2>5, Zenon DEF RowSteps, Extends
  <2> QED BY <2>6
<1>3. Nat \subseteq T
  <2> HIDE DEF T
  <2> QED BY <1>1, <1>2, Induction
<1> QED BY <1>3

LEMMA WriteTableSteps ==
  ASSUME NEW x, NEW v, NEW table, NEW row, NEW n \in Nat, n = Len(table)
  PROVE  \E after : RowSteps(after, n, x, v, table, row) /\ WriteTable(x, v, table, row) = after[n]
<1> DEFINE Solves(f) ==
      f = [k \in 0 .. n |-> IF k = 0 THEN x
                            ELSE RowStep(f[k - 1], v, table[k], row)]
<1>1. PICK g : RowSteps(g, n, x, v, table, row)
  BY RowStepsExist
<1>2. Solves(g)
  <2>1. ASSUME NEW k \in 0 .. n
        PROVE  g[k] = IF k = 0 THEN x ELSE RowStep(g[k - 1], v, table[k], row)
    <3>1. CASE k = 0
      BY <1>1, <3>1 DEF RowSteps
    <3>2. CASE k # 0
      <4>1. k \in 1 .. n
        BY <3>2
      <4> QED BY <1>1, <3>2, <4>1, Zenon DEF RowSteps
    <3> QED BY <3>1, <3>2
  <2>2. g = [k \in 0 .. n |-> g[k]]
    BY <1>1 DEF RowSteps
  <2> QED BY <2>1, <2>2
<1>3. PICK f : f = CHOOSE h : Solves(h)
  OBVIOUS
<1>4. Solves(f)
  <2> HIDE DEF Solves
  <2> QED BY <1>2, <1>3
<1>5. WriteTable(x, v, table, row) = f[n]
  BY <1>3 DEF WriteTable
<1>6. RowSteps(f, n, x, v, table, row)
  <2>1. /\ f = [k \in 0 .. n |-> f[k]]
        /\ \A k \in 0 .. n : f[k] = IF k = 0 THEN x
                                     ELSE RowStep(f[k - 1], v, table[k], row)
    BY <1>4
  <2>2. f[0] = x
    BY <2>1
  <2>3. \A k \in 1 .. n : f[k] = RowStep(f[k - 1], v, table[k], row)
    BY <2>1
  <2> QED BY <2>1, <2>2, <2>3 DEF RowSteps
<1> QED BY <1>5, <1>6

RowReadable(step, row) == step.kind = "items" \/ Readable(step, row)

RowStepIn(v, step, row) ==
  IF step.kind = "items" THEN ItemsIn(v, row) ELSE StepIn(v, step, row)

LEMMA RowStepFollows ==
  ASSUME NEW x, IsWriter(x), NEW v \in BatchView, NEW row \in OrderRow,
         NEW step, RowReadable(step, row)
  PROVE  /\ Follows(x, RowStep(x, v, step, row))
         /\ ~Stopped(RowStep(x, v, step, row)) => RowStepIn(v, step, row)
<1>1. CASE step.kind = "items"
  BY <1>1, WriteItemsFollows DEF RowStep, RowStepIn
<1>2. CASE step.kind # "items"
  BY <1>2, WriteStepFollows DEF RowStep, RowStepIn, RowReadable
<1> QED BY <1>1, <1>2

(* A table of steps, an operation or the static function: OK in the end    *)
(* only if everything that the table reads was inside.                     *)
LEMMA WriteTableFollows ==
  ASSUME NEW x, IsWriter(x), NEW v \in BatchView, NEW row \in OrderRow,
         NEW table, NEW n \in Nat, n = Len(table),
         \A k \in 1 .. n : RowReadable(table[k], row)
  PROVE  /\ Follows(x, WriteTable(x, v, table, row))
         /\ ~Stopped(WriteTable(x, v, table, row)) =>
              \A k \in 1 .. n : RowStepIn(v, table[k], row)
<1>1. PICK after : /\ RowSteps(after, n, x, v, table, row)
                  /\ WriteTable(x, v, table, row) = after[n]
  BY WriteTableSteps
<1> DEFINE T == {k \in Nat : k <= n =>
                   /\ Follows(x, after[k])
                   /\ ~Stopped(after[k]) =>
                        \A j \in 1 .. k : RowStepIn(v, table[j], row)}
<1>2. 0 \in T
  BY <1>1, FollowsItself DEF RowSteps
<1>3. ASSUME NEW k \in Nat, k \in T PROVE k + 1 \in T
  <2> SUFFICES ASSUME k + 1 <= n
               PROVE  /\ Follows(x, after[k + 1])
                      /\ ~Stopped(after[k + 1]) =>
                           \A j \in 1 .. k + 1 : RowStepIn(v, table[j], row)
    OBVIOUS
  <2>1. PICK y, step : y = after[k] /\ step = table[k + 1]
    OBVIOUS
  <2>2. /\ Follows(x, y)
        /\ ~Stopped(y) => \A j \in 1 .. k : RowStepIn(v, table[j], row)
    BY <1>3, <2>1
  <2>3. k + 1 \in 1 .. n /\ (k + 1) - 1 = k
    OBVIOUS
  <2>4. after[k + 1] = RowStep(y, v, step, row)
    BY <1>1, <2>1, <2>3, Zenon DEF RowSteps
  <2>5. RowReadable(step, row) /\ IsWriter(y)
    BY <2>1, <2>2, <2>3 DEF Follows
  <2>6. /\ Follows(y, after[k + 1])
        /\ ~Stopped(after[k + 1]) => RowStepIn(v, step, row)
    BY <2>4, <2>5, RowStepFollows
  <2>7. ~Stopped(after[k + 1]) => ~Stopped(y)
    BY <2>6 DEF Follows
  <2>8. ASSUME ~Stopped(after[k + 1]), NEW j \in 1 .. k + 1
        PROVE  RowStepIn(v, table[j], row)
    <3>1. j \in 1 .. k \/ j = k + 1
      OBVIOUS
    <3> QED BY <2>1, <2>2, <2>6, <2>7, <2>8, <3>1
  <2> QED BY <2>2, <2>6, <2>8, FollowsFurther
<1>4. Nat \subseteq T
  <2> HIDE DEF T
  <2> QED BY <1>2, <1>3, Induction, Zenon
<1>5. n \in T /\ n <= n
  BY <1>4
<1>6. /\ Follows(x, after[n])
      /\ ~Stopped(after[n]) => \A j \in 1 .. n : RowStepIn(v, table[j], row)
  BY <1>5
<1> QED BY <1>1, <1>6

-----------------------------------------------------------------------------
(* The tables: every step can read the row, and the steps of an order      *)
(* together read everything.                                               *)
TableReadable(table, row) ==
  /\ Len(table) \in Nat
  /\ \A k \in 1 .. Len(table) : RowReadable(table[k], row)

TableIn(v, table, row) == \A k \in 1 .. Len(table) : RowStepIn(v, table[k], row)

LEMMA OperationsAre ==
  /\ Len(Operations) = 8
  /\ Operations[1] = "order_id" /\ Operations[2] = "created_at"
  /\ Operations[3] = "status"   /\ Operations[4] = "payment"
  /\ Operations[5] = "buyer"    /\ Operations[6] = "shipping"
  /\ Operations[7] = "items"    /\ Operations[8] = "remark"
BY DEF Operations

LEMMA OperationReadable ==
  ASSUME NEW row \in OrderRow, NEW i \in 1 .. 8
  PROVE  TableReadable(OperationTable(Operations[i]), row)
<1>1. PICK o : o = Operations[i]
  OBVIOUS
<1>2. CASE o \in {"order_id", "created_at", "status"}
  BY <1>1, <1>2, SMTT(30) DEF OperationTable, TableReadable, RowReadable,
                                      Readable, Lit, Str, OrderRow
<1>3. CASE o = "payment"
  BY <1>1, <1>3 DEF OperationTable, TableReadable, RowReadable, Readable, Lit, Str, Bool, OrderRow
<1>4. CASE o = "buyer"
  BY <1>1, <1>4 DEF OperationTable, TableReadable, RowReadable, Readable, Lit, Str, Num, OrderRow
<1>5. CASE o = "shipping"
  BY <1>1, <1>5 DEF OperationTable, TableReadable, RowReadable, Readable, Lit, Str, Nullable, OrderRow
<1>6. CASE o = "items"
  BY <1>1, <1>6 DEF OperationTable, TableReadable, RowReadable, Readable, Lit, ItemList
<1>7. CASE o = "remark"
  BY <1>1, <1>7 DEF OperationTable, TableReadable, RowReadable, Readable, Lit, Str, OrderRow
<1> QED BY <1>1, <1>2, <1>3, <1>4, <1>5, <1>6, <1>7, OperationsAre

LEMMA StaticReadable ==
  ASSUME NEW row \in OrderRow
  PROVE  TableReadable(StaticTable, row)
BY DEF StaticTable, TableReadable, RowReadable, Readable, Lit, Str, Bool, Num,
       Nullable, ItemList, OrderRow

(* What a step of each kind has seen.                                      *)
LEMMA StringIn ==
  ASSUME NEW v, NEW row, NEW field, RowStepIn(v, Str(field), row)
  PROVE  In(v, row[field])
BY DEF RowStepIn, StepIn, Str

LEMMA TrackingIn ==
  ASSUME NEW v, NEW row, RowStepIn(v, Nullable("trackingNo"), row)
  PROVE  row.hasTrackingNo # 0 => In(v, row.trackingNo)
BY DEF RowStepIn, StepIn, Nullable

LEMMA ItemListIn ==
  ASSUME NEW v, NEW row, RowStepIn(v, ItemList, row)
  PROVE  ItemsIn(v, row)
BY DEF RowStepIn, ItemList

(* The eight operations read, between them, all that well-formed means.    *)
LEMMA OperationsCover ==
  ASSUME NEW v, NEW row,
         \A i \in 1 .. 8 : TableIn(v, OperationTable(Operations[i]), row)
  PROVE  RowIn(v, row)
<1>1. \A o \in {"order_id", "created_at", "status", "payment",
                "buyer", "shipping", "items", "remark"} :
        TableIn(v, OperationTable(o), row)
  BY OperationsAre
<1>2. RowStepIn(v, Str("orderID"), row)
  <2>1. PICK t : t = OperationTable("order_id") /\ TableIn(v, t, row)
    BY <1>1
  <2>2. t[2] = Str("orderID") /\ 2 \in 1 .. Len(t)
    BY <2>1, SMTT(30) DEF OperationTable
  <2> QED BY <2>1, <2>2 DEF TableIn
<1>3. RowStepIn(v, Str("createdAt"), row)
  <2>1. PICK t : t = OperationTable("created_at") /\ TableIn(v, t, row)
    BY <1>1
  <2>2. t[2] = Str("createdAt") /\ 2 \in 1 .. Len(t)
    BY <2>1, SMTT(30) DEF OperationTable
  <2> QED BY <2>1, <2>2 DEF TableIn
<1>4. RowStepIn(v, Str("status"), row)
  <2>1. PICK t : t = OperationTable("status") /\ TableIn(v, t, row)
    BY <1>1
  <2>2. t[2] = Str("status") /\ 2 \in 1 .. Len(t)
    BY <2>1, SMTT(30) DEF OperationTable
  <2> QED BY <2>1, <2>2 DEF TableIn
<1>5. RowStepIn(v, Str("paymentMethod"), row)
  <2>1. OperationTable("payment")[2] = Str("paymentMethod")
    BY DEF OperationTable
  <2>2. 2 \in 1 .. Len(OperationTable("payment"))
    BY SMTT(30) DEF OperationTable
  <2> QED BY <1>1, <2>1, <2>2 DEF TableIn
<1>6. RowStepIn(v, Str("buyerName"), row)
  <2>1. OperationTable("buyer")[4] = Str("buyerName")
    BY DEF OperationTable
  <2>2. 4 \in 1 .. Len(OperationTable("buyer"))
    BY SMTT(30) DEF OperationTable
  <2> QED BY <1>1, <2>1, <2>2 DEF TableIn
<1>7. /\ RowStepIn(v, Str("city"), row)
      /\ RowStepIn(v, Str("address"), row)
      /\ RowStepIn(v, Nullable("trackingNo"), row)
  <2>1. PICK t : t = OperationTable("shipping") /\ TableIn(v, t, row)
    BY <1>1
  <2>2. t[2] = Str("city") /\ t[4] = Str("address") /\ t[6] = Nullable("trackingNo")
    BY <2>1 DEF OperationTable
  <2>3. 2 \in 1 .. Len(t) /\ 4 \in 1 .. Len(t) /\ 6 \in 1 .. Len(t)
    BY <2>1, SMTT(30) DEF OperationTable
  <2> QED BY <2>1, <2>2, <2>3 DEF TableIn
<1>8. RowStepIn(v, ItemList, row)
  <2>1. PICK t : t = OperationTable("items") /\ TableIn(v, t, row)
    BY <1>1
  <2>2. t[2] = ItemList /\ 2 \in 1 .. Len(t)
    BY <2>1, SMTT(30) DEF OperationTable
  <2> QED BY <2>1, <2>2 DEF TableIn
<1>9. RowStepIn(v, Str("remark"), row)
  <2>1. OperationTable("remark")[2] = Str("remark")
    BY DEF OperationTable
  <2>2. 2 \in 1 .. Len(OperationTable("remark"))
    BY SMTT(30) DEF OperationTable
  <2> QED BY <1>1, <2>1, <2>2 DEF TableIn
<1>10. \A field \in {"orderID", "createdAt", "status", "paymentMethod",
                     "buyerName", "city", "address", "remark"} :
         RowStepIn(v, Str(field), row)
  BY <1>2, <1>3, <1>4, <1>5, <1>6, <1>7, <1>9
<1> QED BY <1>7, <1>8, <1>10, StringIn, TrackingIn, ItemListIn DEF RowIn

(* So does the static function.                                            *)
LEMMA StaticCovers ==
  ASSUME NEW v, NEW row, TableIn(v, StaticTable, row)
  PROVE  RowIn(v, row)
<1>1. \A field \in {"orderID", "createdAt", "status", "paymentMethod",
                    "buyerName", "city", "address", "remark"} :
        RowStepIn(v, Str(field), row)
  BY DEF StaticTable, TableIn
<1>2. RowStepIn(v, Nullable("trackingNo"), row) /\ RowStepIn(v, ItemList, row)
  BY DEF StaticTable, TableIn
<1> QED BY <1>1, <1>2, StringIn, TrackingIn, ItemListIn DEF RowIn

(* The tables of the backend.                                              *)
LEMMA TablesAre ==
  /\ backend = "static" => Len(Tables) = 1 /\ Tables[1] = StaticTable
  /\ backend # "static" =>
       /\ Len(Tables) = 8
       /\ \A i \in 1 .. 8 : Tables[i] = OperationTable(Operations[i])
BY OperationsAre DEF Tables

LEMMA TablesReadable ==
  ASSUME NEW row \in OrderRow, NEW i \in 1 .. Len(Tables)
  PROVE  TableReadable(Tables[i], row)
BY TablesAre, OperationReadable, StaticReadable

LEMMA TablesCover ==
  ASSUME NEW v, NEW row, \A i \in 1 .. Len(Tables) : TableIn(v, Tables[i], row)
  PROVE  RowIn(v, row)
BY TablesAre, OperationsCover, StaticCovers

-----------------------------------------------------------------------------
(* While no write has failed, the orders that were written, and the        *)
(* operations of the one being written, were inside.                       *)
LoopInv ==
  /\ view.ordersNull => view.orders = <<>>
  /\ index <= Len(view.orders)
  /\ op > 0 => op <= Len(Tables) /\ index < Len(view.orders)
  /\ ~Stopped(w) =>
       /\ \A i \in 1 .. index : RowIn(view, view.orders[i])
       /\ \A j \in 1 .. op - 1 : TableIn(view, Tables[j], view.orders[index + 1])

IInv ==
  /\ stage \in {"outside", "orders", "returned"}
  /\ backend \in {"jit", "static"}
  /\ index \in Nat
  /\ op \in Nat
  /\ IsWriter(w)
  /\ stage = "outside" => index = 0 /\ op = 0
  /\ stage # "outside" => view \in BatchView
  /\ stage = "orders" => LoopInv
  /\ AcceptsOnlyWellFormed

LEMMA WriterIs ==
  ASSUME NEW text, NEW cap, NEW status \in Statuses
  PROVE  /\ IsWriter(Writer(text, cap, status))
         /\ Writer(text, cap, status).status = status
         /\ Writer(text, cap, status).cap = cap
BY DEF Writer, IsWriter

LEMMA Initially == NativeInit => IInv
<1> SUFFICES ASSUME NativeInit PROVE IInv
  OBVIOUS
<1>1. IsWriter(w)
  BY WriterIs DEF NativeInit, Statuses
<1> QED BY <1>1 DEF NativeInit, IInv, AcceptsOnlyWellFormed

LEMMA StartedIs ==
  ASSUME NEW v, NEW cap
  PROVE  IsWriter(Started(v, cap))
<1>1. PICK x : x = Literal(Writer(<<>>, cap, "OK"), Chars("{\"orders\":"))
  BY Zenon
<1>2. IsWriter(x)
  BY <1>1, WriterIs, LiteralFollows, Zenon DEF Follows, Statuses
<1>3. IsWriter(Literal(x, IF v.ordersNull THEN Chars("null") ELSE LeftBracket))
  BY <1>2, LiteralFollows DEF Follows
<1> QED BY <1>1, <1>3, Zenon DEF Started

LEMMA EnterStep ==
  ASSUME IInv, NEW v \in BatchView, NEW cap, Enter(v, cap)
  PROVE  IInv'
<1>1. /\ v \in BatchView /\ view' = v /\ index' = 0 /\ op' = 0
      /\ backend' = backend /\ backend \in {"jit", "static"}
  BY Zenon DEF IInv, Enter
<1>2. CASE BadArguments(v, cap)
  <2>1. w' = Writer(<<>>, cap, "INVALID_ARGUMENT") /\ stage' = "returned"
    BY <1>2 DEF Enter
  <2>2. IsWriter(w') /\ w'.status # "OK"
    BY <2>1, WriterIs DEF Statuses
  <2> QED BY <1>1, <2>1, <2>2 DEF IInv, AcceptsOnlyWellFormed
<1>3. CASE ~BadArguments(v, cap)
  <2>1. w' = Started(v, cap) /\ stage' = "orders"
    BY <1>3, Zenon DEF Enter, Started
  <2>2. IsWriter(w')
    BY <2>1, StartedIs
  <2>3. v.ordersNull => v.orders = <<>>
    BY <1>3 DEF BadArguments
  <2>4. Len(v.orders) \in Nat
    BY <1>1 DEF BatchView
  <2>5. LoopInv'
    BY <1>1, <2>3, <2>4 DEF LoopInv
  <2> QED BY <1>1, <2>1, <2>2, <2>5 DEF IInv, AcceptsOnlyWellFormed
<1> QED BY <1>2, <1>3

LEMMA BeginOrderStep ==
  ASSUME IInv, BeginOrder
  PROVE  IInv'
<1>1. /\ stage = "orders" /\ op = 0 /\ op' = 1 /\ index < Len(view.orders)
      /\ w' = Separated(w) /\ LoopInv /\ IsWriter(w) /\ ~Stopped(w)
      /\ stage' = stage /\ backend' = backend /\ view' = view /\ index' = index
  BY DEF IInv, BeginOrder
<1>2. IsWriter(w')
  BY <1>1, LiteralFollows DEF Separated, Follows
<1>3. Tables' = Tables /\ Len(Tables) >= 1
  BY <1>1, TablesAre DEF Tables
<1>4. LoopInv'
  BY <1>1, <1>3 DEF LoopInv
<1> QED BY <1>1, <1>2, <1>4 DEF IInv, AcceptsOnlyWellFormed

(* One operation more: what it read was inside, or the writer has failed.  *)
LEMMA CallOperationStep ==
  ASSUME IInv, CallOperation
  PROVE  IInv'
<1>1. /\ stage = "orders" /\ op > 0 /\ LoopInv /\ IsWriter(w)
      /\ index \in Nat /\ op \in Nat /\ view \in BatchView
      /\ stage' = stage /\ backend' = backend /\ view' = view
  BY DEF IInv, CallOperation
<1>2. PICK n \in Nat : n = Len(view.orders)
  BY <1>1 DEF BatchView
<1>3. /\ op \in 1 .. Len(Tables) /\ index + 1 \in 1 .. n
      /\ Len(Tables) \in Nat
  BY <1>1, <1>2, TablesAre DEF LoopInv
<1>4. PICK row \in OrderRow : row = view.orders[index + 1]
  <2>1. view.orders \in Seq(OrderRow)
    BY <1>1 DEF BatchView
  <2> QED BY <1>2, <1>3, <2>1
<1>5. PICK table : table = Tables[op] /\ TableReadable(table, row)
  BY <1>3, TablesReadable
<1>6. w' = WriteTable(w, view, table, row)
  BY <1>4, <1>5 DEF CallOperation
<1>7. Follows(w, w') /\ (~Stopped(w') => TableIn(view, table, row))
  BY <1>1, <1>5, <1>6, WriteTableFollows, Zenon DEF TableReadable, TableIn
<1>8. /\ IsWriter(w')
      /\ ~Stopped(w') =>
           /\ \A i \in 1 .. index : RowIn(view, view.orders[i])
           /\ \A j \in 1 .. op - 1 : TableIn(view, Tables[j], row)
  BY <1>1, <1>4, <1>7 DEF Follows, LoopInv
<1>9. ~Stopped(w') => \A j \in 1 .. op : TableIn(view, Tables[j], row)
  <2> SUFFICES ASSUME ~Stopped(w'), NEW j \in 1 .. op
               PROVE  TableIn(view, Tables[j], row)
    OBVIOUS
  <2>1. j \in 1 .. op - 1 \/ j = op
    BY <1>3
  <2> QED BY <1>5, <1>7, <1>8, <2>1
<1>10. Tables' = Tables
  BY <1>1 DEF Tables
<1>11. CASE op = Len(Tables)
  <2>1. op' = 0 /\ index' = index + 1
    BY <1>11 DEF CallOperation
  <2>2. ~Stopped(w') => RowIn(view, row)
    BY <1>9, <1>11, TablesCover
  <2>3. ASSUME ~Stopped(w'), NEW i \in 1 .. index + 1
        PROVE  RowIn(view, view.orders[i])
    <3>1. i \in 1 .. index \/ i = index + 1
      BY <1>1
    <3> QED BY <1>4, <1>8, <2>2, <2>3, <3>1
  <2>4. LoopInv'
    BY <1>1, <1>2, <1>3, <2>1, <2>3 DEF LoopInv
  <2> QED BY <1>1, <1>8, <2>1, <2>4 DEF IInv, AcceptsOnlyWellFormed
<1>12. CASE op # Len(Tables)
  <2>1. op' = op + 1 /\ index' = index
    BY <1>12 DEF CallOperation
  <2>2. op + 1 <= Len(Tables) /\ (op + 1) - 1 = op
    BY <1>3, <1>12
  <2>3. LoopInv'
    BY <1>1, <1>2, <1>3, <1>4, <1>8, <1>9, <1>10, <2>1, <2>2 DEF LoopInv
  <2> QED BY <1>1, <1>8, <2>1, <2>3 DEF IInv, AcceptsOnlyWellFormed
<1> QED BY <1>11, <1>12

LEMMA LeaveLoopStep ==
  ASSUME IInv, LeaveLoop
  PROVE  IInv'
<1>1. /\ stage = "orders" /\ op = 0 /\ LoopInv /\ IsWriter(w)
      /\ index = Len(view.orders) \/ Stopped(w)
      /\ stage' = "returned" /\ backend' = backend /\ view' = view
      /\ index' = index /\ op' = op
  BY Zenon DEF IInv, LeaveLoop
<1>2. PICK x : x = (IF view.ordersNull THEN w ELSE Literal(w, RightBracket)) /\ Follows(w, x)
  BY <1>1, LiteralFollows, FollowsItself
<1>3. w' = Literal(x, Chars("}")) /\ Follows(w, w')
  BY <1>2, LiteralFollows, FollowsFurther, Zenon DEF LeaveLoop, Follows
<1>4. ASSUME w'.status = "OK" PROVE WellFormed(view)
  <2>1. ~Stopped(w)
    BY <1>3, <1>4, Zenon DEF Follows, Stopped
  <2> QED BY <1>1, <2>1 DEF LoopInv, WellFormed
<1>5. IsWriter(w')
  BY <1>3, Zenon DEF Follows
<1>6. WellFormed(view') <=> WellFormed(view)
  BY <1>1
<1> QED BY <1>1, <1>4, <1>5, <1>6 DEF IInv, AcceptsOnlyWellFormed

LEMMA ExitStep ==
  ASSUME IInv, Exit
  PROVE  IInv'
<1>1. IsWriter(w')
  BY WriterIs DEF Exit, Statuses
<1> QED BY <1>1 DEF IInv, Exit, AcceptsOnlyWellFormed

(* The invariant, one lemma per action above.                              *)
LEMMA StepIInv == IInv /\ [NativeNext]_nativeVars => IInv'
<1> SUFFICES ASSUME IInv, [NativeNext]_nativeVars PROVE IInv'
  OBVIOUS
<1>1. ASSUME NEW v \in Views, NEW cap \in Sizes, Enter(v, cap) PROVE IInv'
  BY <1>1, EnterStep, RowsAssumption
<1>2. CASE NativeStep
  BY <1>2, BeginOrderStep, CallOperationStep, LeaveLoopStep DEF NativeStep
<1>3. CASE Exit
  BY <1>3, ExitStep
<1>4. CASE UNCHANGED nativeVars
  BY <1>4, Zenon DEF nativeVars, IInv, LoopInv, AcceptsOnlyWellFormed, WellFormed, Tables
<1> QED BY <1>1, <1>2, <1>3, <1>4 DEF NativeNext

LEMMA Invariance == NativeSpec => []IInv
BY Initially, StepIInv, PTL DEF NativeSpec

(* Whatever rows it is given, jitjson_encoder_encode answers OK only if    *)
(* every reference that it followed lies in the arena, every range of      *)
(* items in the items, and a null list counts none, for any number of      *)
(* orders and items and for both back ends (writer_linux_amd64.c:82-94,    *)
(* 178-213, bridge_linux_amd64.c:69-77).                                   *)
THEOREM OnlyWellFormed == NativeSpec => []AcceptsOnlyWellFormed
<1>1. IInv => AcceptsOnlyWellFormed
  BY DEF IInv
<1> QED BY <1>1, Invariance, PTL

-----------------------------------------------------------------------------
(* The loop and what it calls.  A writer that could still write has no     *)
(* other error than NO_SPACE after a literal text.                         *)
LEMMA LiteralStatus ==
  ASSUME NEW x, IsWriter(x), x.status \in {"OK", "NO_SPACE"}, NEW text
  PROVE  Literal(x, text).status \in {"OK", "NO_SPACE"}
<1>1. PICK t, c, s : /\ x = [text |-> t, cap |-> c, status |-> s]
                     /\ s \in {"OK", "NO_SPACE"}
  BY DEF IsWriter
<1>2. PICK y, u : y = Literal(x, text) /\ u = t \o text
  BY Zenon
<1>3. \/ y = x
      \/ y = [text |-> t, cap |-> c, status |-> "NO_SPACE"]
      \/ y = [text |-> u, cap |-> c, status |-> s]
  BY <1>1, <1>2, Zenon DEF Literal
<1>4. y.status \in {"OK", "NO_SPACE"}
  BY <1>1, <1>3
<1> QED BY <1>2, <1>4

LEMMA StartedStatus ==
  ASSUME NEW v, NEW cap
  PROVE  Started(v, cap).status \in {"OK", "NO_SPACE"}
<1>1. PICK x : x = Literal(Writer(<<>>, cap, "OK"), Chars("{\"orders\":"))
  BY Zenon
<1>2. IsWriter(x) /\ x.status \in {"OK", "NO_SPACE"}
  <2>1. PICK z : z = Writer(<<>>, cap, "OK")
    OBVIOUS
  <2>2. IsWriter(z) /\ z.status \in {"OK", "NO_SPACE"}
    BY <2>1 DEF Writer, IsWriter, Statuses
  <2> QED BY <1>1, <2>1, <2>2, LiteralFollows, LiteralStatus, Zenon DEF Follows
<1>3. Literal(x, IF v.ordersNull THEN Chars("null") ELSE LeftBracket).status \in {"OK", "NO_SPACE"}
  BY <1>2, LiteralStatus
<1> QED BY <1>1, <1>3, Zenon DEF Started

(* The operations that have returned, one more each time.                  *)
LEMMA OperationsDone ==
  ASSUME NEW i \in 1 .. 8
  PROVE  /\ Len(SubSeq(Operations, 1, i - 1)) = i - 1
         /\ Append(SubSeq(Operations, 1, i - 1), Operations[i]) = SubSeq(Operations, 1, i)
<1>1. PICK s : s = Operations
  OBVIOUS
<1>2. PICK T : \A k \in 1 .. 8 : s[k] \in T
  <2>1. \A k \in 1 .. 8 : s[k] \in {s[j] : j \in 1 .. 8}
    OBVIOUS
  <2> QED BY <2>1, Zenon
<1>3. PICK a, b : a = SubSeq(s, 1, i - 1) /\ b = SubSeq(s, 1, i)
  BY Zenon
<1>4. /\ a \in Seq(T) /\ Len(a) = i - 1
      /\ \A k \in 1 .. i - 1 : a[k] = s[k]
  <2>1. \A k \in 1 .. i - 1 : s[k] \in T
    BY <1>2
  <2>2. /\ a \in Seq(T)
        /\ Len(a) = IF 1 <= i - 1 THEN (i - 1) - 1 + 1 ELSE 0
        /\ \A k \in 1 .. (i - 1) - 1 + 1 : a[k] = s[1 + k - 1]
    BY <1>3, <2>1, SubSeqProperties
  <2> QED BY <2>2
<1>5. /\ b \in Seq(T) /\ Len(b) = i
      /\ \A k \in 1 .. i : b[k] = s[k]
  <2>1. \A k \in 1 .. i : s[k] \in T
    BY <1>2
  <2>2. /\ b \in Seq(T)
        /\ Len(b) = IF 1 <= i THEN i - 1 + 1 ELSE 0
        /\ \A k \in 1 .. i - 1 + 1 : b[k] = s[1 + k - 1]
    BY <1>3, <2>1, SubSeqProperties
  <2> QED BY <2>2
<1>6. s[i] \in T
  BY <1>2
<1>7. Append(a, s[i]) = b
  <2>1. Append(a, s[i]) \in Seq(T) /\ Len(Append(a, s[i])) = i
    BY <1>4, <1>6
  <2>2. ASSUME NEW k \in 1 .. i PROVE Append(a, s[i])[k] = b[k]
    BY <1>4, <1>5, <1>6
  <2> QED BY <1>5, <2>1, <2>2, SeqEqual
<1> QED BY <1>1, <1>3, <1>4, <1>7

(* An order is left when all of its operations have been called.           *)
LEMMA AllDone ==
  /\ SubSeq(Operations, 1, 8) = Operations
  /\ SubSeq(Operations, 1, 0) = <<>>
  /\ Len(Operations) = 8
<1>1. SubSeq(Operations, 1, 8) = Operations
  <2>1. PICK T : T = {Operations[k] : k \in 1 .. 8}
    BY Zenon
  <2>2. Operations \in Seq(T)
    <3>1. \A k \in 1 .. 8 : Operations[k] \in T
      BY <2>1
    <3> QED BY <3>1, OperationsAre DEF Operations
  <2>3. PICK s \in Seq(T) : s = Operations /\ Len(s) = 8
    BY <2>2, OperationsAre
  <2>4. PICK b : b = SubSeq(s, 1, 8)
    BY Zenon
  <2>5. \A k \in 1 .. 8 : s[k] \in T
    BY <2>1, <2>3
  <2>6. /\ b \in Seq(T)
        /\ Len(b) = IF 1 <= 8 THEN 8 - 1 + 1 ELSE 0
        /\ \A k \in 1 .. 8 - 1 + 1 : b[k] = s[1 + k - 1]
    BY <2>4, <2>5, SubSeqProperties
  <2>7. Len(b) = 8 /\ \A k \in 1 .. 8 : b[k] = s[k]
    BY <2>6
  <2>8. b = s
    BY <2>3, <2>6, <2>7, SeqEqual, Zenon
  <2> QED BY <2>3, <2>4, <2>8
<1>2. SubSeq(Operations, 1, 0) = <<>>
  BY SubSeqEmpty
<1> QED BY <1>1, <1>2, OperationsAre

LEMMA CallsInitially == NativeInit => Calls!Init
BY DEF NativeInit, Calls!Init, InLoop

LEMMA EnterCalls ==
  ASSUME IInv, NEW v \in Views, NEW cap \in Sizes, Enter(v, cap)
  PROVE  Calls!Enter \/ UNCHANGED Calls!vars
<1>1. /\ ~InLoop /\ view' = v /\ backend' = backend /\ index' = 0 /\ op' = 0
      /\ v \in BatchView
  BY RowsAssumption, Zenon DEF IInv, Enter, InLoop
<1>2. CASE InLoop'
  <2>1. w' = Started(v, cap)
    BY <1>2, Zenon DEF Enter, Started, InLoop
  <2>2. w'.status \in {"OK", "NO_SPACE"}
    BY <2>1, StartedStatus
  <2>3. Len(v.orders) \in Nat
    BY <1>1 DEF BatchView
  <2> QED BY <1>1, <1>2, <2>2, <2>3 DEF Calls!Enter
<1>3. CASE ~InLoop'
  BY <1>1, <1>3 DEF Calls!vars
<1> QED BY <1>2, <1>3

LEMMA BeginOrderCalls ==
  ASSUME IInv, BeginOrder
  PROVE  Calls!Begin \/ UNCHANGED Calls!vars
<1>1. /\ stage = "orders" /\ op = 0 /\ op' = 1 /\ index < Len(view.orders)
      /\ w' = Separated(w) /\ IsWriter(w) /\ w.status = "OK"
      /\ stage' = stage /\ backend' = backend /\ view' = view /\ index' = index
      /\ InLoop' = InLoop /\ index \in Nat
  BY DEF IInv, BeginOrder, InLoop, Stopped
<1>2. CASE InLoop
  <2>1. w'.status \in IF index = 0 THEN {"OK"} ELSE {"OK", "NO_SPACE"}
    <3>1. CASE index = 0
      BY <1>1, <3>1 DEF Separated
    <3>2. CASE index # 0
      BY <1>1, <3>2, LiteralStatus DEF Separated
    <3> QED BY <3>1, <3>2
  <2>2. op' - 1 = 0
    BY <1>1
  <2> QED BY <1>1, <1>2, <2>1, <2>2, AllDone DEF Calls!Begin
<1>3. CASE ~InLoop
  BY <1>1, <1>3 DEF Calls!vars
<1> QED BY <1>2, <1>3

LEMMA CallOperationCalls ==
  ASSUME IInv, CallOperation
  PROVE  Calls!Operation \/ UNCHANGED Calls!vars
<1>1. /\ stage = "orders" /\ op > 0 /\ LoopInv /\ IsWriter(w)
      /\ index \in Nat /\ op \in Nat /\ view \in BatchView
      /\ stage' = stage /\ backend' = backend /\ view' = view
      /\ InLoop' = InLoop
  BY DEF IInv, CallOperation, InLoop
<1>2. CASE InLoop
  <2>1. Len(Tables) = 8 /\ op \in 1 .. 8
    <3>1. backend # "static"
      BY <1>2 DEF InLoop
    <3>2. Len(Tables) = 8
      BY <3>1, TablesAre
    <3> QED BY <1>1, <3>2 DEF LoopInv
  <2>2. PICK row \in OrderRow : row = view.orders[index + 1]
    <3>1. view.orders \in Seq(OrderRow) /\ index + 1 \in 1 .. Len(view.orders)
      BY <1>1 DEF BatchView, LoopInv
    <3> QED BY <3>1
  <2>3. PICK table : table = Tables[op] /\ TableReadable(table, row)
    BY <2>1, <2>2, TablesReadable
  <2>4. w' = WriteTable(w, view, table, row)
    BY <2>2, <2>3 DEF CallOperation
  <2>5. Follows(w, w')
    BY <1>1, <2>3, <2>4, WriteTableFollows, Zenon DEF TableReadable
  <2>6. w'.status \in {"NO_SPACE", "INVALID_ARGUMENT"}
                        \cup (IF w.status = "OK" THEN {"OK"} ELSE {})
    BY <2>5 DEF Follows, IsWriter, Statuses, Stopped
  <2>7. PICK done : done = SubSeq(Operations, 1, op - 1)
    BY Zenon
  <2>8. Len(done) < Len(Operations) /\ Len(done) + 1 = op
    BY <2>1, <2>7, OperationsDone, AllDone
  <2>9. CASE op = 8
    <3>1. op' = 0 /\ index' = index + 1
      BY <2>1, <2>9 DEF CallOperation
    <3>2. Append(done, Operations[Len(done) + 1]) = Operations
      BY <2>1, <2>7, <2>8, <2>9, OperationsDone, AllDone
    <3> QED BY <1>1, <1>2, <2>6, <2>7, <2>8, <3>1, <3>2 DEF Calls!Operation
  <2>10. CASE op # 8
    <3>1. op' = op + 1 /\ index' = index /\ op' > 0 /\ op' - 1 = op
      BY <2>1, <2>10 DEF CallOperation
    <3>2. Append(done, Operations[Len(done) + 1]) = SubSeq(Operations, 1, op)
      BY <2>1, <2>7, <2>8, OperationsDone
    <3> QED BY <1>1, <1>2, <2>6, <2>7, <2>8, <3>1, <3>2 DEF Calls!Operation
  <2> QED BY <2>9, <2>10
<1>3. CASE ~InLoop
  BY <1>1, <1>3 DEF Calls!vars
<1> QED BY <1>2, <1>3

LEMMA LeaveLoopCalls ==
  ASSUME IInv, LeaveLoop
  PROVE  Calls!Enter \/ UNCHANGED Calls!vars
<1>1. /\ op = 0 /\ ~InLoop' /\ (index = Len(view.orders) \/ w.status # "OK")
  BY Zenon DEF LeaveLoop, InLoop, Stopped
<1>2. CASE InLoop
  BY <1>1, <1>2 DEF Calls!Enter
<1>3. CASE ~InLoop
  BY <1>1, <1>3 DEF Calls!vars
<1> QED BY <1>2, <1>3

(* Each step is a step of OrderCalls or none.                              *)
LEMMA CallsStep ==
  IInv /\ [NativeNext]_nativeVars => [Calls!Next]_(Calls!vars)
<1> SUFFICES ASSUME IInv, [NativeNext]_nativeVars
             PROVE  [Calls!Next]_(Calls!vars)
  OBVIOUS
<1>1. ASSUME NEW v \in Views, NEW cap \in Sizes, Enter(v, cap)
      PROVE  [Calls!Next]_(Calls!vars)
  BY <1>1, EnterCalls DEF Calls!Next
<1>2. CASE BeginOrder
  BY <1>2, BeginOrderCalls DEF Calls!Next, Calls!Loop
<1>3. CASE CallOperation
  BY <1>3, CallOperationCalls DEF Calls!Next, Calls!Loop
<1>4. CASE LeaveLoop
  BY <1>4, LeaveLoopCalls DEF Calls!Next
<1>5. CASE Exit
  <2>1. ~InLoop /\ ~InLoop'
    BY <1>5 DEF Exit, InLoop
  <2> QED BY <2>1 DEF Calls!vars
<1>6. CASE UNCHANGED nativeVars
  BY <1>6 DEF nativeVars, Calls!vars, InLoop
<1> QED BY <1>1, <1>2, <1>3, <1>4, <1>5, <1>6 DEF NativeNext, NativeStep

(* jitjson_encoder_encode, with whatever rows, is the loop of OrderCalls:  *)
(* it begins an order only while no write has failed, has all of its       *)
(* operations called in their order, whatever they set, and no operation   *)
(* makes a failed status OK again (bridge_linux_amd64.c:86-111).           *)
THEOREM EncodesByCalls == NativeSpec => ImplementsCalls
BY CallsInitially, CallsStep, Invariance, PTL
   DEF NativeSpec, ImplementsCalls, Calls!Safe

-----------------------------------------------------------------------------
(* The two back ends.  Steps after steps are steps.                        *)
Joined(f, g, a, b) == [k \in 0 .. a + b |-> IF k <= a THEN f[k] ELSE g[k - a]]

(* The steps of table are those of whole that come after the first a.      *)
PartOf(table, whole, a, b) == \A k \in 1 .. b : whole[a + k] = table[k]

(* A table cut in two: the steps of the second part go on from where the   *)
(* first one stopped.                                                      *)
LEMMA RowStepsJoin ==
  ASSUME NEW a \in Nat, NEW b \in Nat, NEW f, NEW g, NEW x, NEW v, NEW row,
         NEW table, NEW whole,
         RowSteps(f, a, x, v, whole, row),
         RowSteps(g, b, f[a], v, table, row),
         PartOf(table, whole, a, b)
  PROVE  \E h : RowSteps(h, a + b, x, v, whole, row) /\ h[a + b] = g[b]
<1>1. PICK h : h = Joined(f, g, a, b)
  OBVIOUS
<1>2. /\ h = [k \in 0 .. a + b |-> h[k]]
      /\ \A k \in 0 .. a + b : h[k] = IF k <= a THEN f[k] ELSE g[k - a]
  BY <1>1 DEF Joined
<1>3. h[0] = x
  BY <1>2 DEF RowSteps
<1>4. g[0] = f[a]
  BY DEF RowSteps
<1>5. h[a + b] = g[b]
  <2>1. CASE b = 0
    BY <1>2, <1>4, <2>1
  <2>2. CASE b # 0
    <3>1. a + b \in 0 .. a + b /\ ~(a + b <= a) /\ (a + b) - a = b
      BY <2>2
    <3> QED BY <1>2, <3>1
  <2> QED BY <2>1, <2>2
<1>6. ASSUME NEW k \in 1 .. a + b PROVE h[k] = RowStep(h[k - 1], v, whole[k], row)
  <2>1. k \in 0 .. a + b /\ k - 1 \in 0 .. a + b
    OBVIOUS
  <2>2. CASE k <= a
    <3>1. k \in 1 .. a /\ k - 1 <= a
      BY <2>2
    <3>2. h[k] = f[k] /\ h[k - 1] = f[k - 1]
      BY <1>2, <2>1, <2>2, <3>1
    <3> QED BY <3>1, <3>2, Zenon DEF RowSteps
  <2>3. CASE ~(k <= a)
    <3>1. PICK j \in 1 .. b : j = k - a
      BY <2>3
    <3>2. h[k] = g[j]
      BY <1>2, <2>1, <2>3, <3>1
    <3>3. h[k - 1] = g[j - 1]
      <4>1. CASE j = 1
        <5>1. k - 1 = a /\ j - 1 = 0
          BY <3>1, <4>1
        <5> QED BY <1>2, <1>4, <2>1, <5>1
      <4>2. CASE j # 1
        <5>1. ~(k - 1 <= a) /\ (k - 1) - a = j - 1
          BY <3>1, <4>2
        <5> QED BY <1>2, <2>1, <5>1, Zenon
      <4> QED BY <4>1, <4>2
    <3>4. whole[k] = table[j]
      <4>1. a + j = k
        BY <3>1
      <4> QED BY <4>1 DEF PartOf
    <3> QED BY <3>2, <3>3, <3>4, Zenon DEF RowSteps
  <2> QED BY <2>2, <2>3
<1>7. RowSteps(h, a + b, x, v, whole, row)
  BY <1>2, <1>3, <1>6, Zenon DEF RowSteps
<1> QED BY <1>5, <1>7

LEMMA RowStepsSame ==
  ASSUME NEW n \in Nat, NEW f, NEW g, NEW x, NEW v, NEW table, NEW row,
         RowSteps(f, n, x, v, table, row), RowSteps(g, n, x, v, table, row)
  PROVE  f[n] = g[n]
<1> DEFINE T == {k \in Nat : k <= n => f[k] = g[k]}
<1>1. 0 \in T
  BY DEF RowSteps
<1>2. ASSUME NEW k \in Nat, k \in T PROVE k + 1 \in T
  <2> SUFFICES ASSUME k + 1 <= n PROVE f[k + 1] = g[k + 1]
    OBVIOUS
  <2>1. k + 1 \in 1 .. n /\ (k + 1) - 1 = k /\ f[k] = g[k]
    BY <1>2
  <2> QED BY <2>1, Zenon DEF RowSteps
<1>3. Nat \subseteq T
  <2> HIDE DEF T
  <2> QED BY <1>1, <1>2, Induction
<1>4. n \in T /\ n <= n
  BY <1>3
<1> QED BY <1>4

LEMMA StepsAreTable ==
  ASSUME NEW n \in Nat, NEW f, NEW x, NEW v, NEW table, NEW row,
         n = Len(table), RowSteps(f, n, x, v, table, row)
  PROVE  WriteTable(x, v, table, row) = f[n]
<1>1. PICK g : /\ RowSteps(g, n, x, v, table, row)
               /\ WriteTable(x, v, table, row) = g[n]
  BY WriteTableSteps
<1> QED BY <1>1, RowStepsSame

(* The step of the static table that an operation begins after.            *)
Starts == << 0, 2, 4, 6, 10, 14, 20, 22 >>

Before(o) == IF backend = "static" THEN 0 ELSE Starts[o]

(* The table of an operation is a part of the static one.                  *)
Part(table, a, b) ==
  /\ a \in Nat
  /\ b \in Nat
  /\ b = Len(table)
  /\ PartOf(table, StaticTable, a, b)

LEMMA StaticLength == Len(StaticTable) = 25
BY DEF StaticTable

(* Each operation is a part of the static table, beginning where the one   *)
(* before it ended.                                                        *)
LEMMA OperationIsPart ==
  ASSUME NEW i \in 1 .. 8
  PROVE  /\ Starts[i] \in Nat
         /\ \E b \in Nat :
              /\ Part(OperationTable(Operations[i]), Starts[i], b)
              /\ IF i = 8 THEN Starts[i] + b = 25 ELSE Starts[i] + b = Starts[i + 1]
<1>1. CASE i = 1
  <2>1. Part(OperationTable("order_id"), 0, 2)
    BY DEF Part, PartOf, OperationTable, StaticTable
  <2> QED BY <1>1, <2>1, OperationsAre DEF Starts
<1>2. CASE i = 2
  <2>1. Part(OperationTable("created_at"), 2, 2)
    BY DEF Part, PartOf, OperationTable, StaticTable
  <2> QED BY <1>2, <2>1, OperationsAre DEF Starts
<1>3. CASE i = 3
  <2>1. Part(OperationTable("status"), 4, 2)
    BY DEF Part, PartOf, OperationTable, StaticTable
  <2> QED BY <1>3, <2>1, OperationsAre DEF Starts
<1>4. CASE i = 4
  <2>1. Part(OperationTable("payment"), 6, 4)
    BY DEF Part, PartOf, OperationTable, StaticTable
  <2> QED BY <1>4, <2>1, OperationsAre DEF Starts
<1>5. CASE i = 5
  <2>1. Part(OperationTable("buyer"), 10, 4)
    BY DEF Part, PartOf, OperationTable, StaticTable
  <2> QED BY <1>5, <2>1, OperationsAre DEF Starts
<1>6. CASE i = 6
  <2>1. Part(OperationTable("shipping"), 14, 6)
    BY DEF Part, PartOf, OperationTable, StaticTable
  <2> QED BY <1>6, <2>1, OperationsAre DEF Starts
<1>7. CASE i = 7
  <2>1. Part(OperationTable("items"), 20, 2)
    BY DEF Part, PartOf, OperationTable, StaticTable
  <2> QED BY <1>7, <2>1, OperationsAre DEF Starts
<1>8. CASE i = 8
  <2>1. Part(OperationTable("remark"), 22, 3)
    BY DEF Part, PartOf, OperationTable, StaticTable
  <2> QED BY <1>8, <2>1, OperationsAre DEF Starts
<1> QED BY <1>1, <1>2, <1>3, <1>4, <1>5, <1>6, <1>7, <1>8

LEMMA StaticIsPart == Part(StaticTable, 0, 25)
BY StaticLength DEF Part, PartOf

LEMMA TablesAreParts ==
  ASSUME NEW o \in 1 .. Len(Tables)
  PROVE  \E b \in Nat :
           /\ Part(Tables[o], Before(o), b)
           /\ IF o = Len(Tables) THEN Before(o) + b = 25
              ELSE Before(o) + b = Before(o + 1)
<1>1. CASE backend = "static"
  <2>1. o = 1 /\ Len(Tables) = 1 /\ Tables[o] = StaticTable /\ Before(o) = 0
    BY <1>1, TablesAre DEF Before
  <2>2. Part(Tables[o], Before(o), 25) /\ 0 + 25 = 25
    BY <2>1, StaticIsPart
  <2> QED BY <2>1, <2>2
<1>2. CASE backend # "static"
  <2>1. o \in 1 .. 8 /\ Len(Tables) = 8 /\ Tables[o] = OperationTable(Operations[o])
    BY <1>2, TablesAre, Zenon
  <2> QED BY <1>2, <2>1, OperationIsPart DEF Before
<1> QED BY <1>1, <1>2

(* The writers of the static function, order by order, and that they are   *)
(* the only ones.                                                          *)
OrderTurns(after, n, v, cap) ==
  /\ after = [i \in 0 .. n |-> after[i]]
  /\ after[0] = Started(v, cap)
  /\ \A i \in 1 .. n : after[i] = StaticOrder(after[i - 1], v, i)

LEMMA OrderTurnsMore ==
  ASSUME NEW n \in Nat, NEW f, NEW v, NEW cap, OrderTurns(f, n, v, cap)
  PROVE  \E h : /\ OrderTurns(h, n + 1, v, cap)
                /\ h[n] = f[n]
                /\ h[n + 1] = StaticOrder(f[n], v, n + 1)
<1>1. PICK z : z = StaticOrder(f[n], v, n + 1)
  OBVIOUS
<1>2. PICK h : Extends(h, f, n, z)
  BY OneMore
<1>3. n \in 0 .. n /\ 0 \in 0 .. n
  OBVIOUS
<1>4. ASSUME NEW i \in 1 .. n + 1 PROVE h[i] = StaticOrder(h[i - 1], v, i)
  <2>1. CASE i \in 1 .. n
    <3>1. i \in 0 .. n /\ i - 1 \in 0 .. n
      BY <2>1
    <3> QED BY <1>2, <2>1, <3>1, Zenon DEF OrderTurns, Extends
  <2>2. CASE i = n + 1
    <3>1. i - 1 = n
      BY <2>2
    <3> QED BY <1>1, <1>2, <1>3, <2>2, <3>1 DEF Extends
  <2>3. i \in 1 .. n \/ i = n + 1
    OBVIOUS
  <2> QED BY <2>1, <2>2, <2>3
<1>5. OrderTurns(h, n + 1, v, cap)
  BY <1>2, <1>3, <1>4, Zenon DEF OrderTurns, Extends
<1>6. h[n] = f[n] /\ h[n + 1] = z
  BY <1>2, <1>3 DEF Extends
<1> QED BY <1>1, <1>5, <1>6

LEMMA OrderTurnsFirst ==
  ASSUME NEW v, NEW cap
  PROVE  \E f : OrderTurns(f, 0, v, cap) /\ f[0] = Started(v, cap)
<1>1. PICK z : z = Started(v, cap)
  OBVIOUS
<1>2. PICK f : f = [i \in 0 .. 0 |-> z]
  BY Zenon
<1>3. OrderTurns(f, 0, v, cap) /\ f[0] = z
  BY <1>1, <1>2 DEF OrderTurns
<1> QED BY <1>1, <1>3

LEMMA OrderTurnsExist ==
  ASSUME NEW n \in Nat, NEW v, NEW cap
  PROVE  \E f : OrderTurns(f, n, v, cap)
<1> DEFINE T == {m \in Nat : \E f : OrderTurns(f, m, v, cap)}
<1>1. 0 \in T
  BY OrderTurnsFirst
<1>2. ASSUME NEW m \in Nat, m \in T PROVE m + 1 \in T
  BY <1>2, OrderTurnsMore
<1>3. Nat \subseteq T
  <2> HIDE DEF T
  <2> QED BY <1>1, <1>2, Induction
<1> QED BY <1>3

(* As many turns over the orders leave the same writer, whoever counts     *)
(* them.                                                                   *)
LEMMA OrderTurnsSame ==
  ASSUME NEW n \in Nat, NEW f, NEW g, NEW v, NEW cap,
         OrderTurns(f, n, v, cap), OrderTurns(g, n, v, cap)
  PROVE  f[n] = g[n]
<1> DEFINE T == {k \in Nat : k <= n => f[k] = g[k]}
<1>1. 0 \in T
  BY DEF OrderTurns
<1>2. ASSUME NEW k \in Nat, k \in T PROVE k + 1 \in T
  <2> SUFFICES ASSUME k + 1 <= n PROVE f[k + 1] = g[k + 1]
    OBVIOUS
  <2>1. k + 1 \in 1 .. n /\ (k + 1) - 1 = k /\ f[k] = g[k]
    BY <1>2
  <2> QED BY <2>1, Zenon DEF OrderTurns
<1>3. Nat \subseteq T
  <2> HIDE DEF T
  <2> QED BY <1>1, <1>2, Induction
<1>4. n \in T /\ n <= n
  BY <1>3
<1> QED BY <1>4

(* Once a writer has failed the static function leaves it as it is.        *)
LEMMA OrderTurnsStop ==
  ASSUME NEW m \in Nat, NEW n \in Nat, m <= n, NEW f, NEW v, NEW cap,
         OrderTurns(f, m, v, cap), m = n \/ Stopped(f[m])
  PROVE  \E h : OrderTurns(h, n, v, cap) /\ h[n] = f[m]
<1> DEFINE T == {k \in Nat : \E h : OrderTurns(h, m + k, v, cap) /\ h[m + k] = f[m]}
<1>1. CASE m = n
  BY <1>1
<1>2. CASE Stopped(f[m])
  <2>1. 0 \in T
    <3>1. m + 0 = m
      OBVIOUS
    <3> QED BY <3>1
  <2>2. ASSUME NEW k \in Nat, k \in T PROVE k + 1 \in T
    <3>1. PICK g : OrderTurns(g, m + k, v, cap) /\ g[m + k] = f[m]
      BY <2>2
    <3>2. PICK j \in Nat : j = m + k
      OBVIOUS
    <3>3. PICK h : /\ OrderTurns(h, j + 1, v, cap)
                   /\ h[j + 1] = StaticOrder(g[j], v, j + 1)
      BY <3>1, <3>2, OrderTurnsMore
    <3>4. h[j + 1] = f[m]
      BY <1>2, <3>1, <3>2, <3>3 DEF StaticOrder
    <3>5. j + 1 = m + (k + 1)
      BY <3>2
    <3> QED BY <3>3, <3>4, <3>5
  <2>3. Nat \subseteq T
    <3> HIDE DEF T
    <3> QED BY <2>1, <2>2, Induction
  <2>4. n - m \in T /\ m + (n - m) = n
    BY <2>3
  <2> QED BY <2>4
<1> QED BY <1>1, <1>2

(* What follows the orders.                                                *)
Closed(x, v) == Literal(IF v.ordersNull THEN x ELSE Literal(x, RightBracket), Chars("}"))

(* The static function, as the turns over the orders and the brackets.     *)
LEMMA StaticRunTurns ==
  ASSUME NEW v, NEW cap, NEW n \in Nat, n = Len(v.orders),
         NEW f, OrderTurns(f, n, v, cap)
  PROVE  StaticRun(v, cap) = Closed(f[n], v)
<1> DEFINE Solves(h) ==
      h = [i \in 0 .. n |->
             IF i = 0 THEN Started(v, cap)
             ELSE StaticOrder(h[i - 1], v, i)]
<1>1. Solves(f)
  <2>1. ASSUME NEW i \in 0 .. n
        PROVE  f[i] = IF i = 0 THEN Started(v, cap) ELSE StaticOrder(f[i - 1], v, i)
    <3>1. CASE i = 0
      BY <3>1 DEF OrderTurns
    <3>2. CASE i # 0
      <4>1. i \in 1 .. n
        BY <3>2
      <4> QED BY <3>2, <4>1, Zenon DEF OrderTurns
    <3> QED BY <3>1, <3>2
  <2>2. f = [i \in 0 .. n |-> f[i]]
    BY DEF OrderTurns
  <2> QED BY <2>1, <2>2
<1>2. PICK g : g = CHOOSE h : Solves(h)
  OBVIOUS
<1>3. Solves(g)
  <2> HIDE DEF Solves
  <2> QED BY <1>1, <1>2
<1>4. StaticRun(v, cap) = Closed(g[n], v)
  BY <1>2 DEF StaticRun, Closed
<1>5. OrderTurns(g, n, v, cap)
  <2>1. \A i \in 0 .. n : g[i] = IF i = 0 THEN Started(v, cap)
                                 ELSE StaticOrder(g[i - 1], v, i)
    BY <1>3, Zenon
  <2>2. g = [i \in 0 .. n |-> g[i]]
    BY <1>3
  <2>3. g[0] = Started(v, cap)
    BY <2>1
  <2>4. \A i \in 1 .. n : g[i] = StaticOrder(g[i - 1], v, i)
    BY <2>1
  <2> QED BY <2>2, <2>3, <2>4, Zenon DEF OrderTurns
<1>6. f[n] = g[n]
  BY <1>5, OrderTurnsSame
<1> QED BY <1>4, <1>6

LEMMA StartedCap ==
  ASSUME NEW v, NEW cap
  PROVE  Started(v, cap).cap = cap
<1>1. PICK z : z = Writer(<<>>, cap, "OK")
  OBVIOUS
<1>2. IsWriter(z) /\ z.cap = cap
  BY <1>1 DEF Writer, IsWriter, Statuses
<1>3. PICK x : x = Literal(z, Chars("{\"orders\":")) /\ Follows(z, x)
  BY <1>2, LiteralFollows, Zenon
<1>4. Follows(x, Literal(x, IF v.ordersNull THEN Chars("null") ELSE LeftBracket))
  BY <1>3, LiteralFollows, Zenon DEF Follows
<1> QED BY <1>1, <1>2, <1>3, <1>4, Zenon DEF Follows, Started

-----------------------------------------------------------------------------
(* Between two orders the writer is the one that the static function would *)
(* have; within an order it is the one that the static function would have *)
(* after the steps of the operations that were called.                     *)
Partly(x) ==
  \E after :
    /\ RowSteps(after, Before(op), Separated(x), view, StaticTable,
                view.orders[index + 1])
    /\ w = after[Before(op)]

LoopAgrees ==
  \E rows :
    /\ OrderTurns(rows, index, view, w.cap)
    /\ op = 0 => w = rows[index]
    /\ op > 0 => ~Stopped(rows[index]) /\ Partly(rows[index])

AgreeInv ==
  /\ stage = "orders" => ~BadArguments(view, w.cap) /\ LoopAgrees
  /\ BackendsAgree

LEMMA EnterAgrees ==
  ASSUME IInv, NEW v, NEW cap, Enter(v, cap)
  PROVE  AgreeInv'
<1>1. view' = v /\ index' = 0 /\ op' = 0
  BY Zenon DEF IInv, Enter
<1>2. CASE BadArguments(v, cap)
  <2>1. w' = Writer(<<>>, cap, "INVALID_ARGUMENT") /\ stage' = "returned"
    BY <1>2 DEF Enter
  <2>2. w'.cap = cap
    BY <2>1 DEF Writer
  <2> QED BY <1>1, <1>2, <2>1, <2>2 DEF AgreeInv, BackendsAgree
<1>3. CASE ~BadArguments(v, cap)
  <2>1. w' = Started(v, cap) /\ stage' = "orders"
    BY <1>3, Zenon DEF Enter, Started
  <2>2. w'.cap = cap
    BY <2>1, StartedCap
  <2>3. PICK rows : OrderTurns(rows, 0, v, cap) /\ rows[0] = Started(v, cap)
    BY OrderTurnsFirst
  <2>4. LoopAgrees'
    BY <1>1, <2>1, <2>2, <2>3 DEF LoopAgrees
  <2> QED BY <1>1, <1>3, <2>1, <2>2, <2>4 DEF AgreeInv, BackendsAgree
<1> QED BY <1>2, <1>3

(* No step of a table has been taken when an order begins.                 *)
LEMMA NoStepTaken ==
  ASSUME NEW x, NEW v, NEW table, NEW row
  PROVE  \E after : RowSteps(after, 0, x, v, table, row) /\ after[0] = x
<1>1. PICK z : z = x
  OBVIOUS
<1>2. PICK after : after = [k \in 0 .. 0 |-> z]
  BY Zenon
<1>3. RowSteps(after, 0, x, v, table, row) /\ after[0] = x
  BY <1>1, <1>2 DEF RowSteps
<1> QED BY <1>3

(* The comma in front of an order belongs to the turn of that order.       *)
LEMMA BeginOrderAgrees ==
  ASSUME IInv, AgreeInv, BeginOrder
  PROVE  AgreeInv'
<1>1. /\ stage = "orders" /\ op = 0 /\ op' = 1 /\ ~Stopped(w)
      /\ w' = Separated(w) /\ IsWriter(w) /\ ~BadArguments(view, w.cap)
      /\ stage' = stage /\ view' = view /\ index' = index /\ backend' = backend
  BY DEF IInv, AgreeInv, BeginOrder
<1>2. w'.cap = w.cap
  BY <1>1, LiteralFollows DEF Separated, Follows
<1>3. PICK rows : OrderTurns(rows, index, view, w.cap) /\ w = rows[index]
  BY <1>1 DEF AgreeInv, LoopAgrees
<1>4. PICK row : row = view.orders[index + 1]
  OBVIOUS
<1>5. Before(op)' = 0
  BY <1>1 DEF Before, Starts
<1>6. PICK after : /\ RowSteps(after, 0, Separated(w), view, StaticTable, row)
                   /\ after[0] = Separated(w)
  BY NoStepTaken
<1>7. Separated(rows[index])' = Separated(w)
  BY <1>1, <1>3 DEF Separated
<1>8. Partly(rows[index])'
  BY <1>1, <1>4, <1>5, <1>6, <1>7 DEF Partly
<1>9. LoopAgrees'
  BY <1>1, <1>2, <1>3, <1>8 DEF LoopAgrees
<1> QED BY <1>1, <1>2, <1>9 DEF AgreeInv, BackendsAgree

(* An operation is the part of the static table that it was cut from.      *)
LEMMA CallOperationAgrees ==
  ASSUME IInv, AgreeInv, CallOperation
  PROVE  AgreeInv'
<1>1. /\ stage = "orders" /\ op > 0 /\ op \in Nat /\ LoopInv /\ IsWriter(w)
      /\ ~BadArguments(view, w.cap) /\ index \in Nat /\ view \in BatchView
      /\ stage' = stage /\ view' = view /\ backend' = backend
  BY DEF IInv, AgreeInv, CallOperation
<1>2. op \in 1 .. Len(Tables)
  BY <1>1, TablesAre DEF LoopInv
<1>3. PICK rows : /\ OrderTurns(rows, index, view, w.cap)
                  /\ ~Stopped(rows[index]) /\ Partly(rows[index])
  BY <1>1 DEF AgreeInv, LoopAgrees
<1>4. PICK row \in OrderRow : row = view.orders[index + 1]
  <2>1. view.orders \in Seq(OrderRow) /\ index + 1 \in 1 .. Len(view.orders)
    BY <1>1 DEF BatchView, LoopInv
  <2> QED BY <2>1
<1>5. PICK table : table = Tables[op] /\ TableReadable(table, row)
  BY <1>2, TablesReadable
<1>6. w' = WriteTable(w, view, table, row)
  BY <1>4, <1>5 DEF CallOperation
<1>7. w'.cap = w.cap
  BY <1>1, <1>5, <1>6, WriteTableFollows DEF TableReadable, Follows
<1>8. PICK x : x = Separated(rows[index])
  OBVIOUS
<1>9. PICK a, b : /\ a = Before(op)
                  /\ Part(table, a, b)
                  /\ IF op = Len(Tables) THEN a + b = 25 ELSE a + b = Before(op + 1)
  <2>1. PICK b \in Nat :
          /\ Part(Tables[op], Before(op), b)
          /\ IF op = Len(Tables) THEN Before(op) + b = 25
             ELSE Before(op) + b = Before(op + 1)
    BY <1>2, TablesAreParts
  <2> QED BY <1>5, <2>1
<1>10. PICK f : RowSteps(f, a, x, view, StaticTable, row) /\ w = f[a]
  BY <1>3, <1>4, <1>8, <1>9 DEF Partly
<1>11. PICK g : RowSteps(g, b, f[a], view, table, row) /\ w' = g[b]
  BY <1>6, <1>9, <1>10, WriteTableSteps DEF Part
<1>12. PICK h : RowSteps(h, a + b, x, view, StaticTable, row) /\ h[a + b] = w'
  <2>1. a \in Nat /\ b \in Nat
    BY <1>9 DEF Part
  <2>2. PICK whole, v : whole = StaticTable /\ v = view
    OBVIOUS
  <2>3. PartOf(table, whole, a, b)
    BY <1>9, <2>2 DEF Part
  <2>4. RowSteps(f, a, x, v, whole, row)
    BY <1>10, <2>2
  <2>5. RowSteps(g, b, f[a], v, table, row)
    BY <1>11, <2>2
  <2>6. \E h : RowSteps(h, a + b, x, v, whole, row) /\ h[a + b] = g[b]
    BY <2>1, <2>3, <2>4, <2>5, RowStepsJoin
  <2>7. PICK h : RowSteps(h, a + b, x, v, whole, row) /\ h[a + b] = g[b]
    BY <2>6
  <2> QED BY <1>11, <2>2, <2>7
<1>13. CASE op = Len(Tables)
  <2>1. op' = 0 /\ index' = index + 1
    BY <1>13 DEF CallOperation
  <2>2. a + b = 25 /\ a + b = Len(StaticTable)
    BY <1>9, <1>13, StaticLength
  <2>3. WriteTable(x, view, StaticTable, row) = w'
    BY <1>12, <2>2, StepsAreTable
  <2>4. StaticOrder(rows[index], view, index + 1) = w'
    <3>1. x = IF index + 1 > 1 THEN Literal(rows[index], Comma) ELSE rows[index]
      <4>1. index > 0 <=> index + 1 > 1
        BY <1>1
      <4> QED BY <1>8, <4>1 DEF Separated
    <3> QED BY <1>3, <1>4, <2>3, <3>1 DEF StaticOrder
  <2>5. PICK more : /\ OrderTurns(more, index + 1, view, w.cap)
                    /\ more[index + 1] = w'
    BY <1>1, <1>3, <2>4, OrderTurnsMore
  <2>6. LoopAgrees'
    BY <1>1, <1>7, <2>1, <2>5 DEF LoopAgrees
  <2> QED BY <1>1, <1>7, <2>6 DEF AgreeInv, BackendsAgree
<1>14. CASE op # Len(Tables)
  <2>1. op' = op + 1 /\ index' = index
    BY <1>14 DEF CallOperation
  <2>2. Before(op)' = a + b
    BY <1>1, <1>9, <1>14, <2>1 DEF Before
  <2>3. Separated(rows[index])' = x
    BY <1>8, <2>1 DEF Separated
  <2>4. Partly(rows[index])'
    BY <1>1, <1>4, <1>12, <2>1, <2>2, <2>3 DEF Partly
  <2>5. LoopAgrees'
    BY <1>1, <1>3, <1>7, <2>1, <2>4 DEF LoopAgrees
  <2> QED BY <1>1, <1>7, <2>5 DEF AgreeInv, BackendsAgree
<1> QED BY <1>13, <1>14

LEMMA LeaveLoopAgrees ==
  ASSUME IInv, AgreeInv, LeaveLoop
  PROVE  AgreeInv'
<1>1. /\ stage = "orders" /\ op = 0 /\ LoopInv /\ IsWriter(w)
      /\ index \in Nat /\ view \in BatchView
      /\ index = Len(view.orders) \/ Stopped(w)
      /\ stage' = "returned" /\ view' = view
  BY Zenon DEF IInv, LeaveLoop
<1>2. w' = Closed(w, view)
  BY Zenon DEF LeaveLoop, Closed
<1>3. w'.cap = w.cap
  <2>1. PICK y : /\ y = (IF view.ordersNull THEN w ELSE Literal(w, RightBracket))
                 /\ Follows(w, y)
    BY <1>1, LiteralFollows, FollowsItself
  <2>2. Follows(y, Literal(y, Chars("}")))
    BY <2>1, LiteralFollows, Zenon DEF Follows
  <2> QED BY <1>2, <2>1, <2>2, Zenon DEF Closed, Follows
<1>4. PICK rows : OrderTurns(rows, index, view, w.cap) /\ w = rows[index]
  BY <1>1 DEF AgreeInv, LoopAgrees
<1>5. PICK n \in Nat : n = Len(view.orders)
  BY <1>1 DEF BatchView
<1>6. PICK f : OrderTurns(f, n, view, w.cap) /\ f[n] = w
  BY <1>1, <1>4, <1>5, OrderTurnsStop DEF LoopInv
<1>7. StaticRun(view, w.cap) = w'
  BY <1>2, <1>5, <1>6, StaticRunTurns
<1> QED BY <1>1, <1>3, <1>7 DEF AgreeInv, BackendsAgree

LEMMA AgreesInitially == NativeInit => AgreeInv
BY DEF NativeInit, AgreeInv, BackendsAgree

(* Hence the two agree at every step.                                      *)
LEMMA AgreesStep == IInv /\ AgreeInv /\ [NativeNext]_nativeVars => AgreeInv'
<1> SUFFICES ASSUME IInv, AgreeInv, [NativeNext]_nativeVars
             PROVE  AgreeInv'
  OBVIOUS
<1>1. ASSUME NEW v \in Views, NEW cap \in Sizes, Enter(v, cap)
      PROVE  AgreeInv'
  BY <1>1, EnterAgrees
<1>2. CASE NativeStep
  BY <1>2, BeginOrderAgrees, CallOperationAgrees, LeaveLoopAgrees DEF NativeStep
<1>3. CASE Exit
  BY <1>3 DEF Exit, AgreeInv, BackendsAgree
<1>4. CASE UNCHANGED nativeVars
  BY <1>4 DEF nativeVars, AgreeInv, BackendsAgree, LoopAgrees, Partly, Before, Separated
<1> QED BY <1>1, <1>2, <1>3, <1>4 DEF NativeNext

(* Whatever rows it is given, the machine code, which calls the eight      *)
(* operations of an order, leaves the text and the status that the static  *)
(* function would have left: the operations are the static function cut in *)
(* eight, and a failure in the middle of an order makes no difference      *)
(* (writer_linux_amd64.c:215-371, bridge_linux_amd64.c:86-111).            *)
THEOREM BothBackendsAgree == NativeSpec => []BackendsAgree
<1>1. AgreeInv => BackendsAgree
  BY DEF AgreeInv
<1> QED BY <1>1, AgreesInitially, AgreesStep, Invariance, PTL DEF NativeSpec

-----------------------------------------------------------------------------
(* The other direction: what is inside is never refused as an argument.    *)
Blameless(x) == x.status # "INVALID_ARGUMENT"

(* A literal never blames the arguments.                                   *)
LEMMA LiteralBlameless ==
  ASSUME NEW x, IsWriter(x), Blameless(x), NEW text
  PROVE  Blameless(Literal(x, text))
<1>1. PICK t, c, s : x = [text |-> t, cap |-> c, status |-> s] /\ s # "INVALID_ARGUMENT"
  BY DEF IsWriter, Blameless
<1>2. PICK y : y = Literal(x, text)
  OBVIOUS
<1>3. \/ y = x
      \/ y = [x EXCEPT !.status = "NO_SPACE"]
      \/ y = [x EXCEPT !.text = @ \o text]
  BY <1>2 DEF Literal
<1>4. CASE y = x
  BY <1>2, <1>4
<1>5. CASE y = [x EXCEPT !.status = "NO_SPACE"]
  <2>1. y = [text |-> t, cap |-> c, status |-> "NO_SPACE"]
    BY <1>1, <1>5
  <2> QED BY <1>2, <2>1 DEF Blameless
<1>6. CASE y = [x EXCEPT !.text = @ \o text]
  <2>1. PICK u : u = t \o text
    BY Zenon
  <2>2. y = [text |-> u, cap |-> c, status |-> s]
    BY <1>1, <1>6, <2>1, Zenon
  <2> QED BY <1>1, <1>2, <2>2 DEF Blameless
<1> QED BY <1>3, <1>4, <1>5, <1>6

(* Nor does a turn of the loop over the runs of a string.                  *)
LEMMA TurnBlameless ==
  ASSUME NEW s, IsWriter(s.w), Blameless(s.w)
  PROVE  Blameless(EscapeTurn(s).w)
<1>1. PICK x, left : x = s.w /\ left = s.left
  OBVIOUS
<1>2. PICK run, byte, rest :
        /\ run = RawText(SafeRun(left))
        /\ byte = Escaped(left[Len(SafeRun(left)) + 1])
        /\ rest = SubSeq(left, Len(SafeRun(left)) + 2, Len(left))
  BY Zenon
<1>3. PICK copied : copied = Literal(x, run) /\ IsWriter(copied) /\ Blameless(copied)
  BY <1>1, LiteralFollows, LiteralBlameless DEF Follows
<1>4. PICK escaped : escaped = Literal(copied, byte) /\ Blameless(escaped)
  BY <1>3, LiteralBlameless
<1>5. PICK r : r = EscapeTurn(s)
  OBVIOUS
<1>6. \/ r = s
      \/ r = [w |-> copied, left |-> <<>>]
      \/ r = [w |-> escaped, left |-> rest]
  BY <1>1, <1>2, <1>3, <1>4, <1>5 DEF EscapeTurn
<1>7. CASE r = s
  BY <1>5, <1>7
<1>8. CASE r = [w |-> copied, left |-> <<>>]
  BY <1>3, <1>5, <1>8
<1>9. CASE r = [w |-> escaped, left |-> rest]
  BY <1>4, <1>5, <1>9
<1> QED BY <1>6, <1>7, <1>8, <1>9

(* Nor does the loop, however many turns it takes.                         *)
LEMMA WriteRunsBlameless ==
  ASSUME NEW x, IsWriter(x), Blameless(x), NEW value, NEW n \in Nat, n = Len(value)
  PROVE  Blameless(WriteRuns(x, value))
<1>1. PICK after : Turns(after, n, x, value) /\ WriteRuns(x, value) = after[n].w
  BY WriteRunsTurns
<1> DEFINE T == {k \in Nat : k <= n =>
                   /\ after[k] = [w |-> after[k].w, left |-> after[k].left]
                   /\ IsWriter(after[k].w)
                   /\ Blameless(after[k].w)}
<1>2. 0 \in T
  BY <1>1 DEF Turns
<1>3. ASSUME NEW k \in Nat, k \in T PROVE k + 1 \in T
  <2> SUFFICES ASSUME k + 1 <= n
               PROVE  /\ after[k + 1] = [w |-> after[k + 1].w, left |-> after[k + 1].left]
                      /\ IsWriter(after[k + 1].w)
                      /\ Blameless(after[k + 1].w)
    OBVIOUS
  <2>1. PICK s : /\ s = after[k] /\ s = [w |-> s.w, left |-> s.left]
                 /\ IsWriter(s.w) /\ Blameless(s.w)
    BY <1>3
  <2>2. after[k + 1] = EscapeTurn(s)
    <3>1. k + 1 \in 1 .. n /\ (k + 1) - 1 = k
      OBVIOUS
    <3> QED BY <1>1, <2>1, <3>1, Zenon DEF Turns
  <2> QED BY <2>1, <2>2, TurnFollows, TurnBlameless DEF Follows
<1>4. Nat \subseteq T
  <2> HIDE DEF T
  <2> QED BY <1>2, <1>3, Induction
<1>5. n \in T /\ n <= n
  BY <1>4
<1> QED BY <1>1, <1>5

(* A reference that is inside resolves.                                    *)
LEMMA InResolves ==
  ASSUME NEW v \in BatchView, NEW ref \in RowRef, In(v, ref)
  PROVE  Resolves(v, ref)
BY DEF BatchView, RowRef, Resolves, In

(* A string whose reference is inside.                                     *)
LEMMA WriteStringBlameless ==
  ASSUME NEW x, IsWriter(x), Blameless(x), NEW v \in BatchView, NEW ref \in RowRef,
         In(v, ref)
  PROVE  Blameless(WriteString(x, v, ref))
<1>1. PICK y : y = WriteString(x, v, ref)
  OBVIOUS
<1>2. Resolves(v, ref)
  BY InResolves
<1>3. CASE Stopped(x)
  BY <1>3 DEF WriteString
<1>4. CASE ~Stopped(x)
  <2>1. PICK opened : opened = Literal(x, Quote) /\ IsWriter(opened) /\ Blameless(opened)
    BY LiteralFollows, LiteralBlameless DEF Follows
  <2>2. PICK plain, runs, value :
          /\ plain = Literal(opened, RawText(value))
          /\ runs = WriteRuns(opened, value)
          /\ value = Value(v, ref)
    OBVIOUS
  <2>3. PICK n \in Nat : n = Len(value)
    BY <1>2, <2>2, ValueFinite
  <2>4. IsWriter(plain) /\ Blameless(plain)
    BY <2>1, <2>2, LiteralFollows, LiteralBlameless DEF Follows
  <2>5. IsWriter(runs) /\ Blameless(runs)
    BY <2>1, <2>2, <2>3, WriteRunsFollows, WriteRunsBlameless DEF Follows
  <2>6. y = IF v.stringsPlain THEN Literal(plain, Quote) ELSE Literal(runs, Quote)
    BY <1>1, <1>2, <1>4, <2>1, <2>2 DEF WriteString, Quoted
  <2> QED BY <1>1, <2>4, <2>5, <2>6, LiteralBlameless
<1> QED BY <1>3, <1>4

(* A step of which the string that it reads is inside.                     *)
LEMMA WriteStepBlameless ==
  ASSUME NEW x, IsWriter(x), Blameless(x), NEW v \in BatchView, NEW step, NEW row,
         Readable(step, row), StepIn(v, step, row)
  PROVE  Blameless(WriteStep(x, v, step, row))
<1>1. PICK y : y = WriteStep(x, v, step, row)
  OBVIOUS
<1>2. CASE step.kind \in {"literal", "bool", "int"}
  <2>1. PICK text : y = Literal(x, text)
    BY <1>1, <1>2 DEF WriteStep
  <2> QED BY <1>1, <2>1, LiteralBlameless
<1>3. CASE step.kind = "string"
  <2>1. y = WriteString(x, v, row[step.arg]) /\ row[step.arg] \in RowRef
    BY <1>1, <1>3 DEF WriteStep, Readable
  <2> QED BY <1>1, <1>3, <2>1, WriteStringBlameless DEF StepIn
<1>4. CASE step.kind = "nullable" /\ row.hasTrackingNo = 0
  <2>1. y = Literal(x, Chars(NativeLiteral.null))
    BY <1>1, <1>4 DEF WriteStep
  <2> QED BY <1>1, <2>1, LiteralBlameless
<1>5. CASE step.kind = "nullable" /\ row.hasTrackingNo # 0
  <2>1. y = WriteString(x, v, row[step.arg]) /\ row[step.arg] \in RowRef
    BY <1>1, <1>5 DEF WriteStep, Readable
  <2> QED BY <1>1, <1>5, <2>1, WriteStringBlameless DEF StepIn
<1> QED BY <1>2, <1>3, <1>4, <1>5 DEF Readable

(* The strings that the table of an item reads are those of ItemIn.        *)
LEMMA ItemStepsIn ==
  ASSUME NEW v, NEW item, ItemIn(v, item), NEW k \in 1 .. 9
  PROVE  StepIn(v, NativeItemTable[k], item)
<1>1. PICK step : step = NativeItemTable[k]
  OBVIOUS
<1>2. step \in {Str("sku"), Str("title")} \/ step.kind \in {"literal", "int"}
  BY <1>1 DEF NativeItemTable, Lit, Str, Num
<1> QED BY <1>1, <1>2 DEF StepIn, ItemIn, Str

(* An item whose references are inside.                                    *)
LEMMA WriteItemBlameless ==
  ASSUME NEW x, IsWriter(x), Blameless(x), NEW v \in BatchView, NEW item \in ItemRow,
         ItemIn(v, item)
  PROVE  Blameless(WriteItem(x, v, item))
<1>1. 9 \in Nat /\ 9 = Len(NativeItemTable)
  BY ItemTable
<1>2. PICK after : ItemSteps(after, 9, x, v, item) /\ WriteItem(x, v, item) = after[9]
  BY <1>1, WriteItemSteps
<1> DEFINE T == {k \in Nat : k <= 9 => IsWriter(after[k]) /\ Blameless(after[k])}
<1>3. 0 \in T
  BY <1>2 DEF ItemSteps
<1>4. ASSUME NEW k \in Nat, k \in T PROVE k + 1 \in T
  <2> SUFFICES ASSUME k + 1 <= 9 PROVE IsWriter(after[k + 1]) /\ Blameless(after[k + 1])
    OBVIOUS
  <2>1. PICK y, step : y = after[k] /\ step = NativeItemTable[k + 1]
    OBVIOUS
  <2>2. k + 1 \in 1 .. 9 /\ (k + 1) - 1 = k
    OBVIOUS
  <2>3. after[k + 1] = WriteStep(y, v, step, item)
    BY <1>2, <2>1, <2>2 DEF ItemSteps
  <2>4. Readable(step, item) /\ StepIn(v, step, item) /\ IsWriter(y) /\ Blameless(y)
    BY <1>4, <2>1, <2>2, ItemTable, ItemStepsIn
  <2> QED BY <2>3, <2>4, WriteStepFollows, WriteStepBlameless DEF Follows
<1>5. Nat \subseteq T
  <2> HIDE DEF T
  <2> QED BY <1>3, <1>4, Induction
<1>6. 9 \in T /\ 9 <= 9
  BY <1>5
<1> QED BY <1>2, <1>6

(* One more item of a list, with its comma.                                *)
LEMMA NextItemBlameless ==
  ASSUME NEW x, IsWriter(x), Blameless(x), NEW v \in BatchView, NEW row, NEW i \in Nat,
         v.items[row.itemStart + i] \in ItemRow, ItemIn(v, v.items[row.itemStart + i])
  PROVE  Blameless(NextItem(x, v, row, i))
<1>1. CASE Stopped(x)
  BY <1>1 DEF NextItem
<1>2. CASE ~Stopped(x)
  <2>1. PICK z : z = (IF i > 1 THEN Literal(x, Comma) ELSE x)
    OBVIOUS
  <2>2. IsWriter(z) /\ Blameless(z)
    BY <2>1, LiteralFollows, LiteralBlameless DEF Follows
  <2>3. NextItem(x, v, row, i) = WriteItem(z, v, v.items[row.itemStart + i])
    BY <1>2, <2>1 DEF NextItem
  <2> QED BY <2>2, <2>3, WriteItemBlameless
<1> QED BY <1>1, <1>2

(* The items of an order whose range is inside, and their references.      *)
LEMMA WriteListBlameless ==
  ASSUME NEW x, IsWriter(x), Blameless(x), NEW v \in BatchView, NEW row \in OrderRow,
         row.itemsNull = 0, ItemsIn(v, row)
  PROVE  Blameless(WriteList(x, v, row))
<1>1. PICK s \in Nat, n \in Nat : s = row.itemStart /\ n = row.itemCount
  BY DEF OrderRow
<1>2. ASSUME NEW i \in 1 .. n
      PROVE  v.items[s + i] \in ItemRow /\ ItemIn(v, v.items[s + i])
  <2>1. PICK items \in Seq(ItemRow) : items = v.items
    BY DEF BatchView
  <2>2. s + n <= Len(items) /\ \A j \in s + 1 .. s + n : ItemIn(v, items[j])
    BY <1>1, <2>1 DEF ItemsIn
  <2>3. s + i \in 1 .. Len(items) /\ s + i \in s + 1 .. s + n
    BY <2>2
  <2> QED BY <2>1, <2>2, <2>3
<1>3. PICK after : /\ ListTurns(after, n, x, v, row)
                  /\ WriteList(x, v, row) = Literal(after[n], RightBracket)
  BY <1>1, WriteListTurns
<1> DEFINE T == {k \in Nat : k <= n => IsWriter(after[k]) /\ Blameless(after[k])}
<1>4. 0 \in T
  BY <1>3, LiteralFollows, LiteralBlameless DEF ListTurns, Follows
<1>5. ASSUME NEW k \in Nat, k \in T PROVE k + 1 \in T
  <2> SUFFICES ASSUME k + 1 <= n PROVE IsWriter(after[k + 1]) /\ Blameless(after[k + 1])
    OBVIOUS
  <2>1. PICK y : y = after[k] /\ IsWriter(y) /\ Blameless(y)
    BY <1>5
  <2>2. PICK i \in 1 .. n : i = k + 1 /\ i \in Nat
    OBVIOUS
  <2>3. after[i] = NextItem(y, v, row, i)
    <3>1. i - 1 = k
      BY <2>2
    <3> QED BY <1>3, <2>1, <3>1 DEF ListTurns
  <2>4. /\ v.items[row.itemStart + i] \in ItemRow
        /\ ItemIn(v, v.items[row.itemStart + i])
    BY <1>1, <1>2
  <2> QED BY <2>1, <2>2, <2>3, <2>4, NextItemFollows, NextItemBlameless DEF Follows
<1>6. Nat \subseteq T
  <2> HIDE DEF T
  <2> QED BY <1>4, <1>5, Induction
<1>7. n \in T /\ n <= n
  BY <1>6
<1>8. IsWriter(after[n]) /\ Blameless(after[n])
  BY <1>7
<1> QED BY <1>3, <1>8, LiteralBlameless

(* A null list, or a list whose range is inside.                           *)
LEMMA WriteItemsBlameless ==
  ASSUME NEW x, IsWriter(x), Blameless(x), NEW v \in BatchView, NEW row \in OrderRow,
         ItemsIn(v, row)
  PROVE  Blameless(WriteItems(x, v, row))
<1>1. PICK s \in Nat, n \in Nat, m \in Nat :
        s = row.itemStart /\ n = row.itemCount /\ m = Len(v.items)
  <2>1. Len(v.items) \in Nat
    BY DEF BatchView
  <2> QED BY <2>1 DEF OrderRow
<1>2. CASE row.itemsNull # 0
  <2>1. WriteItems(x, v, row) = Literal(x, Chars(NativeLiteral.null))
    BY <1>2 DEF WriteItems, ItemsIn
  <2> QED BY <2>1, LiteralBlameless
<1>3. CASE row.itemsNull = 0
  <2>1. s + n <= m
    BY <1>1, <1>3 DEF ItemsIn
  <2>2. ~(s > m) /\ ~(n > m - s)
    BY <2>1
  <2>3. WriteItems(x, v, row) = WriteList(x, v, row)
    BY <1>1, <1>3, <2>2 DEF WriteItems
  <2> QED BY <1>3, <2>3, WriteListBlameless
<1> QED BY <1>2, <1>3

(* A step of an order, its items included.                                 *)
LEMMA RowStepBlameless ==
  ASSUME NEW x, IsWriter(x), Blameless(x), NEW v \in BatchView, NEW row \in OrderRow,
         NEW step, RowReadable(step, row), RowStepIn(v, step, row)
  PROVE  Blameless(RowStep(x, v, step, row))
<1>1. CASE step.kind = "items"
  BY <1>1, WriteItemsBlameless DEF RowStep, RowStepIn
<1>2. CASE step.kind # "items"
  BY <1>2, WriteStepBlameless DEF RowStep, RowStepIn, RowReadable
<1> QED BY <1>1, <1>2

(* A table of which everything that it reads is inside.                    *)
LEMMA WriteTableBlameless ==
  ASSUME NEW x, IsWriter(x), Blameless(x), NEW v \in BatchView, NEW row \in OrderRow,
         NEW table, TableReadable(table, row), TableIn(v, table, row)
  PROVE  Blameless(WriteTable(x, v, table, row))
<1>1. PICK n \in Nat : n = Len(table)
  BY DEF TableReadable
<1>2. PICK after : /\ RowSteps(after, n, x, v, table, row)
                  /\ WriteTable(x, v, table, row) = after[n]
  BY <1>1, WriteTableSteps
<1> DEFINE T == {k \in Nat : k <= n => IsWriter(after[k]) /\ Blameless(after[k])}
<1>3. 0 \in T
  BY <1>2 DEF RowSteps
<1>4. ASSUME NEW k \in Nat, k \in T PROVE k + 1 \in T
  <2> SUFFICES ASSUME k + 1 <= n PROVE IsWriter(after[k + 1]) /\ Blameless(after[k + 1])
    OBVIOUS
  <2>1. PICK y, step : y = after[k] /\ step = table[k + 1]
    OBVIOUS
  <2>2. k + 1 \in 1 .. n /\ (k + 1) - 1 = k
    OBVIOUS
  <2>3. after[k + 1] = RowStep(y, v, step, row)
    BY <1>2, <2>1, <2>2, Zenon DEF RowSteps
  <2>4. /\ RowReadable(step, row) /\ RowStepIn(v, step, row)
        /\ IsWriter(y) /\ Blameless(y)
    BY <1>1, <1>4, <2>1, <2>2 DEF TableReadable, TableIn
  <2> QED BY <2>3, <2>4, RowStepFollows, RowStepBlameless DEF Follows
<1>5. Nat \subseteq T
  <2> HIDE DEF T
  <2> QED BY <1>3, <1>4, Induction
<1>6. n \in T /\ n <= n
  BY <1>5
<1> QED BY <1>2, <1>6

-----------------------------------------------------------------------------
(* What a row that is inside lets each table read.                         *)
LEMMA FieldIn ==
  ASSUME NEW v, NEW row, RowIn(v, row), NEW step,
         \/ step.kind \in {"literal", "bool", "int"}
         \/ step \in {Str(field) : field \in
                        {"orderID", "createdAt", "status", "paymentMethod",
                         "buyerName", "city", "address", "remark"}}
         \/ step = Nullable("trackingNo")
         \/ step = ItemList
  PROVE  RowStepIn(v, step, row)
<1>1. CASE step.kind \in {"literal", "bool", "int"}
  BY <1>1 DEF RowStepIn, StepIn
<1>2. CASE step \in {Str(field) : field \in
                       {"orderID", "createdAt", "status", "paymentMethod",
                        "buyerName", "city", "address", "remark"}}
  <2>1. PICK field \in {"orderID", "createdAt", "status", "paymentMethod",
                        "buyerName", "city", "address", "remark"} : step = Str(field)
    BY <1>2
  <2>2. step.kind = "string" /\ step.arg = field
    BY <2>1 DEF Str
  <2> QED BY <2>1, <2>2 DEF RowStepIn, StepIn, RowIn
<1>3. CASE step = Nullable("trackingNo")
  <2>1. step.kind = "nullable" /\ step.arg = "trackingNo"
    BY <1>3 DEF Nullable
  <2> QED BY <2>1 DEF RowStepIn, StepIn, RowIn
<1>4. CASE step = ItemList
  <2>1. step.kind = "items"
    BY <1>4 DEF ItemList
  <2> QED BY <2>1 DEF RowStepIn, RowIn
<1> QED BY <1>1, <1>2, <1>3, <1>4

(* Each of the eight operations reads only what is inside.                 *)
LEMMA OperationIn ==
  ASSUME NEW v, NEW row, RowIn(v, row), NEW i \in 1 .. 8
  PROVE  TableIn(v, OperationTable(Operations[i]), row)
<1>1. PICK o : o = Operations[i]
  OBVIOUS
<1>2. CASE o \in {"order_id", "created_at", "status"}
  BY <1>1, <1>2, FieldIn DEF OperationTable, TableIn, Lit
<1>3. CASE o = "payment"
  BY <1>1, <1>3, FieldIn DEF OperationTable, TableIn, Lit, Bool
<1>4. CASE o = "buyer"
  BY <1>1, <1>4, FieldIn DEF OperationTable, TableIn, Lit, Num
<1>5. CASE o = "shipping"
  BY <1>1, <1>5, FieldIn DEF OperationTable, TableIn, Lit
<1>6. CASE o = "items"
  BY <1>1, <1>6, FieldIn DEF OperationTable, TableIn, Lit
<1>7. CASE o = "remark"
  BY <1>1, <1>7, FieldIn DEF OperationTable, TableIn, Lit
<1> QED BY <1>1, <1>2, <1>3, <1>4, <1>5, <1>6, <1>7, OperationsAre

(* So does the static function.                                            *)
LEMMA StaticIn ==
  ASSUME NEW v, NEW row, RowIn(v, row)
  PROVE  TableIn(v, StaticTable, row)
BY FieldIn DEF StaticTable, TableIn, Lit, Bool, Num

(* The tables of either back end.                                          *)
LEMMA TablesIn ==
  ASSUME NEW v, NEW row, RowIn(v, row), NEW i \in 1 .. Len(Tables)
  PROVE  TableIn(v, Tables[i], row)
BY TablesAre, OperationIn, StaticIn

-----------------------------------------------------------------------------
(* A view that is well formed has a writer without blame.                  *)
BlameInv ==
  /\ stage = "orders" /\ WellFormed(view) => Blameless(w)
  /\ BlamesOnlyIllFormed

(* Only a buffer of size 0, or rows missing, is refused at once.           *)
LEMMA EnterBlameless ==
  ASSUME NEW v, NEW cap, Enter(v, cap)
  PROVE  BlameInv'
<1>1. view' = v
  BY Zenon DEF Enter
<1>2. CASE BadArguments(v, cap)
  <2>1. w' = Writer(<<>>, cap, "INVALID_ARGUMENT") /\ stage' = "returned"
    BY <1>2 DEF Enter
  <2>2. w'.cap = cap
    BY <2>1 DEF Writer
  <2>3. cap = 0 \/ ~WellFormed(v)
    BY <1>2 DEF BadArguments, WellFormed
  <2> QED BY <1>1, <2>1, <2>2, <2>3 DEF BlameInv, BlamesOnlyIllFormed
<1>3. CASE ~BadArguments(v, cap)
  <2>1. PICK x, y, z : /\ x = Writer(<<>>, cap, "OK")
                       /\ y = Literal(x, Chars("{\"orders\":"))
                       /\ z = Literal(y, IF v.ordersNull THEN Chars("null") ELSE LeftBracket)
    BY Zenon
  <2>2. w' = z /\ stage' = "orders"
    BY <1>3, <2>1, Zenon DEF Enter
  <2>3. IsWriter(x) /\ Blameless(x)
    BY <2>1, WriterIs, Zenon DEF Statuses, Blameless
  <2>4. IsWriter(y) /\ Blameless(y)
    BY <2>1, <2>3, LiteralFollows, LiteralBlameless, Zenon DEF Follows
  <2>5. Blameless(z)
    BY <2>1, <2>4, LiteralBlameless, Zenon
  <2> QED BY <2>2, <2>5 DEF BlameInv, BlamesOnlyIllFormed
<1> QED BY <1>2, <1>3

(* An operation on a row of a view that is well formed.                    *)
LEMMA CallBlameless ==
  ASSUME IInv, CallOperation, WellFormed(view), Blameless(w)
  PROVE  Blameless(w')
<1>1. /\ stage = "orders" /\ op > 0 /\ LoopInv /\ IsWriter(w)
      /\ index \in Nat /\ op \in Nat /\ view \in BatchView
  BY DEF IInv, CallOperation
<1>2. PICK n \in Nat : n = Len(view.orders)
  BY <1>1 DEF BatchView
<1>3. op \in 1 .. Len(Tables) /\ index + 1 \in 1 .. n
  BY <1>1, <1>2, TablesAre DEF LoopInv
<1>4. PICK row \in OrderRow : row = view.orders[index + 1] /\ RowIn(view, row)
  <2>1. view.orders \in Seq(OrderRow)
    BY <1>1 DEF BatchView
  <2> QED BY <1>2, <1>3, <2>1 DEF WellFormed
<1>5. PICK table : /\ table = Tables[op]
                   /\ TableReadable(table, row) /\ TableIn(view, table, row)
  BY <1>3, <1>4, TablesReadable, TablesIn
<1>6. w' = WriteTable(w, view, table, row)
  BY <1>4, <1>5 DEF CallOperation
<1> QED BY <1>1, <1>5, <1>6, WriteTableBlameless

(* The invariant, action by action.                                        *)
LEMMA StepBlameless ==
  ASSUME IInv, BlameInv, NativeStep \/ Exit \/ UNCHANGED nativeVars
  PROVE  BlameInv'
<1>1. CASE BeginOrder
  <2>1. /\ stage = "orders" /\ stage' = "orders" /\ view' = view
        /\ w' = Separated(w) /\ IsWriter(w)
    BY <1>1 DEF BeginOrder, IInv
  <2>2. Blameless(w) => Blameless(w')
    BY <2>1, LiteralBlameless DEF Separated
  <2>3. WellFormed(view') <=> WellFormed(view)
    BY <2>1
  <2> QED BY <2>1, <2>2, <2>3 DEF BlameInv, BlamesOnlyIllFormed
<1>2. CASE CallOperation
  <2>1. stage = "orders" /\ stage' = "orders" /\ view' = view
    BY <1>2 DEF CallOperation
  <2>2. WellFormed(view') <=> WellFormed(view)
    BY <2>1
  <2> QED BY <1>2, <2>1, <2>2, CallBlameless DEF BlameInv, BlamesOnlyIllFormed
<1>3. CASE LeaveLoop
  <2>1. stage = "orders" /\ stage' = "returned" /\ view' = view /\ IsWriter(w)
    BY <1>3, Zenon DEF LeaveLoop, IInv
  <2>2. PICK x : x = (IF view.ordersNull THEN w ELSE Literal(w, RightBracket)) /\ w' = Literal(x, Chars("}"))
    BY <1>3, Zenon DEF LeaveLoop
  <2>3. Blameless(w) => Blameless(w')
    <3>1. IsWriter(x) /\ (Blameless(w) => Blameless(x))
      BY <2>1, <2>2, LiteralFollows, LiteralBlameless, Zenon DEF Follows
    <3> QED BY <2>2, <3>1, LiteralBlameless, Zenon
  <2>4. WellFormed(view') <=> WellFormed(view)
    BY <2>1
  <2> QED BY <2>1, <2>3, <2>4 DEF BlameInv, BlamesOnlyIllFormed, Blameless
<1>4. CASE Exit
  BY <1>4 DEF Exit, BlameInv, BlamesOnlyIllFormed
<1>5. CASE UNCHANGED nativeVars
  <2>1. stage' = stage /\ view' = view /\ w' = w
    BY <1>5 DEF nativeVars
  <2>2. WellFormed(view') <=> WellFormed(view)
    BY <2>1
  <2> QED BY <2>1, <2>2 DEF BlameInv, BlamesOnlyIllFormed
<1> QED BY <1>1, <1>2, <1>3, <1>4, <1>5 DEF NativeStep

(* An argument is called invalid only when it is: rows in which every      *)
(* reference and every range is inside, at the very end included, are at   *)
(* most too long for the buffer, whatever else was written before          *)
(* (writer_linux_amd64.c:82-94, 178-193).                                  *)
THEOREM OnlyIllFormedBlamed == NativeSpec => []BlamesOnlyIllFormed
<1>1. NativeInit => BlameInv
  BY DEF NativeInit, BlameInv, BlamesOnlyIllFormed
<1>2. IInv /\ BlameInv /\ [NativeNext]_nativeVars => BlameInv'
  BY EnterBlameless, StepBlameless DEF NativeNext
<1>3. BlameInv => BlamesOnlyIllFormed
  BY DEF BlameInv
<1> QED BY <1>1, <1>2, <1>3, Invariance, PTL DEF NativeSpec

-----------------------------------------------------------------------------
(* Packing.                                                                *)

(* A reference to a string of the arena.                                   *)
Holds(strings, ref, value) ==
  /\ ref.offset + ref.length <= Len(strings)
  /\ SubSeq(strings, ref.offset + 1, ref.offset + ref.length) = value

(* b members of a sequence, from the one after a on.                       *)
LEMMA SubSeqIs ==
  ASSUME NEW T, NEW s \in Seq(T), NEW a \in Nat, NEW b \in Nat, a + b <= Len(s)
  PROVE  /\ SubSeq(s, a + 1, a + b) \in Seq(T)
         /\ Len(SubSeq(s, a + 1, a + b)) = b
         /\ \A i \in 1 .. b : SubSeq(s, a + 1, a + b)[i] = s[a + i]
<1>1. PICK m \in Int, n \in Int : m = a + 1 /\ n = a + b
  OBVIOUS
<1>2. \A i \in m .. n : s[i] \in T
  BY <1>1
<1>3. /\ SubSeq(s, m, n) \in Seq(T)
      /\ Len(SubSeq(s, m, n)) = IF m <= n THEN n - m + 1 ELSE 0
      /\ \A i \in 1 .. n - m + 1 : SubSeq(s, m, n)[i] = s[m + i - 1]
  BY <1>2, SubSeqProperties
<1>4. n - m + 1 = b /\ (m <= n \/ b = 0)
  BY <1>1
<1>5. ASSUME NEW i \in 1 .. b PROVE SubSeq(s, m, n)[i] = s[a + i]
  <2>1. m + i - 1 = a + i
    BY <1>1
  <2> QED BY <1>3, <1>4, <2>1
<1>6. Len(SubSeq(s, m, n)) = b
  BY <1>3, <1>4
<1> QED BY <1>1, <1>3, <1>5, <1>6

(* A string stays where it is when the arena grows.                        *)
LEMMA HoldsLater ==
  ASSUME NEW s \in Seq(Bytes), NEW t \in Seq(Bytes), Grows(s, t),
         NEW ref \in RowRef, NEW value, Holds(s, ref, value)
  PROVE  Holds(t, ref, value)
<1>1. PICK a \in Nat, b \in Nat : a = ref.offset /\ b = ref.length
  BY DEF RowRef
<1>2. a + b <= Len(s) /\ a + b <= Len(t)
  BY <1>1 DEF Holds, Grows
<1>3. PICK x, y : x = SubSeq(s, a + 1, a + b) /\ y = SubSeq(t, a + 1, a + b)
  BY Zenon
<1>4. x \in Seq(Bytes) /\ Len(x) = b /\ \A i \in 1 .. b : x[i] = s[a + i]
  BY <1>2, <1>3, SubSeqIs
<1>5. y \in Seq(Bytes) /\ Len(y) = b /\ \A i \in 1 .. b : y[i] = t[a + i]
  BY <1>2, <1>3, SubSeqIs
<1>6. ASSUME NEW i \in 1 .. b PROVE x[i] = y[i]
  <2>1. a + i \in 1 .. Len(s)
    BY <1>2
  <2>2. t[a + i] = s[a + i]
    BY <2>1 DEF Grows
  <2> QED BY <1>4, <1>5, <2>2
<1>7. x = y
  BY <1>4, <1>5, <1>6, SeqEqual
<1> QED BY <1>1, <1>2, <1>3, <1>7 DEF Holds

(* The string that was appended last.                                      *)
LEMMA HoldsLast ==
  ASSUME NEW s \in Seq(Bytes), NEW value \in Seq(Bytes)
  PROVE  Holds(s \o value, Ref(Len(s), Len(value)), value)
<1>1. PICK t, a, b : t = s \o value /\ a = Len(s) /\ b = Len(value)
  BY Zenon
<1>2. a \in Nat /\ b \in Nat /\ t \in Seq(Bytes) /\ Len(t) = a + b
  BY <1>1
<1>3. PICK y : y = SubSeq(t, a + 1, a + b)
  BY Zenon
<1>4. y \in Seq(Bytes) /\ Len(y) = b /\ \A i \in 1 .. b : y[i] = t[a + i]
  BY <1>2, <1>3, SubSeqIs
<1>5. ASSUME NEW i \in 1 .. b PROVE t[a + i] = value[i]
  <2>1. a + i \in a + 1 .. a + b /\ (a + i) - a = i
    BY <1>2
  <2>2. \A j \in a + 1 .. a + b : t[j] = value[j - a]
    BY <1>1, <1>2
  <2> QED BY <2>1, <2>2
<1>6. y = value
  BY <1>1, <1>4, <1>5, SeqEqual
<1> QED BY <1>1, <1>2, <1>3, <1>6 DEF Holds, Ref

-----------------------------------------------------------------------------
(* The state of packing, with a row of the type R in the making.           *)
Builder(b, R) ==
  /\ b = [row |-> b.row, items |-> b.items, itemCap |-> b.itemCap,
          strings |-> b.strings, stringCap |-> b.stringCap,
          plain |-> b.plain, size |-> b.size, err |-> b.err]
  /\ b.row \in R
  /\ b.items \in Seq(ItemRow)
  /\ b.itemCap \in Nat
  /\ b.strings \in Seq(Bytes)
  /\ b.stringCap \in Nat
  /\ b.plain \in BOOLEAN

(* c is b some time later.  No array moves that was long enough.           *)
Later(b, c) ==
  /\ c.err = "none" => b.err = "none"
  /\ Grows(b.items, c.items)
  /\ Grows(b.strings, c.strings)
  /\ Len(c.items) <= b.itemCap => c.itemCap = b.itemCap
  /\ Len(c.strings) <= b.stringCap => c.stringCap = b.stringCap

(* Nothing happened; and what grew may grow further.                       *)
LEMMA LaterItself ==
  ASSUME NEW b
  PROVE  Later(b, b)
BY GrowsItself DEF Later

LEMMA LaterStill ==
  ASSUME NEW R, NEW Q, NEW P, NEW b, NEW c, NEW d,
         Builder(b, R), Builder(c, Q), Builder(d, P), Later(b, c), Later(c, d)
  PROVE  Later(b, d)
<1>1. Grows(b.items, d.items) /\ Grows(b.strings, d.strings)
  BY GrowsFurther DEF Builder, Later
<1>2. /\ Len(b.items) \in Nat /\ Len(c.items) \in Nat /\ Len(d.items) \in Nat
      /\ Len(b.strings) \in Nat /\ Len(c.strings) \in Nat /\ Len(d.strings) \in Nat
      /\ b.itemCap \in Nat /\ b.stringCap \in Nat
  BY DEF Builder
<1>3. Len(c.items) <= Len(d.items) /\ Len(c.strings) <= Len(d.strings)
  BY DEF Later, Grows
<1>4. Len(d.items) <= b.itemCap => d.itemCap = b.itemCap
  BY <1>2, <1>3 DEF Later
<1>5. Len(d.strings) <= b.stringCap => d.stringCap = b.stringCap
  BY <1>2, <1>3 DEF Later
<1> QED BY <1>1, <1>4, <1>5 DEF Later

LEMMA GrownIs ==
  ASSUME NEW cap \in Nat, NEW n \in Nat
  PROVE  /\ Grown(cap, n) \in Nat
         /\ n <= cap => Grown(cap, n) = cap
BY DEF Grown

(* An addition to the size changes the size or sets the error, never the   *)
(* data.                                                                   *)
LEMMA AddIs ==
  ASSUME NEW R, NEW b, Builder(b, R), NEW n
  PROVE  /\ Builder(Add(b, n), R)
         /\ Later(b, Add(b, n))
         /\ Add(b, n).row = b.row
         /\ Add(b, n).items = b.items
         /\ Add(b, n).strings = b.strings
<1>1. PICK r, i, ic, s, sc, p, z, e :
        b = [row |-> r, items |-> i, itemCap |-> ic, strings |-> s,
             stringCap |-> sc, plain |-> p, size |-> z, err |-> e]
  BY DEF Builder
<1>2. PICK c, sum : c = Add(b, n) /\ sum = z + n
  OBVIOUS
<1>3. \/ c = b
      \/ c = [b EXCEPT !.err = "ErrOutputTooLarge"] /\ b.err = "none"
      \/ c = [b EXCEPT !.size = @ + n] /\ b.err = "none"
  BY <1>2 DEF Add
<1>4. \/ c = b
      \/ c = [row |-> r, items |-> i, itemCap |-> ic, strings |-> s,
              stringCap |-> sc, plain |-> p, size |-> z, err |-> "ErrOutputTooLarge"]
      \/ c = [row |-> r, items |-> i, itemCap |-> ic, strings |-> s,
              stringCap |-> sc, plain |-> p, size |-> sum, err |-> e]
  BY <1>1, <1>2, <1>3
<1>5. /\ c.row = b.row /\ c.items = b.items /\ c.itemCap = b.itemCap
      /\ c.strings = b.strings /\ c.stringCap = b.stringCap /\ c.plain = b.plain
      /\ c.err = "none" => b.err = "none"
      /\ c = [row |-> c.row, items |-> c.items, itemCap |-> c.itemCap,
              strings |-> c.strings, stringCap |-> c.stringCap,
              plain |-> c.plain, size |-> c.size, err |-> c.err]
  BY <1>1, <1>4
<1>6. Builder(c, R)
  BY <1>5 DEF Builder
<1>7. Later(b, c)
  BY <1>5, GrowsItself DEF Later
<1> QED BY <1>2, <1>5, <1>6, <1>7

-----------------------------------------------------------------------------
(* A row takes a reference: nothing else of it changes.                    *)
Takes(R, field) ==
  \A row \in R, ref \in RowRef :
    /\ [row EXCEPT ![field] = ref] \in R
    /\ [row EXCEPT ![field] = ref][field] = ref
    /\ \A other \in DOMAIN row :
         other # field => [row EXCEPT ![field] = ref][other] = row[other]

OrderRefs ==
  {"orderID", "createdAt", "status", "paymentMethod", "buyerName", "city",
   "address", "trackingNo", "remark"}

OrderFields ==
  OrderRefs \cup {"itemStart", "itemCount", "buyerID", "paid", "hasTrackingNo",
                  "itemsNull"}

LEMMA OrderRowIs ==
  ASSUME NEW row
  PROVE  row \in OrderRow <=>
           /\ row = [field \in OrderFields |-> row[field]]
           /\ \A field \in OrderRefs : row[field] \in RowRef
           /\ \A field \in {"itemStart", "itemCount", "paid", "hasTrackingNo",
                            "itemsNull"} : row[field] \in Nat
           /\ row["buyerID"] \in Ints
BY DEF OrderRow, OrderFields, OrderRefs

LEMMA ItemRowIs ==
  ASSUME NEW row
  PROVE  row \in ItemRow <=>
           /\ row = [field \in {"sku", "title", "qty", "price"} |-> row[field]]
           /\ row["sku"] \in RowRef /\ row["title"] \in RowRef
           /\ row["qty"] \in Ints /\ row["price"] \in Ints
BY DEF ItemRow

LEMMA OrderTakes ==
  ASSUME NEW field \in OrderRefs
  PROVE  Takes(OrderRow, field)
<1> SUFFICES ASSUME NEW row \in OrderRow, NEW ref \in RowRef,
                    NEW t, t = [row EXCEPT ![field] = ref]
             PROVE  /\ t \in OrderRow /\ t[field] = ref
                    /\ \A other \in DOMAIN row : other # field => t[other] = row[other]
  BY Zenon DEF Takes
<1>1. /\ row = [f \in OrderFields |-> row[f]]
      /\ \A f \in OrderRefs : row[f] \in RowRef
      /\ \A f \in {"itemStart", "itemCount", "paid", "hasTrackingNo",
                   "itemsNull"} : row[f] \in Nat
      /\ row["buyerID"] \in Ints
  BY OrderRowIs
<1>2. /\ DOMAIN row = OrderFields /\ field \in OrderFields
      /\ t = [f \in OrderFields |-> IF f = field THEN ref ELSE row[f]]
  BY <1>1, Zenon DEF OrderFields
<1>3. /\ t = [f \in OrderFields |-> t[f]] /\ t[field] = ref
      /\ \A f \in OrderFields : f # field => t[f] = row[f]
  BY <1>2, Zenon
<1>4. t \in OrderRow
  <2>1. \A f \in OrderRefs : t[f] \in RowRef
    BY <1>1, <1>3 DEF OrderFields
  <2>2. \A f \in {"itemStart", "itemCount", "paid", "hasTrackingNo",
                  "itemsNull", "buyerID"} : f \in OrderFields /\ f # field
    BY DEF OrderFields, OrderRefs
  <2>3. \A f \in {"itemStart", "itemCount", "paid", "hasTrackingNo",
                  "itemsNull"} : t[f] \in Nat
    BY <1>1, <1>3, <2>2
  <2>4. t["buyerID"] \in Ints
    BY <1>1, <1>3, <2>2
  <2> QED BY <1>3, <2>1, <2>3, <2>4, OrderRowIs, Zenon
<1> QED BY <1>2, <1>3, <1>4

LEMMA ItemTakes ==
  ASSUME NEW field \in {"sku", "title"}
  PROVE  Takes(ItemRow, field)
<1> SUFFICES ASSUME NEW row \in ItemRow, NEW ref \in RowRef,
                    NEW t, t = [row EXCEPT ![field] = ref]
             PROVE  /\ t \in ItemRow /\ t[field] = ref
                    /\ \A other \in DOMAIN row : other # field => t[other] = row[other]
  BY Zenon DEF Takes
<1> DEFINE F == {"sku", "title", "qty", "price"}
<1>1. /\ row = [f \in F |-> row[f]]
      /\ row["sku"] \in RowRef /\ row["title"] \in RowRef
      /\ row["qty"] \in Ints /\ row["price"] \in Ints
  BY ItemRowIs
<1>2. /\ DOMAIN row = F /\ field \in F
      /\ t = [f \in F |-> IF f = field THEN ref ELSE row[f]]
  BY <1>1, Zenon
<1>3. /\ t = [f \in F |-> t[f]] /\ t[field] = ref
      /\ \A f \in F : f # field => t[f] = row[f]
  BY <1>2, Zenon
<1>4. t["sku"] \in RowRef /\ t["title"] \in RowRef /\ t["qty"] \in Ints /\ t["price"] \in Ints
  BY <1>1, <1>3
<1>5. t \in ItemRow
  BY <1>3, <1>4, ItemRowIs, Zenon
<1> QED BY <1>2, <1>3, <1>5

-----------------------------------------------------------------------------
(* Strings.  The references lose nothing when they become 32-bit numbers.  *)
LEMMA Uint32Is ==
  ASSUME NEW n \in Nat, n <= MaxUint32
  PROVE  Uint32(n) = n
<1>1. MaxUint32 \in Nat
  BY LimitsAssumption
<1>2. PICK m \in Nat : m = MaxUint32
  BY <1>1
<1>3. n % (m + 1) = n
  BY <1>2
<1> QED BY <1>2, <1>3 DEF Uint32

LEMMA StringFits ==
  ASSUME NEW b, NEW value \in Seq(Bytes), NEW validate, b.strings \in Seq(Bytes),
         StringError(b, value, validate) = "none"
  PROVE  /\ Uint32(Len(b.strings)) = Len(b.strings)
         /\ Uint32(Len(value)) = Len(value)
<1>1. /\ Len(b.strings) \in Nat /\ Len(value) \in Nat /\ MaxUint32 \in Nat
      /\ ~(Len(b.strings) > MaxUint32)
      /\ ~(Len(value) > MaxUint32 - Len(b.strings))
  BY LimitsAssumption DEF StringError
<1>2. Len(b.strings) <= MaxUint32 /\ Len(value) <= MaxUint32
  BY <1>1
<1> QED BY <1>1, <1>2, Uint32Is

(* c differs from b in one field of the row at most.                       *)
Keeps(b, c, field) ==
  \A other \in DOMAIN b.row : other # field => c.row[other] = b.row[other]

LEMMA RefTyped ==
  ASSUME NEW a \in Nat, NEW n \in Nat
  PROVE  Ref(a, n) \in RowRef /\ NoRef \in RowRef
BY DEF Ref, NoRef, RowRef

(* A string packed: its row has the reference of the bytes just appended,  *)
(* or the packing has stopped with an error.                               *)
LEMMA PackStringIs ==
  ASSUME NEW R, NEW b, Builder(b, R), NEW field, Takes(R, field),
         NEW value \in Seq(Bytes), NEW validate,
         NEW c, c = PackString(b, field, value, validate)
  PROVE  /\ Builder(c, R)
         /\ Later(b, c)
         /\ c.items = b.items
         /\ Keeps(b, c, field)
         /\ c.err = "none" => /\ Holds(c.strings, c.row[field], value)
                              /\ Len(c.strings) = Len(b.strings) + Len(value)
<1>1. PICK r, i, ic, s, sc, p, z, e :
        b = [row |-> r, items |-> i, itemCap |-> ic, strings |-> s,
             stringCap |-> sc, plain |-> p, size |-> z, err |-> e]
  BY DEF Builder
<1>2. /\ b.row = r /\ b.items = i /\ b.itemCap = ic /\ b.strings = s
      /\ b.stringCap = sc /\ b.plain = p /\ b.size = z /\ b.err = e
  BY <1>1
<1>3. /\ r \in R /\ i \in Seq(ItemRow) /\ ic \in Nat /\ s \in Seq(Bytes)
      /\ sc \in Nat /\ p \in BOOLEAN
  BY <1>2 DEF Builder
<1>4. PICK err : err = StringError(b, value, validate)
  OBVIOUS
<1>5. CASE e # "none"
  <2>1. c = b
    BY <1>2, <1>5 DEF PackString
  <2> QED BY <1>2, <1>5, <2>1, LaterItself DEF Keeps
<1>6. CASE e = "none" /\ err # "none"
  <2>1. PICK q : q = [r EXCEPT ![field] = NoRef]
    BY Zenon
  <2>2. c = [b EXCEPT !.err = err, !.row[field] = NoRef]
    BY <1>2, <1>4, <1>6 DEF PackString
  <2>3. c = [row |-> q, items |-> i, itemCap |-> ic, strings |-> s,
             stringCap |-> sc, plain |-> p, size |-> z, err |-> err]
    BY <1>1, <2>1, <2>2, Zenon
  <2>4. /\ c.row = q /\ c.items = i /\ c.itemCap = ic /\ c.strings = s
        /\ c.stringCap = sc /\ c.plain = p /\ c.size = z /\ c.err = err
    BY <2>3
  <2>5. q \in R /\ \A other \in DOMAIN r : other # field => q[other] = r[other]
    BY <1>3, <2>1, RefTyped, Zenon DEF Takes
  <2>6. Builder(c, R)
    BY <1>3, <2>3, <2>4, <2>5 DEF Builder
  <2>7. Later(b, c)
    BY <1>2, <1>6, <2>4, GrowsItself DEF Later
  <2> QED BY <1>2, <1>6, <2>4, <2>5, <2>6, <2>7 DEF Keeps
<1>7. CASE e = "none" /\ err = "none"
  <2>1. PICK ref : ref = Ref(Len(s), Len(value)) /\ ref \in RowRef
    BY <1>3, RefTyped
  <2>2. PICK q : q = [r EXCEPT ![field] = ref]
    BY Zenon
  <2>3. PICK t : t = s \o value /\ t \in Seq(Bytes)
    BY <1>3, GrowsWith, Zenon
  <2>4. PICK n \in Nat : n = Len(s) + Len(value)
    BY <1>3
  <2>5. PICK cap \in Nat : cap = Grown(sc, n) /\ (n <= sc => cap = sc)
    BY <1>3, <2>4, GrownIs, Zenon
  <2>6. PICK plain \in BOOLEAN, sum \in {z + EncodedSize(value)} :
          plain = (p /\ Plain(value))
    BY <1>3, Zenon
  <2>7. Ref(Uint32(Len(b.strings)), Uint32(Len(value))) = ref
    BY <1>2, <1>3, <1>4, <1>7, <2>1, StringFits, Zenon
  <2>8. c = [b EXCEPT
              !.row[field] = ref,
              !.strings    = @ \o value,
              !.stringCap  = Grown(@, Len(b.strings) + Len(value)),
              !.plain      = @ /\ Plain(value),
              !.size       = @ + EncodedSize(value)]
    BY <1>2, <1>4, <1>7, <2>7 DEF PackString
  <2>9. c = [row |-> q, items |-> i, itemCap |-> ic, strings |-> t,
             stringCap |-> cap, plain |-> plain, size |-> sum, err |-> e]
    BY <1>1, <1>2, <2>2, <2>3, <2>4, <2>5, <2>6, <2>8, ZenonT(40)
  <2>10. /\ c.row = q /\ c.items = i /\ c.itemCap = ic /\ c.strings = t
         /\ c.stringCap = cap /\ c.plain = plain /\ c.size = sum /\ c.err = e
    BY <2>9
  <2>11. /\ q \in R /\ q[field] = ref
         /\ \A other \in DOMAIN r : other # field => q[other] = r[other]
    BY <1>3, <2>1, <2>2, Zenon DEF Takes
  <2>12. Builder(c, R)
    BY <1>3, <2>3, <2>9, <2>10, <2>11 DEF Builder
  <2>13. Grows(s, t) /\ Len(t) = n
    BY <1>3, <2>3, <2>4, GrowsWith
  <2>14. Later(b, c)
    BY <1>2, <1>3, <1>7, <2>5, <2>10, <2>13, GrowsItself DEF Later
  <2>15. Holds(t, ref, value)
    BY <1>3, <2>1, <2>3, HoldsLast
  <2> QED BY <1>2, <2>4, <2>10, <2>11, <2>12, <2>13, <2>14, <2>15 DEF Keeps
<1> QED BY <1>5, <1>6, <1>7

-----------------------------------------------------------------------------
(* The steps of a table that fill the references F of a row.               *)
RefFields(R, F) ==
  \A field \in F :
    /\ Takes(R, field)
    /\ \A row \in R : field \in DOMAIN row /\ row[field] \in RowRef

StringDone(b, from, field) == Holds(b.strings, b.row[field], from[field])

StepBytes(step, from) == IF step.kind = "string" THEN Len(from[step.arg]) ELSE 0

(* c has what b had, and in the row the fields outside of F are the same.  *)
KeepsDone(b, c, from, F) ==
  /\ \A field \in F : StringDone(b, from, field) => StringDone(c, from, field)
  /\ \A other \in DOMAIN b.row \ F : c.row[other] = b.row[other]

(* While the row is not touched, the fields done stay done in arrays that  *)
(* grow.                                                                   *)
LEMMA SameRowKeeps ==
  ASSUME NEW R, NEW F, RefFields(R, F), NEW b, Builder(b, R), NEW c, Builder(c, R),
         Later(b, c), c.row = b.row, NEW from
  PROVE  KeepsDone(b, c, from, F)
<1>1. ASSUME NEW field \in F, StringDone(b, from, field)
      PROVE  StringDone(c, from, field)
  <2>1. b.row[field] \in RowRef
    BY DEF RefFields, Builder
  <2>2. /\ b.strings \in Seq(Bytes) /\ c.strings \in Seq(Bytes)
        /\ Grows(b.strings, c.strings)
    BY DEF Builder, Later
  <2> QED BY <1>1, <2>1, <2>2, HoldsLater DEF StringDone
<1> QED BY <1>1 DEF KeepsDone

(* c is b after a step that adds so many bytes.                            *)
Fills(b, c, R, F, from, bytes) ==
  /\ Builder(c, R)
  /\ Later(b, c)
  /\ c.items = b.items
  /\ \A other \in DOMAIN b.row \ F : c.row[other] = b.row[other]
  /\ c.err = "none" =>
       /\ KeepsDone(b, c, from, F)
       /\ Len(c.strings) = Len(b.strings) + bytes

Reads(from, field, value) == value = from[field]

(* The step of a string: the field is done, and the arena has as many      *)
(* bytes more.                                                             *)
LEMMA StringStepDone ==
  ASSUME NEW R, NEW F, RefFields(R, F), NEW b, Builder(b, R), NEW from,
         NEW field \in F, NEW value \in Seq(Bytes), Reads(from, field, value), NEW validate,
         NEW c, c = PackString(b, field, value, validate)
  PROVE  /\ Fills(b, c, R, F, from, Len(value))
         /\ c.err = "none" => StringDone(c, from, field)
<1>1. Takes(R, field)
  BY DEF RefFields
<1>2. /\ Builder(c, R) /\ Later(b, c) /\ c.items = b.items /\ Keeps(b, c, field)
      /\ c.err = "none" => /\ Holds(c.strings, c.row[field], value)
                           /\ Len(c.strings) = Len(b.strings) + Len(value)
  BY <1>1, PackStringIs
<1>3. \A other \in DOMAIN b.row \ F : c.row[other] = b.row[other]
  BY <1>2 DEF Keeps
<1>4. ASSUME c.err = "none", NEW other \in F, StringDone(b, from, other)
      PROVE  StringDone(c, from, other)
  <2>1. CASE other = field
    BY <1>2, <1>4, <2>1 DEF StringDone, Reads
  <2>2. CASE other # field
    <3>1. other \in DOMAIN b.row /\ b.row[other] \in RowRef
      BY DEF RefFields, Builder
    <3>2. c.row[other] = b.row[other]
      BY <1>2, <2>2, <3>1 DEF Keeps
    <3>3. /\ b.strings \in Seq(Bytes) /\ c.strings \in Seq(Bytes)
          /\ Grows(b.strings, c.strings)
      BY <1>2 DEF Builder, Later
    <3> QED BY <1>4, <3>1, <3>2, <3>3, HoldsLater DEF StringDone
  <2> QED BY <2>1, <2>2
<1> QED BY <1>2, <1>3, <1>4, Zenon DEF StringDone, KeepsDone, Fills, Reads

LEMMA StepIs ==
  ASSUME NEW R, NEW F, RefFields(R, F), NEW b, Builder(b, R), NEW from, NEW step,
         step.kind \in {"literal", "string", "bool", "int"},
         step.kind = "string" => step.arg \in F /\ from[step.arg] \in Seq(Bytes),
         NEW validate, NEW c, c = PackStep(b, step, from, validate)
  PROVE  /\ Fills(b, c, R, F, from, StepBytes(step, from))
         /\ c.err = "none" /\ step.kind = "string" => StringDone(c, from, step.arg)
<1>1. CASE step.kind = "string"
  <2>1. PICK field, value : field = step.arg /\ value = from[field] /\ Reads(from, field, value)
    BY DEF Reads
  <2>2. field \in F /\ value \in Seq(Bytes)
    BY <1>1, <2>1
  <2>3. c = PackString(b, field, value, validate)
    BY <1>1, <2>1 DEF PackStep
  <2>4. /\ Fills(b, c, R, F, from, Len(value))
        /\ c.err = "none" => StringDone(c, from, field)
    BY <2>1, <2>2, <2>3, StringStepDone
  <2> QED BY <1>1, <2>1, <2>4 DEF StepBytes
<1>2. CASE step.kind # "string"
  <2>1. PICK n : c = Add(b, n)
    <3>1. CASE step.kind = "literal"
      BY <3>1 DEF PackStep
    <3>2. CASE step.kind = "bool"
      BY <3>2 DEF PackStep
    <3>3. CASE step.kind = "int"
      BY <3>3 DEF PackStep
    <3> QED BY <1>2, <3>1, <3>2, <3>3
  <2>2. /\ Builder(c, R) /\ Later(b, c) /\ c.row = b.row
        /\ c.items = b.items /\ c.strings = b.strings
    BY <2>1, AddIs
  <2>3. Len(c.strings) = Len(b.strings) + StepBytes(step, from)
    BY <1>2, <2>2 DEF StepBytes, Builder
  <2> QED BY <1>2, <2>2, <2>3, SameRowKeeps DEF Fills
<1> QED BY <1>1, <1>2

-----------------------------------------------------------------------------
(* The states of packing after the steps of a table.                       *)
PackSteps(after, n, b, table, from, validate) ==
  /\ after = [k \in 0 .. n |-> after[k]]
  /\ after[0] = b
  /\ \A k \in 1 .. n : after[k] = PackRowStep(after[k - 1], table[k], from, validate)

LEMMA PackStepsExist ==
  ASSUME NEW n \in Nat, NEW b, NEW table, NEW from, NEW validate
  PROVE  \E after : PackSteps(after, n, b, table, from, validate)
<1> DEFINE T == {m \in Nat : \E after : PackSteps(after, m, b, table, from, validate)}
<1>1. 0 \in T
  <2>1. PICK z : z = b
    OBVIOUS
  <2>2. PICK g : g = [k \in 0 .. 0 |-> z]
    BY Zenon
  <2>3. PackSteps(g, 0, b, table, from, validate)
    BY <2>1, <2>2 DEF PackSteps
  <2> QED BY <2>3
<1>2. ASSUME NEW m \in Nat, m \in T PROVE m + 1 \in T
  <2>1. PICK g : PackSteps(g, m, b, table, from, validate)
    BY <1>2
  <2>2. PICK z : z = PackRowStep(g[m], table[m + 1], from, validate)
    OBVIOUS
  <2>3. PICK h : Extends(h, g, m, z)
    BY OneMore
  <2>4. ASSUME NEW k \in 1 .. m + 1
        PROVE  h[k] = PackRowStep(h[k - 1], table[k], from, validate)
    <3>1. CASE k \in 1 .. m
      <4>1. k \in 0 .. m /\ k - 1 \in 0 .. m
        BY <3>1
      <4> QED BY <2>1, <2>3, <3>1, <4>1, Zenon DEF PackSteps, Extends
    <3>2. CASE k = m + 1
      <4>1. k - 1 = m /\ m \in 0 .. m
        BY <3>2
      <4> QED BY <2>2, <2>3, <3>2, <4>1, Zenon DEF Extends
    <3>3. k \in 1 .. m \/ k = m + 1
      OBVIOUS
    <3> QED BY <3>1, <3>2, <3>3
  <2>5. 0 \in 0 .. m
    OBVIOUS
  <2>6. PackSteps(h, m + 1, b, table, from, validate)
    BY <2>1, <2>3, <2>4, <2>5, Zenon DEF PackSteps, Extends
  <2> QED BY <2>6
<1>3. Nat \subseteq T
  <2> HIDE DEF T
  <2> QED BY <1>1, <1>2, Induction
<1> QED BY <1>3

-----------------------------------------------------------------------------
(* Items.                                                                  *)
LEMMA PackItemTableIs ==
  /\ Len(PackItemTable) = 9
  /\ PackItemTable[2] = Str("sku")
  /\ PackItemTable[4] = Str("title")
  /\ \A k \in 1 .. 9 : PackItemTable[k].kind \in {"literal", "string", "int"}
  /\ \A k \in 1 .. 9 : PackItemTable[k].kind = "string" => k = 2 \/ k = 4
BY DEF PackItemTable, Lit, Str, Num

ItemWithNumbers(row, item) == [row EXCEPT !.qty = item.qty, !.price = item.price]

(* What packItem makes of the state c after its steps.                     *)
ItemAdded(b, c, item) ==
  IF c.err # "none" THEN [c EXCEPT !.row = b.row]
  ELSE [c EXCEPT !.row     = b.row,
                 !.items   = Append(@, ItemWithNumbers(c.row, item)),
                 !.itemCap = Grown(@, Len(b.items) + 1)]

LEMMA PackItemSteps ==
  ASSUME NEW b, NEW item, NEW validate, NEW start, start = [b EXCEPT !.row = ZeroItemRow]
  PROVE  \E after :
           /\ PackSteps(after, 9, start, PackItemTable, item, validate)
           /\ PackItem(b, item, validate) = ItemAdded(b, after[9], item)
<1> DEFINE n == Len(PackItemTable)
           Solves(f) ==
             f = [k \in 0 .. Len(PackItemTable) |->
                    IF k = 0 THEN [b EXCEPT !.row = ZeroItemRow]
                    ELSE PackStep(f[k - 1], PackItemTable[k], item, validate)]
<1>1. PICK g : PackSteps(g, 9, start, PackItemTable, item, validate)
  BY PackStepsExist
<1>2. Len(PackItemTable) = 9
  BY PackItemTableIs
<1>3. \A k \in 1 .. 9 : \A c :
        PackRowStep(c, PackItemTable[k], item, validate) =
          PackStep(c, PackItemTable[k], item, validate)
  BY PackItemTableIs DEF PackRowStep
<1>4. Solves(g)
  <2>1. ASSUME NEW k \in 0 .. 9
        PROVE  g[k] = IF k = 0 THEN [b EXCEPT !.row = ZeroItemRow]
                      ELSE PackStep(g[k - 1], PackItemTable[k], item, validate)
    <3>1. CASE k = 0
      BY <1>1, <3>1 DEF PackSteps
    <3>2. CASE k # 0
      <4>1. k \in 1 .. 9
        BY <3>2
      <4>2. PICK y : y = g[k - 1]
        OBVIOUS
      <4>3. g[k] = PackRowStep(y, PackItemTable[k], item, validate)
        BY <1>1, <4>1, <4>2 DEF PackSteps
      <4> QED BY <1>3, <3>2, <4>1, <4>2, <4>3
    <3> QED BY <3>1, <3>2
  <2>2. g = [k \in 0 .. 9 |-> g[k]]
    BY <1>1 DEF PackSteps
  <2> QED BY <1>2, <2>1, <2>2
<1>5. PICK f : f = CHOOSE h : Solves(h)
  OBVIOUS
<1>6. Solves(f)
  <2> HIDE DEF Solves
  <2> QED BY <1>4, <1>5
<1>7. PICK c : c = f[Len(PackItemTable)]
  OBVIOUS
<1>8. PackItem(b, item, validate) = ItemAdded(b, c, item)
  BY <1>5, <1>7 DEF PackItem, ItemAdded, ItemWithNumbers
<1>9. PackSteps(f, 9, start, PackItemTable, item, validate)
  <2>1. /\ f = [k \in 0 .. 9 |-> f[k]]
        /\ \A k \in 0 .. 9 :
             f[k] = IF k = 0 THEN [b EXCEPT !.row = ZeroItemRow]
                    ELSE PackStep(f[k - 1], PackItemTable[k], item, validate)
    BY <1>2, <1>6
  <2>2. f[0] = start
    BY <2>1
  <2>3. ASSUME NEW k \in 1 .. 9
        PROVE  f[k] = PackRowStep(f[k - 1], PackItemTable[k], item, validate)
    <3>1. PICK y : y = f[k - 1]
      OBVIOUS
    <3>2. f[k] = PackStep(y, PackItemTable[k], item, validate)
      BY <2>1, <3>1
    <3> QED BY <1>3, <3>1, <3>2
  <2> QED BY <2>1, <2>2, <2>3 DEF PackSteps
<1> QED BY <1>2, <1>7, <1>8, <1>9

LEMMA NewRow ==
  ASSUME NEW R, NEW Q, NEW b, Builder(b, R), NEW row \in Q,
         NEW c, c = [b EXCEPT !.row = row]
  PROVE  /\ Builder(c, Q) /\ Later(b, c) /\ c.row = row /\ c.err = b.err
         /\ c.items = b.items /\ c.strings = b.strings
<1>1. PICK r, i, ic, s, sc, p, z, e :
        b = [row |-> r, items |-> i, itemCap |-> ic, strings |-> s,
             stringCap |-> sc, plain |-> p, size |-> z, err |-> e]
  BY DEF Builder
<1>2. c = [row |-> row, items |-> i, itemCap |-> ic, strings |-> s,
           stringCap |-> sc, plain |-> p, size |-> z, err |-> e]
  BY <1>1
<1>3. /\ c.row = row /\ c.items = b.items /\ c.itemCap = b.itemCap
      /\ c.strings = b.strings /\ c.stringCap = b.stringCap /\ c.err = b.err
      /\ c = [row |-> c.row, items |-> c.items, itemCap |-> c.itemCap,
              strings |-> c.strings, stringCap |-> c.stringCap,
              plain |-> c.plain, size |-> c.size, err |-> c.err]
  BY <1>1, <1>2
<1>4. Builder(c, Q)
  BY <1>3 DEF Builder
<1>5. Later(b, c)
  BY <1>3, GrowsItself DEF Later
<1> QED BY <1>3, <1>4, <1>5

LEMMA ZeroItemTyped == ZeroItemRow \in ItemRow
<1>1. 0 \in Ints
  BY HalfAssumption DEF Ints
<1>2. NoRef \in RowRef
  BY RefTyped
<1> QED BY <1>1, <1>2 DEF ZeroItemRow, ItemRow

ItemRefs == {"sku", "title"}

LEMMA ItemRefFields == RefFields(ItemRow, ItemRefs)
<1>1. ASSUME NEW field \in ItemRefs, NEW row \in ItemRow
      PROVE  field \in DOMAIN row /\ row[field] \in RowRef
  <2>1. /\ row = [f \in {"sku", "title", "qty", "price"} |-> row[f]]
        /\ row["sku"] \in RowRef /\ row["title"] \in RowRef
    BY ItemRowIs
  <2> QED BY <2>1 DEF ItemRefs
<1>2. \A field \in ItemRefs : Takes(ItemRow, field)
  BY ItemTakes DEF ItemRefs
<1> QED BY <1>1, <1>2 DEF RefFields

(* The bytes of an item after k steps of its table.                        *)
ItemBytesTo(item, k) ==
  (IF k >= 2 THEN Len(item["sku"]) ELSE 0) + (IF k >= 4 THEN Len(item["title"]) ELSE 0)

ItemStepsDone(start, c, item, k) ==
  /\ Builder(c, ItemRow)
  /\ Later(start, c)
  /\ c.items = start.items
  /\ c.err = "none" =>
       /\ k >= 2 => StringDone(c, item, "sku")
       /\ k >= 4 => StringDone(c, item, "title")
       /\ Len(c.strings) = Len(start.strings) + ItemBytesTo(item, k)

LEMMA ItemIs ==
  ASSUME NEW item \in Item
  PROVE  /\ item = [sku |-> item.sku, title |-> item.title, qty |-> item.qty,
                    price |-> item.price]
         /\ item["sku"] \in Seq(Bytes) /\ item["title"] \in Seq(Bytes)
         /\ item["qty"] \in Ints /\ item["price"] \in Ints
         /\ Len(item["sku"]) \in Nat /\ Len(item["title"]) \in Nat
BY DEF Item, Text

LEMMA ItemBytesTyped ==
  ASSUME NEW item \in Item, NEW k \in Nat
  PROVE  ItemBytesTo(item, k) \in Nat
<1>1. PICK x \in Nat, y \in Nat : x = Len(item["sku"]) /\ y = Len(item["title"])
  BY ItemIs
<1>2. ItemBytesTo(item, k) = (IF k >= 2 THEN x ELSE 0) + (IF k >= 4 THEN y ELSE 0)
  BY <1>1 DEF ItemBytesTo
<1> QED BY <1>2

LEMMA ItemStepsFill ==
  ASSUME NEW start, Builder(start, ItemRow), NEW item \in Item, NEW validate,
         NEW after, PackSteps(after, 9, start, PackItemTable, item, validate)
  PROVE  ItemStepsDone(start, after[9], item, 9)
<1> DEFINE T == {k \in Nat : k <= 9 => ItemStepsDone(start, after[k], item, k)}
<1>1. 0 \in T
  <2>1. after[0] = start
    BY DEF PackSteps
  <2>2. ItemBytesTo(item, 0) = 0
    BY DEF ItemBytesTo
  <2>3. Len(start.strings) = Len(start.strings) + 0
    BY DEF Builder
  <2> QED BY <2>1, <2>2, <2>3, LaterItself DEF ItemStepsDone
<1>2. ASSUME NEW k \in Nat, k \in T PROVE k + 1 \in T
  <2> SUFFICES ASSUME k + 1 <= 9 PROVE ItemStepsDone(start, after[k + 1], item, k + 1)
    OBVIOUS
  <2>1. PICK b, c, step : b = after[k] /\ c = after[k + 1] /\ step = PackItemTable[k + 1]
    OBVIOUS
  <2>2. k + 1 \in 1 .. 9 /\ (k + 1) - 1 = k /\ k <= 9
    OBVIOUS
  <2>3. ItemStepsDone(start, b, item, k)
    BY <1>2, <2>1, <2>2
  <2>4. /\ step.kind \in {"literal", "string", "int"}
        /\ step.kind = "string" => k + 1 = 2 \/ k + 1 = 4
        /\ k + 1 = 2 => step = Str("sku")
        /\ k + 1 = 4 => step = Str("title")
    BY <2>1, <2>2, PackItemTableIs
  <2>5. c = PackStep(b, step, item, validate)
    BY <2>1, <2>2, <2>4 DEF PackSteps, PackRowStep
  <2>6. /\ k + 1 = 2 => step.kind = "string" /\ step.arg = "sku"
        /\ k + 1 = 4 => step.kind = "string" /\ step.arg = "title"
    BY <2>4 DEF Str
  <2>7. step.kind = "string" => step.arg \in ItemRefs /\ item[step.arg] \in Seq(Bytes)
    BY <2>4, <2>6, ItemIs DEF ItemRefs
  <2>8. Builder(b, ItemRow)
    BY <2>3 DEF ItemStepsDone
  <2>9. /\ Fills(b, c, ItemRow, ItemRefs, item, StepBytes(step, item))
        /\ c.err = "none" /\ step.kind = "string" => StringDone(c, item, step.arg)
    BY <2>4, <2>5, <2>7, <2>8, ItemRefFields, StepIs
  <2>10. /\ Builder(c, ItemRow) /\ Later(start, c) /\ c.items = start.items
    <3>1. Builder(c, ItemRow) /\ Later(b, c) /\ c.items = b.items
      BY <2>9 DEF Fills
    <3>2. Later(start, b) /\ b.items = start.items
      BY <2>3 DEF ItemStepsDone
    <3> QED BY <2>8, <3>1, <3>2, LaterStill
  <2>11. ASSUME c.err = "none"
         PROVE  /\ k + 1 >= 2 => StringDone(c, item, "sku")
                /\ k + 1 >= 4 => StringDone(c, item, "title")
                /\ Len(c.strings) = Len(start.strings) + ItemBytesTo(item, k + 1)
    <3>1. b.err = "none"
      BY <2>9, <2>11 DEF Fills, Later
    <3>2. /\ k >= 2 => StringDone(b, item, "sku")
          /\ k >= 4 => StringDone(b, item, "title")
          /\ Len(b.strings) = Len(start.strings) + ItemBytesTo(item, k)
      BY <2>3, <3>1 DEF ItemStepsDone
    <3>3. /\ KeepsDone(b, c, item, ItemRefs)
          /\ Len(c.strings) = Len(b.strings) + StepBytes(step, item)
      BY <2>9, <2>11 DEF Fills
    <3>4. k + 1 >= 2 => StringDone(c, item, "sku")
      <4>1. CASE k >= 2
        BY <3>2, <3>3, <4>1 DEF KeepsDone, ItemRefs
      <4>2. CASE k + 1 = 2
        BY <2>6, <2>9, <2>11, <4>2
      <4> QED BY <4>1, <4>2
    <3>5. k + 1 >= 4 => StringDone(c, item, "title")
      <4>1. CASE k >= 4
        BY <3>2, <3>3, <4>1 DEF KeepsDone, ItemRefs
      <4>2. CASE k + 1 = 4
        BY <2>6, <2>9, <2>11, <4>2
      <4> QED BY <4>1, <4>2
    <3>6. ItemBytesTo(item, k) + StepBytes(step, item) = ItemBytesTo(item, k + 1)
      <4>1. PICK x \in Nat, y \in Nat : x = Len(item["sku"]) /\ y = Len(item["title"])
        BY ItemIs
      <4>2. StepBytes(step, item) = IF k + 1 = 2 THEN x ELSE IF k + 1 = 4 THEN y ELSE 0
        BY <2>4, <2>6, <4>1 DEF StepBytes
      <4>3. /\ ItemBytesTo(item, k) = (IF k >= 2 THEN x ELSE 0) + (IF k >= 4 THEN y ELSE 0)
            /\ ItemBytesTo(item, k + 1) =
                 (IF k + 1 >= 2 THEN x ELSE 0) + (IF k + 1 >= 4 THEN y ELSE 0)
        BY <4>1 DEF ItemBytesTo
      <4>4. CASE k + 1 = 2
        BY <4>2, <4>3, <4>4
      <4>5. CASE k + 1 = 4
        BY <4>2, <4>3, <4>5
      <4>6. CASE k + 1 # 2 /\ k + 1 # 4
        BY <4>2, <4>3, <4>6
      <4> QED BY <4>4, <4>5, <4>6
    <3>7. /\ Len(start.strings) \in Nat /\ ItemBytesTo(item, k) \in Nat
          /\ StepBytes(step, item) \in Nat
      <4>1. StepBytes(step, item) \in Nat
        BY <2>7 DEF StepBytes
      <4>2. PICK x \in Nat, y \in Nat : x = Len(item["sku"]) /\ y = Len(item["title"])
        BY ItemIs
      <4>3. ItemBytesTo(item, k) = (IF k >= 2 THEN x ELSE 0) + (IF k >= 4 THEN y ELSE 0)
        BY <4>2 DEF ItemBytesTo
      <4>4. Len(start.strings) \in Nat
        BY DEF Builder
      <4> QED BY <4>1, <4>3, <4>4
    <3> QED BY <3>2, <3>3, <3>4, <3>5, <3>6, <3>7
  <2> QED BY <2>1, <2>10, <2>11 DEF ItemStepsDone
<1>3. Nat \subseteq T
  <2> HIDE DEF T
  <2> QED BY <1>1, <1>2, Induction
<1>4. 9 \in T
  BY <1>3
<1> QED BY <1>4

ItemHeld(strings, row, item) ==
  /\ Holds(strings, row["sku"], item["sku"])
  /\ Holds(strings, row["title"], item["title"])
  /\ row["qty"] = item["qty"]
  /\ row["price"] = item["price"]

LEMMA ItemNumbered ==
  ASSUME NEW row \in ItemRow, NEW item \in Item, NEW q, q = ItemWithNumbers(row, item)
  PROVE  /\ q \in ItemRow
         /\ q["sku"] = row["sku"] /\ q["title"] = row["title"]
         /\ q["qty"] = item["qty"] /\ q["price"] = item["price"]
<1> DEFINE F == {"sku", "title", "qty", "price"}
<1>1. /\ row = [f \in F |-> row[f]]
      /\ row["sku"] \in RowRef /\ row["title"] \in RowRef
  BY ItemRowIs
<1>2. PICK x, y : x = item["qty"] /\ y = item["price"] /\ x \in Ints /\ y \in Ints
  BY ItemIs
<1>3. q = [row EXCEPT !.qty = x, !.price = y]
  BY <1>2 DEF ItemWithNumbers
<1>4. q = [f \in F |-> IF f = "price" THEN y ELSE IF f = "qty" THEN x ELSE row[f]]
  BY <1>1, <1>3, Zenon
<1>5. /\ q = [f \in F |-> q[f]] /\ q["sku"] = row["sku"] /\ q["title"] = row["title"]
      /\ q["qty"] = x /\ q["price"] = y
  BY <1>4
<1>6. q \in ItemRow
  BY <1>1, <1>2, <1>5, ItemRowIs
<1> QED BY <1>2, <1>5, <1>6

LEMMA Appended ==
  ASSUME NEW T, NEW s \in Seq(T), NEW x \in T
  PROVE  /\ Append(s, x) \in Seq(T)
         /\ Len(Append(s, x)) = Len(s) + 1
         /\ Append(s, x)[Len(s) + 1] = x
         /\ Grows(s, Append(s, x))
BY DEF Grows

(* An item packed is at the end of the items, and the arena holds its      *)
(* strings.                                                                *)
LEMMA PackItemFills ==
  ASSUME NEW R, NEW b, Builder(b, R), NEW item \in Item, NEW validate,
         NEW c, c = PackItem(b, item, validate)
  PROVE  /\ Builder(c, R) /\ Later(b, c) /\ c.row = b.row
         /\ c.err = "none" =>
              /\ Len(c.items) = Len(b.items) + 1
              /\ ItemHeld(c.strings, c.items[Len(b.items) + 1], item)
              /\ Len(c.strings) = Len(b.strings) + ItemBytesTo(item, 9)
<1>1. PICK start : start = [b EXCEPT !.row = ZeroItemRow]
  BY Zenon
<1>2. /\ Builder(start, ItemRow) /\ Later(b, start)
      /\ start.items = b.items /\ start.strings = b.strings
  BY <1>1, ZeroItemTyped, NewRow
<1>3. PICK after : /\ PackSteps(after, 9, start, PackItemTable, item, validate)
                  /\ PackItem(b, item, validate) = ItemAdded(b, after[9], item)
  BY <1>1, PackItemSteps
<1>4. PICK d : d = after[9] /\ ItemStepsDone(start, d, item, 9)
  BY <1>2, <1>3, ItemStepsFill
<1>5. Builder(d, ItemRow) /\ Later(b, d) /\ d.items = b.items
  BY <1>2, <1>4, LaterStill DEF ItemStepsDone
<1>6. c = ItemAdded(b, d, item)
  BY <1>3, <1>4
<1>7. b.row \in R
  BY DEF Builder
<1>8. CASE d.err # "none"
  <2>1. c = [d EXCEPT !.row = b.row]
    BY <1>6, <1>8 DEF ItemAdded
  <2>2. Builder(c, R) /\ Later(d, c) /\ c.row = b.row /\ c.err = d.err
    BY <1>5, <1>7, <2>1, NewRow
  <2> QED BY <1>5, <1>8, <2>2, LaterStill
<1>9. CASE d.err = "none"
  <2>1. PICK r, i, ic, s, sc, p, z, e :
          d = [row |-> r, items |-> i, itemCap |-> ic, strings |-> s,
               stringCap |-> sc, plain |-> p, size |-> z, err |-> e]
    BY <1>5 DEF Builder
  <2>2. /\ d.row = r /\ d.items = i /\ d.itemCap = ic /\ d.strings = s
        /\ d.stringCap = sc /\ d.plain = p /\ d.size = z /\ d.err = e
    BY <2>1
  <2>3. /\ r \in ItemRow /\ i \in Seq(ItemRow) /\ ic \in Nat /\ s \in Seq(Bytes)
        /\ sc \in Nat /\ p \in BOOLEAN
    BY <1>5, <2>2 DEF Builder
  <2>4. PICK q \in ItemRow : /\ q = ItemWithNumbers(r, item)
                            /\ q["sku"] = r["sku"] /\ q["title"] = r["title"]
                            /\ q["qty"] = item["qty"] /\ q["price"] = item["price"]
    BY <2>3, ItemNumbered
  <2>5. PICK n \in Nat : n = Len(i) + 1
    BY <2>3
  <2>6. PICK cap \in Nat : cap = Grown(ic, n) /\ (n <= ic => cap = ic)
    BY <2>3, <2>5, GrownIs, Zenon
  <2>7. PICK t : t = Append(i, q)
    BY Zenon
  <2>8. t \in Seq(ItemRow) /\ Len(t) = n /\ t[n] = q /\ Grows(i, t)
    BY <2>3, <2>5, <2>7, Appended
  <2>9. PICK row : row = b.row
    OBVIOUS
  <2>10. c = [d EXCEPT !.row     = row,
                       !.items   = Append(@, q),
                       !.itemCap = Grown(@, n)]
    BY <1>5, <1>6, <1>9, <2>2, <2>4, <2>5, <2>9 DEF ItemAdded
  <2>11. c = [row |-> row, items |-> t, itemCap |-> cap, strings |-> s,
              stringCap |-> sc, plain |-> p, size |-> z, err |-> e]
    BY <2>1, <2>2, <2>6, <2>7, <2>10, Zenon
  <2>12. /\ c.row = row /\ c.items = t /\ c.itemCap = cap /\ c.strings = s
         /\ c.stringCap = sc /\ c.plain = p /\ c.size = z /\ c.err = e
    BY <2>11
  <2>13. Builder(c, R)
    BY <1>7, <2>3, <2>8, <2>9, <2>11, <2>12 DEF Builder
  <2>14. Later(d, c)
    BY <2>2, <2>3, <2>6, <2>8, <2>12, GrowsItself DEF Later
  <2>15. Later(b, c)
    BY <1>5, <2>13, <2>14, LaterStill
  <2>16. /\ StringDone(d, item, "sku") /\ StringDone(d, item, "title")
         /\ Len(d.strings) = Len(start.strings) + ItemBytesTo(item, 9)
    BY <1>4, <1>9 DEF ItemStepsDone
  <2>17. ItemHeld(s, q, item)
    BY <2>2, <2>4, <2>16 DEF ItemHeld, StringDone
  <2> QED BY <1>2, <1>5, <2>2, <2>5, <2>8, <2>9, <2>12, <2>13, <2>15, <2>16, <2>17
<1> QED BY <1>8, <1>9

(* It stays so in arrays that grow.                                        *)
LEMMA ItemHeldLater ==
  ASSUME NEW s \in Seq(Bytes), NEW t \in Seq(Bytes), Grows(s, t),
         NEW row \in ItemRow, NEW item, ItemHeld(s, row, item)
  PROVE  ItemHeld(t, row, item)
<1>1. row["sku"] \in RowRef /\ row["title"] \in RowRef
  BY ItemRowIs
<1>2. /\ Holds(s, row["sku"], item["sku"]) /\ Holds(s, row["title"], item["title"])
      /\ row["qty"] = item["qty"] /\ row["price"] = item["price"]
  BY DEF ItemHeld
<1>3. Holds(t, row["sku"], item["sku"]) /\ Holds(t, row["title"], item["title"])
  BY <1>1, <1>2, HoldsLater
<1> QED BY <1>2, <1>3 DEF ItemHeld

-----------------------------------------------------------------------------
(* The list of the items of an order.                                      *)
NextItemFilled(b, c, R, item) ==
  /\ Builder(c, R)
  /\ Later(b, c)
  /\ c.row = b.row
  /\ c.err = "none" =>
       /\ Len(c.items) = Len(b.items) + 1
       /\ ItemHeld(c.strings, c.items[Len(b.items) + 1], item)
       /\ Len(c.strings) = Len(b.strings) + ItemBytesTo(item, 9)

(* A turn of the loop over the items of an order.                          *)
LEMMA NextItemFills ==
  ASSUME NEW R, NEW b, Builder(b, R), NEW order, NEW i \in Nat,
         NEW item \in Item, item = order.items[i], NEW validate,
         NEW c, c = PackNextItem(b, order, i, validate)
  PROVE  NextItemFilled(b, c, R, item)
<1>1. PICK d : d = IF i > 1 THEN Add(b, 1) ELSE b
  OBVIOUS
<1>2. /\ Builder(d, R) /\ Later(b, d) /\ d.row = b.row
      /\ d.items = b.items /\ d.strings = b.strings
  <2>1. CASE i > 1
    BY <1>1, <2>1, AddIs
  <2>2. CASE ~(i > 1)
    BY <1>1, <2>2, LaterItself
  <2> QED BY <2>1, <2>2
<1>3. c = IF d.err # "none" THEN d ELSE PackItem(d, item, validate)
  BY <1>1 DEF PackNextItem
<1>4. CASE d.err # "none"
  BY <1>2, <1>3, <1>4 DEF NextItemFilled
<1>5. CASE d.err = "none"
  <2>1. c = PackItem(d, item, validate)
    BY <1>3, <1>5
  <2>2. /\ Builder(c, R) /\ Later(d, c) /\ c.row = d.row
        /\ c.err = "none" =>
              /\ Len(c.items) = Len(d.items) + 1
              /\ ItemHeld(c.strings, c.items[Len(d.items) + 1], item)
              /\ Len(c.strings) = Len(d.strings) + ItemBytesTo(item, 9)
    BY <1>2, <2>1, PackItemFills
  <2>3. Later(b, c)
    BY <1>2, <2>2, LaterStill
  <2> QED BY <1>2, <2>2, <2>3 DEF NextItemFilled
<1> QED BY <1>4, <1>5

PackTurns(after, n, b, order, validate) ==
  /\ after = [i \in 0 .. n |-> after[i]]
  /\ after[0] = Add(b, 2)
  /\ \A i \in 1 .. n : after[i] = PackNextItem(after[i - 1], order, i, validate)

LEMMA PackTurnsExist ==
  ASSUME NEW n \in Nat, NEW b, NEW order, NEW validate
  PROVE  \E after : PackTurns(after, n, b, order, validate)
<1> DEFINE T == {m \in Nat : \E after : PackTurns(after, m, b, order, validate)}
<1>1. 0 \in T
  <2>1. PICK z : z = Add(b, 2)
    OBVIOUS
  <2>2. PICK g : g = [k \in 0 .. 0 |-> z]
    BY Zenon
  <2>3. PackTurns(g, 0, b, order, validate)
    BY <2>1, <2>2 DEF PackTurns
  <2> QED BY <2>3
<1>2. ASSUME NEW m \in Nat, m \in T PROVE m + 1 \in T
  <2>1. PICK g : PackTurns(g, m, b, order, validate)
    BY <1>2
  <2>2. PICK z : z = PackNextItem(g[m], order, m + 1, validate)
    OBVIOUS
  <2>3. PICK h : Extends(h, g, m, z)
    BY OneMore
  <2>4. ASSUME NEW k \in 1 .. m + 1
        PROVE  h[k] = PackNextItem(h[k - 1], order, k, validate)
    <3>1. CASE k \in 1 .. m
      <4>1. k \in 0 .. m /\ k - 1 \in 0 .. m
        BY <3>1
      <4> QED BY <2>1, <2>3, <3>1, <4>1, Zenon DEF PackTurns, Extends
    <3>2. CASE k = m + 1
      <4>1. k - 1 = m /\ m \in 0 .. m
        BY <3>2
      <4> QED BY <2>2, <2>3, <3>2, <4>1, Zenon DEF Extends
    <3>3. k \in 1 .. m \/ k = m + 1
      OBVIOUS
    <3> QED BY <3>1, <3>2, <3>3
  <2>5. 0 \in 0 .. m
    OBVIOUS
  <2>6. PackTurns(h, m + 1, b, order, validate)
    BY <2>1, <2>3, <2>4, <2>5, Zenon DEF PackTurns, Extends
  <2> QED BY <2>6
<1>3. Nat \subseteq T
  <2> HIDE DEF T
  <2> QED BY <1>1, <1>2, Induction
<1> QED BY <1>3

LEMMA PackListTurns ==
  ASSUME NEW b, NEW order, NEW validate, NEW n \in Nat, n = Len(order.items)
  PROVE  \E after : /\ PackTurns(after, n, b, order, validate)
                    /\ PackList(b, order, validate) = after[n]
<1> DEFINE Solves(f) ==
      f = [i \in 0 .. Len(order.items) |->
             IF i = 0 THEN Add(b, 2) ELSE PackNextItem(f[i - 1], order, i, validate)]
<1>1. PICK g : PackTurns(g, n, b, order, validate)
  BY PackTurnsExist, Zenon
<1>2. Solves(g)
  <2>1. ASSUME NEW k \in 0 .. n
        PROVE  g[k] = IF k = 0 THEN Add(b, 2)
                      ELSE PackNextItem(g[k - 1], order, k, validate)
    <3>1. CASE k = 0
      BY <1>1, <3>1 DEF PackTurns
    <3>2. CASE k # 0
      <4>1. k \in 1 .. n
        BY <3>2
      <4> QED BY <1>1, <3>2, <4>1, Zenon DEF PackTurns
    <3> QED BY <3>1, <3>2
  <2>2. g = [k \in 0 .. n |-> g[k]]
    BY <1>1 DEF PackTurns
  <2> QED BY <2>1, <2>2
<1>3. PICK f : f = CHOOSE h : Solves(h)
  OBVIOUS
<1>4. Solves(f)
  <2> HIDE DEF Solves
  <2> QED BY <1>2, <1>3
<1>5. PackList(b, order, validate) = f[n]
  BY <1>3 DEF PackList
<1>6. PackTurns(f, n, b, order, validate)
  <2>1. /\ f = [k \in 0 .. n |-> f[k]]
        /\ \A k \in 0 .. n : f[k] = IF k = 0 THEN Add(b, 2)
                                     ELSE PackNextItem(f[k - 1], order, k, validate)
    BY <1>4
  <2>2. f[0] = Add(b, 2)
    BY <2>1
  <2>3. \A k \in 1 .. n : f[k] = PackNextItem(f[k - 1], order, k, validate)
    BY <2>1
  <2> QED BY <2>1, <2>2, <2>3, Zenon DEF PackTurns
<1> QED BY <1>5, <1>6

ListFilled(b, c, R, items, k, bytes) ==
  /\ Builder(c, R)
  /\ Later(b, c)
  /\ c.row = b.row
  /\ c.err = "none" =>
       /\ Len(c.items) = Len(b.items) + k
       /\ \A i \in 1 .. k : ItemHeld(c.strings, c.items[Len(b.items) + i], items[i])
       /\ Len(c.strings) = Len(b.strings) + bytes

LEMMA ListGoesOn ==
  ASSUME NEW R, NEW b, Builder(b, R), NEW c, NEW d, NEW items, NEW k \in Nat,
         NEW bytes \in Nat, NEW more \in Nat, NEW item, item = items[k + 1],
         ListFilled(b, c, R, items, k, bytes),
         NextItemFilled(c, d, R, item), more = ItemBytesTo(item, 9)
  PROVE  ListFilled(b, d, R, items, k + 1, bytes + more)
<1>1. /\ Builder(c, R) /\ Later(b, c) /\ c.row = b.row
      /\ Builder(d, R) /\ Later(c, d) /\ d.row = c.row
  BY DEF ListFilled, NextItemFilled
<1>2. Later(b, d)
  BY <1>1, LaterStill
<1>3. ASSUME d.err = "none"
      PROVE  /\ Len(d.items) = Len(b.items) + (k + 1)
             /\ \A i \in 1 .. k + 1 : ItemHeld(d.strings, d.items[Len(b.items) + i], items[i])
             /\ Len(d.strings) = Len(b.strings) + (bytes + more)
  <2>1. c.err = "none"
    BY <1>1, <1>3 DEF Later
  <2>2. PICK n \in Nat, m \in Nat : n = Len(b.items) /\ m = Len(b.strings)
    BY DEF Builder
  <2>3. /\ Len(c.items) = n + k
        /\ \A i \in 1 .. k : ItemHeld(c.strings, c.items[n + i], items[i])
        /\ Len(c.strings) = m + bytes
    BY <2>1, <2>2 DEF ListFilled
  <2>4. /\ Len(d.items) = Len(c.items) + 1
        /\ ItemHeld(d.strings, d.items[Len(c.items) + 1], item)
        /\ Len(d.strings) = Len(c.strings) + more
    BY <1>3 DEF NextItemFilled
  <2>5. Len(d.items) = n + (k + 1) /\ Len(d.strings) = m + (bytes + more)
    BY <2>3, <2>4
  <2>6. ASSUME NEW i \in 1 .. k + 1
        PROVE  ItemHeld(d.strings, d.items[n + i], items[i])
    <3>1. CASE i = k + 1
      <4>1. n + i = Len(c.items) + 1
        BY <2>3, <3>1
      <4> QED BY <2>4, <3>1, <4>1, Zenon
    <3>2. CASE i \in 1 .. k
      <4>1. n + i \in 1 .. Len(c.items)
        BY <2>3, <3>2
      <4>2. PICK row : row = c.items[n + i]
        OBVIOUS
      <4>3. row \in ItemRow /\ d.items[n + i] = row
        <5>1. c.items \in Seq(ItemRow) /\ Grows(c.items, d.items)
          BY <1>1 DEF Builder, Later
        <5>2. row \in ItemRow
          BY <4>1, <4>2, <5>1
        <5>3. d.items[n + i] = c.items[n + i]
          BY <4>1, <5>1 DEF Grows
        <5> QED BY <4>2, <5>2, <5>3
      <4>4. /\ c.strings \in Seq(Bytes) /\ d.strings \in Seq(Bytes)
            /\ Grows(c.strings, d.strings)
        BY <1>1 DEF Builder, Later
      <4>5. ItemHeld(c.strings, row, items[i])
        BY <2>3, <3>2, <4>2, Zenon
      <4>6. PICK other : other = items[i]
        OBVIOUS
      <4>7. ItemHeld(d.strings, row, other)
        BY <4>3, <4>4, <4>5, <4>6, ItemHeldLater
      <4> QED BY <4>3, <4>6, <4>7
    <3> QED BY <3>1, <3>2
  <2> QED BY <2>2, <2>5, <2>6
<1> QED BY <1>1, <1>2, <1>3, Zenon DEF ListFilled

(* The loop: as many items more as the order has, each of them held.       *)
LEMMA PackListFills ==
  ASSUME NEW R, NEW b, Builder(b, R), NEW order, NEW items \in Seq(Item),
         items = order.items, NEW n \in Nat, n = Len(items), NEW validate,
         NEW g, NEW f, Sums(g, n, f), \A i \in 1 .. n : f[i] = ItemBytesTo(items[i], 9),
         NEW c, c = PackList(b, order, validate)
  PROVE  ListFilled(b, c, R, items, n, g[n])
<1>1. PICK after : PackTurns(after, n, b, order, validate) /\ c = after[n]
  BY PackListTurns
<1> DEFINE T == {k \in Nat : k <= n => ListFilled(b, after[k], R, items, k, g[k])}
<1>2. 0 \in T
  <2>1. PICK d : d = Add(b, 2) /\ after[0] = d
    BY <1>1 DEF PackTurns
  <2>2. /\ Builder(d, R) /\ Later(b, d) /\ d.row = b.row
        /\ d.items = b.items /\ d.strings = b.strings
    BY <2>1, AddIs
  <2>3. g[0] = 0 /\ Len(b.items) \in Nat /\ Len(b.strings) \in Nat
    BY DEF Sums, Builder
  <2>4. Len(b.items) = Len(b.items) + 0 /\ Len(b.strings) = Len(b.strings) + 0
    BY <2>3
  <2>5. ListFilled(b, d, R, items, 0, 0)
    BY <2>2, <2>4 DEF ListFilled
  <2> QED BY <2>1, <2>3, <2>5
<1>3. ASSUME NEW k \in Nat, k \in T PROVE k + 1 \in T
  <2> SUFFICES ASSUME k + 1 <= n
               PROVE  ListFilled(b, after[k + 1], R, items, k + 1, g[k + 1])
    OBVIOUS
  <2>1. k + 1 \in 1 .. n /\ (k + 1) - 1 = k /\ k <= n /\ k \in 0 .. n
    OBVIOUS
  <2>2. PICK x, y, bytes, item :
          x = after[k] /\ y = after[k + 1] /\ bytes = g[k] /\ item = items[k + 1]
    OBVIOUS
  <2>3. ListFilled(b, x, R, items, k, bytes)
    BY <1>3, <2>1, <2>2
  <2>4. item \in Item
    BY <2>1, <2>2
  <2>5. y = PackNextItem(x, order, k + 1, validate)
    BY <1>1, <2>1, <2>2, Zenon DEF PackTurns
  <2>6. Builder(x, R) /\ item = order.items[k + 1] /\ k + 1 \in Nat
    BY <2>2, <2>3 DEF ListFilled
  <2>7. NextItemFilled(x, y, R, item)
    BY <2>4, <2>5, <2>6, NextItemFills
  <2>8. PICK more \in Nat : more = ItemBytesTo(item, 9)
    BY <2>4, ItemBytesTyped
  <2>9. bytes \in Nat /\ g[k + 1] = bytes + more
    BY <2>1, <2>2, <2>8, Zenon DEF Sums
  <2>10. ListFilled(b, y, R, items, k + 1, bytes + more)
    BY <2>2, <2>3, <2>7, <2>8, <2>9, ListGoesOn
  <2> QED BY <2>2, <2>9, <2>10
<1>4. Nat \subseteq T
  <2> HIDE DEF T
  <2> QED BY <1>2, <1>3, Induction, Zenon
<1>5. n \in T
  BY <1>4
<1>6. ListFilled(b, after[n], R, items, n, g[n])
  BY <1>5
<1> QED BY <1>1, <1>6

-----------------------------------------------------------------------------
(* The steps of an order.                                                  *)
OrderStrings ==
  {"orderID", "createdAt", "status", "paymentMethod", "buyerName", "city",
   "address", "remark"}

LEMMA OrderIs ==
  ASSUME NEW order \in Order
  PROVE  /\ order = [orderID |-> order.orderID, createdAt |-> order.createdAt,
                     status |-> order.status, paymentMethod |-> order.paymentMethod,
                     paid |-> order.paid, buyerID |-> order.buyerID,
                     buyerName |-> order.buyerName, city |-> order.city,
                     address |-> order.address, trackingNo |-> order.trackingNo,
                     items |-> order.items, remark |-> order.remark]
         /\ \A field \in OrderStrings : order[field] \in Seq(Bytes)
         /\ order["buyerID"] \in Ints
         /\ order["paid"] \in BOOLEAN
         /\ order["trackingNo"] # Nil => order["trackingNo"] \in Seq(Bytes)
         /\ order["items"] # Nil => order["items"] \in Seq(Item)
BY DEF Order, Text, OrderStrings

TrackingBytes(order) == IF order["trackingNo"] = Nil THEN 0 ELSE Len(order["trackingNo"])

LEMMA OrderTyped ==
  ASSUME NEW order \in Order
  PROVE  /\ \A field \in OrderStrings : Len(order[field]) \in Nat
         /\ TrackingBytes(order) \in Nat
         /\ Count(order.items) \in Nat
<1>1. \A s \in Seq(Bytes) : Len(s) \in Nat
  OBVIOUS
<1>2. \A s \in Seq(Item) : Len(s) \in Nat
  OBVIOUS
<1>3. \A field \in OrderStrings : Len(order[field]) \in Nat
  BY <1>1, OrderIs
<1>4. TrackingBytes(order) \in Nat
  BY <1>1, OrderIs DEF TrackingBytes
<1>5. Count(order.items) \in Nat
  BY <1>2, OrderIs DEF Count
<1> QED BY <1>3, <1>4, <1>5

LEMMA OrderRefField ==
  ASSUME NEW field \in OrderRefs, NEW row \in OrderRow
  PROVE  field \in DOMAIN row /\ row[field] \in RowRef
<1>1. row = [f \in OrderFields |-> row[f]] /\ row[field] \in RowRef
  BY OrderRowIs
<1> QED BY <1>1 DEF OrderFields

LEMMA OrderRefFields ==
  /\ RefFields(OrderRow, OrderStrings)
  /\ RefFields(OrderRow, {"trackingNo"})
<1>1. OrderStrings \subseteq OrderRefs /\ {"trackingNo"} \subseteq OrderRefs
  BY DEF OrderStrings, OrderRefs
<1> QED BY <1>1, OrderTakes, OrderRefField DEF RefFields

TrackingDone(b, order) ==
  /\ order["trackingNo"] = Nil => b.row["hasTrackingNo"] = 0
  /\ order["trackingNo"] # Nil =>
       b.row["hasTrackingNo"] = 1 /\ StringDone(b, order, "trackingNo")

ItemsDone(b, order) ==
  /\ b.row["buyerID"] = order["buyerID"]
  /\ b.row["paid"] = IF order["paid"] THEN 1 ELSE 0
  /\ order["items"] = Nil => b.row["itemsNull"] = 1 /\ b.row["itemCount"] = 0
  /\ order["items"] # Nil =>
       /\ b.row["itemsNull"] = 0
       /\ b.row["itemCount"] = Len(order["items"])
       /\ b.row["itemStart"] + b.row["itemCount"] <= Len(b.items)
       /\ \A i \in 1 .. b.row["itemCount"] :
            ItemHeld(b.strings, b.items[b.row["itemStart"] + i], order["items"][i])

StepDone(b, step, order) ==
  CASE step.kind = "string"   -> StringDone(b, order, step.arg)
    [] step.kind = "nullable" -> TrackingDone(b, order)
    [] step.kind = "items"    -> ItemsDone(b, order)
    [] OTHER                  -> TRUE

(* The flags of a row are set for a reason.                                *)
Flags(row, order) ==
  /\ row["hasTrackingNo"] = 0 \/ (row["hasTrackingNo"] = 1 /\ order["trackingNo"] # Nil)
  /\ row["paid"] = 0 \/ (row["paid"] = 1 /\ order["paid"])
  /\ row["itemsNull"] = 0 \/ (row["itemsNull"] = 1 /\ order["items"] = Nil)

OrderStep(step) ==
  /\ step.kind \in {"literal", "string", "bool", "int", "nullable", "items"}
  /\ step.kind = "string" => step.arg \in OrderStrings
  /\ step.kind = "nullable" => step.arg = "trackingNo"

(* What was done stays done while the fields it is in stay as they are.    *)
Same(b, c, F) == \A field \in F : c.row[field] = b.row[field]

LEMMA StringKept ==
  ASSUME NEW b, Builder(b, OrderRow), NEW c, Builder(c, OrderRow), Later(b, c),
         NEW field \in OrderRefs, c.row[field] = b.row[field],
         NEW order, StringDone(b, order, field)
  PROVE  StringDone(c, order, field)
<1>1. b.row[field] \in RowRef
  BY OrderRefField DEF Builder
<1>2. /\ b.strings \in Seq(Bytes) /\ c.strings \in Seq(Bytes)
      /\ Grows(b.strings, c.strings)
  BY DEF Builder, Later
<1> QED BY <1>1, <1>2, HoldsLater DEF StringDone

LEMMA TrackingKept ==
  ASSUME NEW b, Builder(b, OrderRow), NEW c, Builder(c, OrderRow), Later(b, c),
         Same(b, c, {"trackingNo", "hasTrackingNo"}),
         NEW order, TrackingDone(b, order)
  PROVE  TrackingDone(c, order)
<1>1. "trackingNo" \in OrderRefs
  BY DEF OrderRefs
<1> QED BY <1>1, StringKept DEF TrackingDone, Same

ItemFields == {"itemStart", "itemCount", "buyerID", "paid", "itemsNull"}

LEMMA ItemsKept ==
  ASSUME NEW b, Builder(b, OrderRow), NEW c, Builder(c, OrderRow), Later(b, c),
         Same(b, c, ItemFields), NEW order, ItemsDone(b, order)
  PROVE  ItemsDone(c, order)
<1>1. /\ c.row["buyerID"] = b.row["buyerID"] /\ c.row["paid"] = b.row["paid"]
      /\ c.row["itemsNull"] = b.row["itemsNull"]
      /\ c.row["itemStart"] = b.row["itemStart"]
      /\ c.row["itemCount"] = b.row["itemCount"]
  BY DEF Same, ItemFields
<1>2. CASE order["items"] = Nil
  BY <1>1, <1>2 DEF ItemsDone
<1>3. CASE order["items"] # Nil
  <2>1. PICK s, n : s = b.row["itemStart"] /\ n = b.row["itemCount"]
    OBVIOUS
  <2>2. s \in Nat /\ n \in Nat
    BY <2>1, OrderRowIs DEF Builder
  <2>3. /\ b.items \in Seq(ItemRow) /\ c.items \in Seq(ItemRow)
        /\ b.strings \in Seq(Bytes) /\ c.strings \in Seq(Bytes)
        /\ Grows(b.items, c.items) /\ Grows(b.strings, c.strings)
    BY DEF Builder, Later
  <2>4. /\ s + n <= Len(b.items)
        /\ \A i \in 1 .. n : ItemHeld(b.strings, b.items[s + i], order["items"][i])
    BY <1>3, <2>1 DEF ItemsDone
  <2>5. s + n <= Len(c.items)
    BY <2>2, <2>3, <2>4 DEF Grows
  <2>6. ASSUME NEW i \in 1 .. n
        PROVE  ItemHeld(c.strings, c.items[s + i], order["items"][i])
    <3>1. PICK item, row : item = order["items"][i] /\ row = b.items[s + i]
      OBVIOUS
    <3>2. s + i \in 1 .. Len(b.items)
      BY <2>2, <2>3, <2>4
    <3>3. row \in ItemRow
      BY <2>3, <3>1, <3>2
    <3>4. c.items[s + i] = b.items[s + i]
      BY <2>3, <3>2 DEF Grows
    <3>5. ItemHeld(b.strings, row, item)
      BY <2>4, <3>1
    <3>6. ItemHeld(c.strings, row, item)
      BY <2>3, <3>3, <3>5, ItemHeldLater
    <3> QED BY <3>1, <3>4, <3>6
  <2> QED BY <1>1, <1>3, <2>1, <2>5, <2>6 DEF ItemsDone
<1> QED BY <1>2, <1>3

DoneKept(b, c, order) ==
  \A other : OrderStep(other) /\ StepDone(b, other, order) => StepDone(c, other, order)

(* A later step keeps what the earlier ones did to the row.                *)
LEMMA AllKept ==
  ASSUME NEW b, NEW c, NEW order,
         \A field \in OrderStrings : StringDone(b, order, field) => StringDone(c, order, field),
         TrackingDone(b, order) => TrackingDone(c, order),
         ItemsDone(b, order) => ItemsDone(c, order)
  PROVE  DoneKept(b, c, order)
<1> SUFFICES ASSUME NEW other, OrderStep(other), StepDone(b, other, order)
             PROVE  StepDone(c, other, order)
  BY DEF DoneKept
<1>1. CASE other.kind = "string"
  BY <1>1 DEF StepDone, OrderStep
<1>2. CASE other.kind = "nullable"
  BY <1>2 DEF StepDone
<1>3. CASE other.kind = "items"
  BY <1>3 DEF StepDone
<1>4. CASE other.kind \notin {"string", "nullable", "items"}
  BY <1>4 DEF StepDone
<1> QED BY <1>1, <1>2, <1>3, <1>4

(* c is b after a step of an order.                                        *)
RowStepped(b, c, order, step, bytes, count) ==
  /\ Builder(c, OrderRow)
  /\ Later(b, c)
  /\ Flags(c.row, order)
  /\ c.err = "none" =>
       /\ StepDone(c, step, order)
       /\ DoneKept(b, c, order)
       /\ Len(c.strings) = Len(b.strings) + bytes
       /\ Len(c.items) = Len(b.items) + count

(* A step that writes neither the tracking number nor the items.           *)
LEMMA PlainStep ==
  ASSUME NEW b, Builder(b, OrderRow), NEW order \in Order, Flags(b.row, order),
         NEW step, OrderStep(step), step.kind \notin {"nullable", "items"},
         NEW validate, NEW c, c = PackRowStep(b, step, order, validate)
  PROVE  RowStepped(b, c, order, step, StepBytes(step, order), 0)
<1>1. c = PackStep(b, step, order, validate)
  BY DEF PackRowStep
<1>2. /\ step.kind \in {"literal", "string", "bool", "int"}
      /\ step.kind = "string" => step.arg \in OrderStrings
  BY DEF OrderStep
<1>3. step.kind = "string" => order[step.arg] \in Seq(Bytes)
  BY <1>2, OrderIs
<1>4. /\ Fills(b, c, OrderRow, OrderStrings, order, StepBytes(step, order))
      /\ c.err = "none" /\ step.kind = "string" => StringDone(c, order, step.arg)
  BY <1>1, <1>2, <1>3, OrderRefFields, StepIs
<1>5. /\ Builder(c, OrderRow) /\ Later(b, c) /\ c.items = b.items
      /\ \A other \in DOMAIN b.row \ OrderStrings : c.row[other] = b.row[other]
      /\ c.err = "none" =>
           /\ KeepsDone(b, c, order, OrderStrings)
           /\ Len(c.strings) = Len(b.strings) + StepBytes(step, order)
  BY <1>4 DEF Fills
<1>6. DOMAIN b.row = OrderFields
  BY OrderRowIs DEF Builder
<1>7. /\ Same(b, c, {"trackingNo", "hasTrackingNo"})
      /\ Same(b, c, ItemFields)
  BY <1>5, <1>6 DEF Same, ItemFields, OrderFields, OrderRefs, OrderStrings
<1>8. Flags(c.row, order)
  BY <1>7 DEF Same, ItemFields, Flags
<1>9. c.err = "none" => DoneKept(b, c, order)
  <2> SUFFICES ASSUME c.err = "none" PROVE DoneKept(b, c, order)
    OBVIOUS
  <2>1. TrackingDone(b, order) => TrackingDone(c, order)
    BY <1>5, <1>7, TrackingKept
  <2>2. ItemsDone(b, order) => ItemsDone(c, order)
    BY <1>5, <1>7, ItemsKept
  <2>3. \A field \in OrderStrings : StringDone(b, order, field) => StringDone(c, order, field)
    BY <1>5 DEF KeepsDone
  <2> QED BY <2>1, <2>2, <2>3, AllKept
<1>10. c.err = "none" => StepDone(c, step, order)
  BY <1>2, <1>4 DEF StepDone
<1>11. Len(c.items) = Len(b.items) + 0
  BY <1>5 DEF Builder
<1> QED BY <1>5, <1>8, <1>9, <1>10, <1>11 DEF RowStepped

LEMMA OrderRowFlag ==
  ASSUME NEW row \in OrderRow, NEW q, q = [row EXCEPT !.hasTrackingNo = 1]
  PROVE  /\ q \in OrderRow /\ q["hasTrackingNo"] = 1
         /\ \A field \in OrderFields : field # "hasTrackingNo" => q[field] = row[field]
<1>1. /\ row = [f \in OrderFields |-> row[f]]
      /\ \A f \in OrderRefs : row[f] \in RowRef
      /\ \A f \in {"itemStart", "itemCount", "paid", "hasTrackingNo",
                   "itemsNull"} : row[f] \in Nat
      /\ row["buyerID"] \in Ints
  BY OrderRowIs
<1>2. q = [f \in OrderFields |-> IF f = "hasTrackingNo" THEN 1 ELSE row[f]]
  BY <1>1
<1>3. /\ q = [f \in OrderFields |-> q[f]]
      /\ \A f \in OrderFields : q[f] = IF f = "hasTrackingNo" THEN 1 ELSE row[f]
  BY <1>2, Zenon
<1>4. q["hasTrackingNo"] = 1 /\ \A f \in OrderFields : f # "hasTrackingNo" => q[f] = row[f]
  BY <1>3 DEF OrderFields
<1>5. /\ \A f \in OrderRefs : q[f] \in RowRef
      /\ \A f \in {"itemStart", "itemCount", "paid", "hasTrackingNo",
                   "itemsNull"} : q[f] \in Nat
      /\ q["buyerID"] \in Ints
  BY <1>1, <1>3 DEF OrderFields, OrderRefs
<1>6. q \in OrderRow
  BY <1>3, <1>5, OrderRowIs, Zenon
<1> QED BY <1>4, <1>6

(* The tracking number: a reference with its flag, or neither.             *)
LEMMA TrackingStep ==
  ASSUME NEW b, Builder(b, OrderRow), NEW order \in Order, Flags(b.row, order),
         NEW step, OrderStep(step), step.kind = "nullable",
         NEW validate, NEW c, c = PackRowStep(b, step, order, validate)
  PROVE  RowStepped(b, c, order, step, TrackingBytes(order), 0)
<1>1. PICK value : value = order["trackingNo"] /\ Reads(order, "trackingNo", value)
  BY DEF Reads
<1>2. c = PackTracking(b, value, validate)
  BY <1>1 DEF PackRowStep, PackStep, OrderStep
<1>3. b.row \in OrderRow /\ DOMAIN b.row = OrderFields
  BY OrderRowIs DEF Builder
<1>4. SUFFICES
        /\ Builder(c, OrderRow) /\ Later(b, c) /\ c.items = b.items
        /\ Same(b, c, ItemFields) /\ Same(b, c, OrderStrings)
        /\ Flags(c.row, order)
        /\ c.err = "none" => /\ TrackingDone(c, order)
                             /\ Len(c.strings) = Len(b.strings) + TrackingBytes(order)
  <2>1. ASSUME NEW field \in OrderStrings, StringDone(b, order, field)
        PROVE  StringDone(c, order, field)
    <3>1. field \in OrderRefs
      BY DEF OrderStrings, OrderRefs
    <3> QED BY <1>4, <2>1, <3>1, StringKept DEF Same
  <2>2. ItemsDone(b, order) => ItemsDone(c, order)
    BY <1>4, ItemsKept
  <2>3. c.err = "none" => DoneKept(b, c, order)
    BY <1>4, <2>1, <2>2, AllKept
  <2>4. Len(c.items) = Len(b.items) + 0
    BY <1>4 DEF Builder
  <2>5. c.err = "none" => StepDone(c, step, order)
    BY <1>4 DEF StepDone
  <2> QED BY <1>4, <2>3, <2>4, <2>5 DEF RowStepped
<1>5. CASE b.err # "none"
  <2>1. c = b
    BY <1>2, <1>5 DEF PackTracking
  <2> QED BY <1>5, <2>1, LaterItself DEF Same
<1>6. CASE b.err = "none" /\ value = Nil
  <2>1. c = Add(b, 4)
    BY <1>2, <1>6 DEF PackTracking
  <2>2. /\ Builder(c, OrderRow) /\ Later(b, c) /\ c.row = b.row
        /\ c.items = b.items /\ c.strings = b.strings
    BY <2>1, AddIs
  <2>3. b.row["hasTrackingNo"] = 0
    BY <1>1, <1>6 DEF Flags
  <2>4. Len(c.strings) = Len(b.strings) + TrackingBytes(order)
    BY <1>1, <1>6, <2>2 DEF TrackingBytes, Builder
  <2> QED BY <1>1, <1>6, <2>2, <2>3, <2>4 DEF Same, TrackingDone
<1>7. CASE b.err = "none" /\ value # Nil
  <2>1. PICK q, row : row = b.row /\ q = [row EXCEPT !.hasTrackingNo = 1]
    BY Zenon
  <2>2. /\ q \in OrderRow /\ q["hasTrackingNo"] = 1
        /\ \A field \in OrderFields : field # "hasTrackingNo" => q[field] = row[field]
    BY <1>3, <2>1, OrderRowFlag
  <2>3. PICK d : d = [b EXCEPT !.row = q]
    BY Zenon
  <2>4. /\ Builder(d, OrderRow) /\ Later(b, d) /\ d.row = q /\ d.err = b.err
        /\ d.items = b.items /\ d.strings = b.strings
    BY <2>2, <2>3, NewRow
  <2>5. d = [b EXCEPT !.row.hasTrackingNo = 1]
    BY <2>1, <2>3 DEF Builder
  <2>6. value \in Seq(Bytes)
    BY <1>1, <1>7, OrderIs
  <2>7. c = PackString(d, "trackingNo", value, validate)
    BY <1>2, <1>7, <2>5 DEF PackTracking
  <2>8. /\ Fills(d, c, OrderRow, {"trackingNo"}, order, Len(value))
        /\ c.err = "none" => StringDone(c, order, "trackingNo")
    BY <1>1, <2>4, <2>6, <2>7, OrderRefFields, StringStepDone
  <2>9. /\ Builder(c, OrderRow) /\ Later(d, c) /\ c.items = d.items
        /\ \A other \in DOMAIN d.row \ {"trackingNo"} : c.row[other] = d.row[other]
        /\ c.err = "none" => Len(c.strings) = Len(d.strings) + Len(value)
    BY <2>8 DEF Fills
  <2>10. Later(b, c)
    BY <2>4, <2>9, LaterStill
  <2>11. DOMAIN d.row = OrderFields
    BY <2>2, <2>4, OrderRowIs
  <2>12. /\ c.row["hasTrackingNo"] = 1
         /\ \A field \in OrderFields \ {"trackingNo", "hasTrackingNo"} :
              c.row[field] = b.row[field]
    BY <2>1, <2>2, <2>4, <2>9, <2>11 DEF OrderFields
  <2>13. Same(b, c, ItemFields) /\ Same(b, c, OrderStrings)
    BY <2>12 DEF Same, ItemFields, OrderStrings, OrderFields, OrderRefs
  <2>14. Flags(c.row, order)
    BY <1>1, <1>7, <2>12, <2>13 DEF Flags, Same, ItemFields
  <2>15. c.err = "none" => TrackingDone(c, order)
    BY <1>1, <1>7, <2>8, <2>12 DEF TrackingDone
  <2>16. c.err = "none" => Len(c.strings) = Len(b.strings) + TrackingBytes(order)
    BY <1>1, <1>7, <2>4, <2>9, Zenon DEF TrackingBytes
  <2> QED BY <2>4, <2>9, <2>10, <2>13, <2>14, <2>15, <2>16
<1> QED BY <1>5, <1>6, <1>7

(* The bytes of the items of an order, added up item by item.              *)
ItemsBytesAre(order, bytes) ==
  \/ order["items"] = Nil /\ bytes = 0
  \/ /\ order["items"] # Nil
     /\ \E g, f : /\ Sums(g, Len(order["items"]), f)
                  /\ \A i \in 1 .. Len(order["items"]) :
                       f[i] = ItemBytesTo(order["items"][i], 9)
                  /\ bytes = g[Len(order["items"])]

NumberedRow(row, start, count, buyer, paid, null) ==
  [row EXCEPT !.itemStart = start, !.itemCount = count, !.buyerID = buyer,
              !.paid = paid, !.itemsNull = null]

HasNumbers(row, q, start, count, buyer, paid, null) ==
  /\ q \in OrderRow
  /\ q["itemStart"] = start /\ q["itemCount"] = count /\ q["buyerID"] = buyer
  /\ q["paid"] = paid /\ q["itemsNull"] = null
  /\ \A field \in OrderFields \ ItemFields : q[field] = row[field]

LEMMA OrderRowNumbered ==
  ASSUME NEW row \in OrderRow, NEW start \in Nat, NEW count \in Nat, NEW buyer \in Ints,
         NEW paid \in Nat, NEW null \in Nat,
         NEW q, q = NumberedRow(row, start, count, buyer, paid, null)
  PROVE  HasNumbers(row, q, start, count, buyer, paid, null)
<1>1. /\ row = [f \in OrderFields |-> row[f]]
      /\ \A f \in OrderRefs : row[f] \in RowRef
      /\ row["hasTrackingNo"] \in Nat
  BY OrderRowIs
<1>2. q = [f \in OrderFields |->
             IF f = "itemsNull" THEN null ELSE IF f = "paid" THEN paid
             ELSE IF f = "buyerID" THEN buyer ELSE IF f = "itemCount" THEN count
             ELSE IF f = "itemStart" THEN start ELSE row[f]]
  BY <1>1, Zenon DEF NumberedRow
<1>3. /\ q = [f \in OrderFields |-> q[f]]
      /\ q["itemStart"] = start /\ q["itemCount"] = count /\ q["buyerID"] = buyer
      /\ q["paid"] = paid /\ q["itemsNull"] = null
      /\ \A f \in OrderFields : f \notin ItemFields => q[f] = row[f]
  BY <1>2 DEF OrderFields, ItemFields
<1>4. OrderRefs \subseteq OrderFields /\ \A f \in OrderRefs : f \notin ItemFields
  BY DEF OrderFields, ItemFields, OrderRefs
<1>5. \A f \in OrderRefs : q[f] \in RowRef
  BY <1>1, <1>3, <1>4
<1>6. q["hasTrackingNo"] \in Nat
  BY <1>1, <1>3 DEF OrderFields, ItemFields
<1>7. q \in OrderRow
  BY <1>3, <1>5, <1>6, OrderRowIs
<1> QED BY <1>3, <1>7 DEF HasNumbers

LEMMA Numbered ==
  ASSUME NEW b, Builder(b, OrderRow), NEW order \in Order, Flags(b.row, order),
         Len(b.items) <= MaxUint32, Count(order.items) <= MaxUint32 - Len(b.items),
         NEW c, c = AssignNumbers(b, order)
  PROVE  /\ Builder(c, OrderRow) /\ Later(b, c) /\ c.err = b.err
         /\ c.items = b.items /\ c.strings = b.strings
         /\ c.row["itemStart"] = Len(b.items)
         /\ c.row["itemCount"] = Count(order.items)
         /\ c.row["buyerID"] = order["buyerID"]
         /\ c.row["paid"] = IF order["paid"] THEN 1 ELSE 0
         /\ c.row["itemsNull"] = IF order["items"] = Nil THEN 1 ELSE 0
         /\ \A field \in OrderFields \ ItemFields : c.row[field] = b.row[field]
<1>1. PICK row \in OrderRow : row = b.row
  BY DEF Builder
<1>2. PICK start \in Nat, count \in Nat : start = Len(b.items) /\ count = Count(order.items)
  BY OrderIs DEF Builder, Count
<1>3. PICK buyer \in Ints : buyer = order["buyerID"]
  BY OrderIs
<1>4. PICK paid \in Nat : /\ paid = (IF order["paid"] THEN 1 ELSE row["paid"])
                          /\ paid = (IF order["paid"] THEN 1 ELSE 0)
  <2>1. CASE order["paid"]
    BY <2>1
  <2>2. CASE ~order["paid"]
    BY <1>1, <2>2 DEF Flags
  <2> QED BY <2>1, <2>2
<1>5. PICK null \in Nat : /\ null = (IF order["items"] = Nil THEN 1 ELSE row["itemsNull"])
                          /\ null = (IF order["items"] = Nil THEN 1 ELSE 0)
  BY <1>1 DEF Flags
<1>6. Uint32(Len(b.items)) = start /\ Uint32(Count(order.items)) = count
  <2>1. MaxUint32 \in Nat
    BY LimitsAssumption
  <2>2. start <= MaxUint32 /\ count <= MaxUint32
    BY <1>2, <2>1
  <2> QED BY <1>2, <2>2, Uint32Is
<1>7. PICK q : q = NumberedRow(row, start, count, buyer, paid, null)
  OBVIOUS
<1>8. /\ q \in OrderRow
      /\ q["itemStart"] = start /\ q["itemCount"] = count /\ q["buyerID"] = buyer
      /\ q["paid"] = paid /\ q["itemsNull"] = null
      /\ \A field \in OrderFields \ ItemFields : q[field] = row[field]
  <2>1. HasNumbers(row, q, start, count, buyer, paid, null)
    BY <1>7, OrderRowNumbered
  <2> QED BY <2>1 DEF HasNumbers
<1>9. c = [b EXCEPT !.row = q]
  <2>1. PICK p, z : p = (IF order["paid"] THEN 1 ELSE row["paid"])
                    /\ z = (IF order["items"] = Nil THEN 1 ELSE row["itemsNull"])
    OBVIOUS
  <2>2. row = [f \in OrderFields |-> row[f]]
    BY OrderRowIs
  <2>3. [row EXCEPT !.itemStart = start, !.itemCount = count, !.buyerID = buyer,
                    !.paid      = IF order["paid"] THEN 1 ELSE @,
                    !.itemsNull = IF order["items"] = Nil THEN 1 ELSE @]
          = [row EXCEPT !.itemStart = start, !.itemCount = count, !.buyerID = buyer,
                        !.paid = p, !.itemsNull = z]
    BY <2>1, <2>2 DEF OrderFields
  <2>4. WithNumbers(b.row, Len(b.items), order) =
          [row EXCEPT !.itemStart = start, !.itemCount = count, !.buyerID = buyer,
                      !.paid      = IF order["paid"] THEN 1 ELSE @,
                      !.itemsNull = IF order["items"] = Nil THEN 1 ELSE @]
    BY <1>1, <1>3, <1>6 DEF WithNumbers
  <2>5. p = paid /\ z = null
    BY <1>4, <1>5, <2>1
  <2> QED BY <1>7, <2>3, <2>4, <2>5 DEF NumberedRow, AssignNumbers
<1>10. /\ Builder(c, OrderRow) /\ Later(b, c) /\ c.row = q /\ c.err = b.err
       /\ c.items = b.items /\ c.strings = b.strings
  BY <1>8, <1>9, NewRow
<1> QED BY <1>1, <1>2, <1>3, <1>4, <1>5, <1>8, <1>10

LEMMA ErrRow ==
  ASSUME NEW R, NEW b, Builder(b, R), NEW err, err # "none",
         NEW c, c = [b EXCEPT !.err = err]
  PROVE  /\ Builder(c, R) /\ Later(b, c) /\ c.row = b.row /\ c.err = err
         /\ c.items = b.items /\ c.strings = b.strings
<1>1. PICK r, i, ic, s, sc, p, z, e :
        b = [row |-> r, items |-> i, itemCap |-> ic, strings |-> s,
             stringCap |-> sc, plain |-> p, size |-> z, err |-> e]
  BY DEF Builder
<1>2. c = [row |-> r, items |-> i, itemCap |-> ic, strings |-> s,
           stringCap |-> sc, plain |-> p, size |-> z, err |-> err]
  BY <1>1
<1>3. /\ c.row = b.row /\ c.items = b.items /\ c.itemCap = b.itemCap
      /\ c.strings = b.strings /\ c.stringCap = b.stringCap /\ c.err = err
      /\ c = [row |-> c.row, items |-> c.items, itemCap |-> c.itemCap,
              strings |-> c.strings, stringCap |-> c.stringCap,
              plain |-> c.plain, size |-> c.size, err |-> c.err]
  BY <1>1, <1>2
<1> QED BY <1>3, GrowsItself DEF Later, Builder

(* The items: the range of the row is the items appended, a nil slice has  *)
(* the flag and none.                                                      *)
LEMMA ItemsStep ==
  ASSUME NEW b, Builder(b, OrderRow), NEW order \in Order, Flags(b.row, order),
         NEW step, step.kind = "items", NEW bytes, ItemsBytesAre(order, bytes),
         NEW validate, NEW c, c = PackRowStep(b, step, order, validate)
  PROVE  RowStepped(b, c, order, step, bytes, Count(order.items))
<1>1. c = PackItems(b, order, validate)
  BY DEF PackRowStep
<1>2. b.row \in OrderRow
  BY DEF Builder
<1>3. SUFFICES
        /\ Builder(c, OrderRow) /\ Later(b, c)
        /\ Same(b, c, OrderFields \ ItemFields) \/ c.row = b.row
        /\ Flags(c.row, order)
        /\ c.err = "none" => /\ ItemsDone(c, order)
                             /\ Len(c.strings) = Len(b.strings) + bytes
                             /\ Len(c.items) = Len(b.items) + Count(order.items)
  <2>1. ASSUME NEW field \in OrderFields \ ItemFields PROVE c.row[field] = b.row[field]
    BY <1>3 DEF Same
  <2>2. ASSUME NEW field \in OrderStrings, StringDone(b, order, field)
        PROVE  StringDone(c, order, field)
    <3>1. field \in OrderRefs /\ field \in OrderFields \ ItemFields
      BY DEF OrderStrings, OrderRefs, OrderFields, ItemFields
    <3> QED BY <1>3, <2>1, <2>2, <3>1, StringKept
  <2>3. Same(b, c, {"trackingNo", "hasTrackingNo"})
    BY <2>1 DEF Same, OrderFields, OrderRefs, ItemFields
  <2>4. TrackingDone(b, order) => TrackingDone(c, order)
    BY <1>3, <2>3, TrackingKept
  <2>5. c.err = "none" => DoneKept(b, c, order)
    BY <1>3, <2>2, <2>4, AllKept
  <2>6. c.err = "none" => StepDone(c, step, order)
    BY <1>3 DEF StepDone
  <2> QED BY <1>3, <2>5, <2>6 DEF RowStepped
<1>4. CASE b.err # "none"
  <2>1. c = b
    BY <1>1, <1>4 DEF PackItems
  <2> QED BY <1>4, <2>1, LaterItself
<1>5. CASE /\ b.err = "none"
           /\ Len(b.items) > MaxUint32 \/ Count(order.items) > MaxUint32 - Len(b.items)
  <2>1. c = [b EXCEPT !.err = "ErrPackedTooLarge"]
    BY <1>1, <1>5 DEF PackItems
  <2>2. /\ Builder(c, OrderRow) /\ Later(b, c) /\ c.row = b.row
        /\ c.err = "ErrPackedTooLarge"
    BY <2>1, ErrRow
  <2> QED BY <2>2
<1>6. CASE /\ b.err = "none"
           /\ ~(Len(b.items) > MaxUint32)
           /\ ~(Count(order.items) > MaxUint32 - Len(b.items))
  <2>1. Len(b.items) <= MaxUint32 /\ Count(order.items) <= MaxUint32 - Len(b.items)
    <3>1. /\ MaxUint32 \in Nat /\ Len(b.items) \in Nat /\ Count(order.items) \in Nat
      BY LimitsAssumption, OrderIs DEF Builder, Count
    <3> QED BY <1>6, <3>1
  <2>2. PICK d : d = AssignNumbers(b, order)
    OBVIOUS
  <2>3. /\ Builder(d, OrderRow) /\ Later(b, d) /\ d.err = b.err
        /\ d.items = b.items /\ d.strings = b.strings
        /\ d.row["itemStart"] = Len(b.items)
        /\ d.row["itemCount"] = Count(order.items)
        /\ d.row["buyerID"] = order["buyerID"]
        /\ d.row["paid"] = IF order["paid"] THEN 1 ELSE 0
        /\ d.row["itemsNull"] = IF order["items"] = Nil THEN 1 ELSE 0
        /\ \A field \in OrderFields \ ItemFields : d.row[field] = b.row[field]
    BY <2>1, <2>2, Numbered
  <2>4. Flags(d.row, order)
    <3>1. d.row["hasTrackingNo"] = b.row["hasTrackingNo"]
      BY <2>3 DEF OrderFields, ItemFields
    <3>2. d.row["paid"] = 0 \/ (d.row["paid"] = 1 /\ order["paid"])
      BY <2>3
    <3>3. d.row["itemsNull"] = 0 \/ (d.row["itemsNull"] = 1 /\ order["items"] = Nil)
      BY <2>3
    <3> QED BY <3>1, <3>2, <3>3 DEF Flags
  <2>5. CASE order["items"] = Nil
    <3>1. c = Add(d, 4)
      BY <1>1, <1>6, <2>2, <2>5 DEF PackItems
    <3>2. /\ Builder(c, OrderRow) /\ Later(d, c) /\ c.row = d.row
          /\ c.items = d.items /\ c.strings = d.strings
      BY <2>3, <3>1, AddIs
    <3>3. Later(b, c)
      BY <2>3, <3>2, LaterStill
    <3>4. bytes = 0 /\ Count(order.items) = 0
      BY <2>5 DEF ItemsBytesAre, Count
    <3>5. Same(b, c, OrderFields \ ItemFields) /\ Flags(c.row, order)
      BY <2>3, <2>4, <3>2 DEF Same
    <3>6. ItemsDone(c, order)
      BY <2>3, <2>5, <3>2, <3>4 DEF ItemsDone
    <3>7. /\ Len(c.strings) = Len(b.strings) + bytes
          /\ Len(c.items) = Len(b.items) + Count(order.items)
      BY <2>3, <3>2, <3>4 DEF Builder
    <3> QED BY <3>2, <3>3, <3>5, <3>6, <3>7
  <2>6. CASE order["items"] # Nil
    <3>1. PICK items \in Seq(Item) : items = order["items"]
      BY <2>6, OrderIs
    <3>2. PICK n \in Nat : n = Len(items)
      OBVIOUS
    <3>3. PICK g, f : /\ Sums(g, n, f)
                      /\ \A i \in 1 .. n : f[i] = ItemBytesTo(items[i], 9)
                      /\ bytes = g[n]
      BY <2>6, <3>1, <3>2 DEF ItemsBytesAre
    <3>4. c = PackList(d, order, validate)
      BY <1>1, <1>6, <2>2, <2>6 DEF PackItems
    <3>5. ListFilled(d, c, OrderRow, items, n, bytes)
      <4>1. items = order.items
        BY <3>1
      <4>2. ListFilled(d, c, OrderRow, items, n, g[n])
        BY <2>3, <3>2, <3>3, <3>4, <4>1, PackListFills
      <4> QED BY <3>3, <4>2
    <3>6. Builder(c, OrderRow) /\ Later(d, c) /\ c.row = d.row
      BY <3>5 DEF ListFilled
    <3>7. Later(b, c)
      BY <2>3, <3>6, LaterStill
    <3>8. Same(b, c, OrderFields \ ItemFields) /\ Flags(c.row, order)
      BY <2>3, <2>4, <3>6 DEF Same
    <3>9. Count(order.items) = n
      BY <2>6, <3>1, <3>2 DEF Count
    <3>10. ASSUME c.err = "none"
           PROVE  /\ ItemsDone(c, order)
                  /\ Len(c.strings) = Len(b.strings) + bytes
                  /\ Len(c.items) = Len(b.items) + n
      <4>1. PICK m \in Nat : m = Len(b.items)
        BY DEF Builder
      <4>2. /\ Len(c.items) = m + n
            /\ \A i \in 1 .. n : ItemHeld(c.strings, c.items[m + i], items[i])
            /\ Len(c.strings) = Len(b.strings) + bytes
        BY <2>3, <3>5, <3>10, <4>1 DEF ListFilled
      <4>3. /\ c.row["itemStart"] = m /\ c.row["itemCount"] = n
            /\ c.row["buyerID"] = order["buyerID"]
            /\ c.row["paid"] = IF order["paid"] THEN 1 ELSE 0
            /\ c.row["itemsNull"] = 0
        BY <2>3, <2>6, <3>6, <3>9, <4>1
      <4>4. m + n <= Len(c.items)
        BY <4>2
      <4>5. ItemsDone(c, order)
        BY <2>6, <3>1, <3>2, <4>2, <4>3, <4>4 DEF ItemsDone
      <4> QED BY <4>1, <4>2, <4>5
    <3> QED BY <3>6, <3>7, <3>8, <3>9, <3>10
  <2> QED BY <2>5, <2>6
<1> QED BY <1>4, <1>5, <1>6

-----------------------------------------------------------------------------
(* Orders.                                                                 *)
LEMMA PackTableLength == Len(PackTable) = 25
BY DEF PackTable

LEMMA PackTableFills ==
  /\ PackTable[2] = Str("orderID") /\ PackTable[4] = Str("createdAt")
  /\ PackTable[6] = Str("status") /\ PackTable[8] = Str("paymentMethod")
  /\ PackTable[14] = Str("buyerName") /\ PackTable[16] = Str("city")
  /\ PackTable[18] = Str("address") /\ PackTable[20] = Nullable("trackingNo")
  /\ PackTable[22] = ItemList /\ PackTable[24] = Str("remark")
BY DEF PackTable

LEMMA PackTableOthers ==
  ASSUME NEW k \in {1, 3, 5, 7, 9, 10, 11, 12, 13, 15, 17, 19, 21, 23, 25}
  PROVE  PackTable[k].kind \in {"literal", "bool", "int"}
<1>1. PackTable[10] = Bool("paid") /\ PackTable[12] = Num("buyerID")
  BY DEF PackTable
<1>2. /\ \E text : PackTable[1] = Lit(text)
      /\ \E text : PackTable[3] = Lit(text)
      /\ \E text : PackTable[5] = Lit(text)
      /\ \E text : PackTable[7] = Lit(text)
      /\ \E text : PackTable[9] = Lit(text)
  BY DEF PackTable
<1>3. /\ \E text : PackTable[11] = Lit(text)
      /\ \E text : PackTable[13] = Lit(text)
      /\ \E text : PackTable[15] = Lit(text)
      /\ \E text : PackTable[17] = Lit(text)
      /\ \E text : PackTable[19] = Lit(text)
  BY DEF PackTable
<1>4. /\ \E text : PackTable[21] = Lit(text)
      /\ \E text : PackTable[23] = Lit(text)
      /\ \E text : PackTable[25] = Lit(text)
  BY DEF PackTable
<1>5. k = 10 \/ k = 12 \/ \E text : PackTable[k] = Lit(text)
  BY <1>2, <1>3, <1>4
<1>6. CASE k = 10 \/ k = 12
  BY <1>1, <1>6 DEF Bool, Num
<1>7. CASE \E text : PackTable[k] = Lit(text)
  BY <1>7 DEF Lit
<1> QED BY <1>5, <1>6, <1>7

(* Every step of the table is of one of the kinds that the lemmas treat.   *)
LEMMA PackTableIs ==
  ASSUME NEW k \in 1 .. 25
  PROVE  OrderStep(PackTable[k])
<1>1. CASE k \in {1, 3, 5, 7, 9, 10, 11, 12, 13, 15, 17, 19, 21, 23, 25}
  BY <1>1, PackTableOthers DEF OrderStep
<1>2. CASE k \in {2, 4, 6, 8, 14, 16, 18, 24}
  <2>1. \E field \in OrderStrings : PackTable[k] = Str(field)
    BY <1>2, PackTableFills DEF OrderStrings
  <2> QED BY <2>1 DEF OrderStep, Str
<1>3. CASE k = 20
  BY <1>3, PackTableFills DEF OrderStep, Nullable
<1>4. CASE k = 22
  BY <1>4, PackTableFills DEF OrderStep, ItemList
<1> QED BY <1>1, <1>2, <1>3, <1>4

LEMMA PackOrderSteps ==
  ASSUME NEW b, NEW order, NEW validate, NEW start, start = [b EXCEPT !.row = ClearedRow(@)]
  PROVE  \E after :
           /\ PackSteps(after, 25, start, PackTable, order, validate)
           /\ PackOrderInto(b, order, validate) = after[25]
<1> DEFINE Solves(f) ==
             f = [k \in 0 .. Len(PackTable) |->
                    IF k = 0 THEN [b EXCEPT !.row = ClearedRow(@)]
                    ELSE PackRowStep(f[k - 1], PackTable[k], order, validate)]
<1>1. PICK g : PackSteps(g, 25, start, PackTable, order, validate)
  BY PackStepsExist
<1>2. Len(PackTable) = 25
  BY PackTableLength
<1>3. Solves(g)
  <2>1. ASSUME NEW k \in 0 .. 25
        PROVE  g[k] = IF k = 0 THEN [b EXCEPT !.row = ClearedRow(@)]
                      ELSE PackRowStep(g[k - 1], PackTable[k], order, validate)
    <3>1. CASE k = 0
      BY <1>1, <3>1 DEF PackSteps
    <3>2. CASE k # 0
      <4>1. k \in 1 .. 25
        BY <3>2
      <4> QED BY <1>1, <3>2, <4>1 DEF PackSteps
    <3> QED BY <3>1, <3>2
  <2>2. g = [k \in 0 .. 25 |-> g[k]]
    BY <1>1 DEF PackSteps
  <2> QED BY <1>2, <2>1, <2>2
<1>4. PICK f : f = CHOOSE h : Solves(h)
  OBVIOUS
<1>5. Solves(f)
  <2> HIDE DEF Solves
  <2> QED BY <1>3, <1>4
<1>6. PackOrderInto(b, order, validate) = f[25]
  BY <1>2, <1>4 DEF PackOrderInto
<1>7. PackSteps(f, 25, start, PackTable, order, validate)
  <2>1. /\ f = [k \in 0 .. 25 |-> f[k]]
        /\ \A k \in 0 .. 25 :
             f[k] = IF k = 0 THEN [b EXCEPT !.row = ClearedRow(@)]
                    ELSE PackRowStep(f[k - 1], PackTable[k], order, validate)
    BY <1>2, <1>5
  <2>2. f[0] = start
    BY <2>1
  <2>3. ASSUME NEW k \in 1 .. 25
        PROVE  f[k] = PackRowStep(f[k - 1], PackTable[k], order, validate)
    BY <2>1
  <2> QED BY <2>1, <2>2, <2>3 DEF PackSteps
<1> QED BY <1>6, <1>7

(* What a step adds to the strings and to the items.                       *)
RowStepBytes(step, order, bytes) ==
  CASE step.kind = "string"   -> Len(order[step.arg])
    [] step.kind = "nullable" -> TrackingBytes(order)
    [] step.kind = "items"    -> bytes
    [] OTHER                  -> 0

RowStepItems(step, order) == IF step.kind = "items" THEN Count(order.items) ELSE 0

LEMMA RowStepTyped ==
  ASSUME NEW order \in Order, NEW step, OrderStep(step), NEW bytes \in Nat
  PROVE  RowStepBytes(step, order, bytes) \in Nat /\ RowStepItems(step, order) \in Nat
<1>1. RowStepItems(step, order) \in Nat
  BY OrderIs DEF RowStepItems, Count
<1>2. TrackingBytes(order) \in Nat
  BY OrderIs DEF TrackingBytes
<1>3. step.kind = "string" => Len(order[step.arg]) \in Nat
  <2>1. ASSUME step.kind = "string" PROVE order[step.arg] \in Seq(Bytes)
    BY <2>1, OrderIs DEF OrderStep
  <2> QED BY <2>1
<1>4. CASE step.kind = "string"
  BY <1>1, <1>3, <1>4 DEF RowStepBytes
<1>5. CASE step.kind = "nullable"
  BY <1>1, <1>2, <1>5 DEF RowStepBytes
<1>6. CASE step.kind = "items"
  BY <1>1, <1>6 DEF RowStepBytes
<1>7. CASE step.kind \notin {"string", "nullable", "items"}
  BY <1>1, <1>7 DEF RowStepBytes
<1> QED BY <1>4, <1>5, <1>6, <1>7

LEMMA RowStepIs ==
  ASSUME NEW b, Builder(b, OrderRow), NEW order \in Order, Flags(b.row, order),
         NEW step, OrderStep(step), NEW bytes \in Nat, ItemsBytesAre(order, bytes),
         NEW validate, NEW c, c = PackRowStep(b, step, order, validate)
  PROVE  RowStepped(b, c, order, step, RowStepBytes(step, order, bytes),
                    RowStepItems(step, order))
<1>1. CASE step.kind = "items"
  <2>1. RowStepBytes(step, order, bytes) = bytes
    BY <1>1 DEF RowStepBytes
  <2>2. RowStepItems(step, order) = Count(order.items)
    BY <1>1 DEF RowStepItems
  <2> QED BY <1>1, <2>1, <2>2, ItemsStep
<1>2. CASE step.kind = "nullable"
  <2>1. RowStepBytes(step, order, bytes) = TrackingBytes(order)
    BY <1>2 DEF RowStepBytes
  <2>2. RowStepItems(step, order) = 0
    BY <1>2 DEF RowStepItems
  <2> QED BY <1>2, <2>1, <2>2, TrackingStep
<1>3. CASE step.kind \notin {"nullable", "items"}
  <2>1. RowStepBytes(step, order, bytes) = StepBytes(step, order)
    BY <1>3 DEF RowStepBytes, StepBytes
  <2>2. RowStepItems(step, order) = 0
    BY <1>3 DEF RowStepItems
  <2> QED BY <1>3, <2>1, <2>2, PlainStep
<1> QED BY <1>1, <1>2, <1>3

OrderStepsDone(start, c, order, k, bytes, count) ==
  /\ Builder(c, OrderRow)
  /\ Later(start, c)
  /\ Flags(c.row, order)
  /\ c.err = "none" =>
       /\ \A j \in 1 .. k : StepDone(c, PackTable[j], order)
       /\ Len(c.strings) = Len(start.strings) + bytes
       /\ Len(c.items) = Len(start.items) + count

LEMMA OrderGoesOn ==
  ASSUME NEW start, Builder(start, OrderRow), NEW b, NEW c, NEW order, NEW k \in Nat,
         k + 1 \in 1 .. 25, NEW step, step = PackTable[k + 1],
         NEW bytes \in Nat, NEW count \in Nat, NEW x \in Nat, NEW y \in Nat,
         OrderStepsDone(start, b, order, k, bytes, count),
         RowStepped(b, c, order, step, x, y)
  PROVE  OrderStepsDone(start, c, order, k + 1, bytes + x, count + y)
<1>1. /\ Builder(b, OrderRow) /\ Later(start, b)
      /\ Builder(c, OrderRow) /\ Later(b, c) /\ Flags(c.row, order)
  BY DEF OrderStepsDone, RowStepped
<1>2. Later(start, c)
  BY <1>1, LaterStill
<1>3. ASSUME c.err = "none"
      PROVE  /\ \A j \in 1 .. k + 1 : StepDone(c, PackTable[j], order)
             /\ Len(c.strings) = Len(start.strings) + (bytes + x)
             /\ Len(c.items) = Len(start.items) + (count + y)
  <2>1. b.err = "none"
    BY <1>1, <1>3 DEF Later
  <2>2. /\ \A j \in 1 .. k : StepDone(b, PackTable[j], order)
        /\ Len(b.strings) = Len(start.strings) + bytes
        /\ Len(b.items) = Len(start.items) + count
    BY <2>1 DEF OrderStepsDone
  <2>3. /\ StepDone(c, step, order) /\ DoneKept(b, c, order)
        /\ Len(c.strings) = Len(b.strings) + x
        /\ Len(c.items) = Len(b.items) + y
    BY <1>3 DEF RowStepped
  <2>4. Len(start.strings) \in Nat /\ Len(start.items) \in Nat
    BY DEF Builder
  <2>5. ASSUME NEW j \in 1 .. k + 1 PROVE StepDone(c, PackTable[j], order)
    <3>1. CASE j = k + 1
      BY <2>3, <3>1
    <3>2. CASE j \in 1 .. k
      <4>1. j \in 1 .. 25
        BY <3>2
      <4>2. OrderStep(PackTable[j])
        BY <4>1, PackTableIs
      <4>3. StepDone(b, PackTable[j], order)
        BY <2>2, <3>2
      <4> QED BY <2>3, <4>2, <4>3 DEF DoneKept
    <3> QED BY <3>1, <3>2
  <2>6. /\ Len(b.strings) = Len(start.strings) + bytes
        /\ Len(b.items) = Len(start.items) + count
        /\ Len(c.strings) = Len(b.strings) + x
        /\ Len(c.items) = Len(b.items) + y
    BY <2>2, <2>3
  <2>7. PICK p \in Nat, q \in Nat : p = Len(start.strings) /\ q = Len(start.items)
    BY <2>4
  <2>8. Len(c.strings) = (p + bytes) + x /\ Len(c.items) = (q + count) + y
    BY <2>6, <2>7
  <2>9. Len(c.strings) = p + (bytes + x) /\ Len(c.items) = q + (count + y)
    BY <2>8
  <2> QED BY <2>5, <2>7, <2>9
<1> QED BY <1>1, <1>2, <1>3, Zenon DEF OrderStepsDone

(* The steps of the table one after the other.                             *)
LEMMA OrderStepsFill ==
  ASSUME NEW start, Builder(start, OrderRow), NEW order \in Order, Flags(start.row, order),
         NEW bytes \in Nat, ItemsBytesAre(order, bytes), NEW validate,
         NEW g, NEW f, Sums(g, 25, f),
         \A k \in 1 .. 25 : f[k] = RowStepBytes(PackTable[k], order, bytes),
         NEW h, NEW m, Sums(h, 25, m),
         \A k \in 1 .. 25 : m[k] = RowStepItems(PackTable[k], order),
         NEW after, PackSteps(after, 25, start, PackTable, order, validate)
  PROVE  OrderStepsDone(start, after[25], order, 25, g[25], h[25])
<1> DEFINE T == {k \in Nat : k <= 25 =>
                   OrderStepsDone(start, after[k], order, k, g[k], h[k])}
<1>1. 0 \in T
  <2>1. after[0] = start /\ g[0] = 0 /\ h[0] = 0
    BY DEF PackSteps, Sums
  <2>2. /\ Len(start.strings) = Len(start.strings) + 0
        /\ Len(start.items) = Len(start.items) + 0
    BY DEF Builder
  <2>3. OrderStepsDone(start, start, order, 0, 0, 0)
    BY <2>2, LaterItself DEF OrderStepsDone
  <2> QED BY <2>1, <2>3
<1>2. ASSUME NEW k \in Nat, k \in T PROVE k + 1 \in T
  <2> SUFFICES ASSUME k + 1 <= 25
               PROVE  OrderStepsDone(start, after[k + 1], order, k + 1, g[k + 1], h[k + 1])
    OBVIOUS
  <2>1. k + 1 \in 1 .. 25 /\ (k + 1) - 1 = k /\ k <= 25 /\ k \in 0 .. 25
    OBVIOUS
  <2>2. PICK b, c, step : b = after[k] /\ c = after[k + 1] /\ step = PackTable[k + 1]
    OBVIOUS
  <2>3. PICK sum \in Nat, count \in Nat : sum = g[k] /\ count = h[k]
    BY <2>1 DEF Sums
  <2>4. OrderStepsDone(start, b, order, k, sum, count)
    BY <1>2, <2>1, <2>2, <2>3
  <2>5. OrderStep(step)
    BY <2>1, <2>2, PackTableIs
  <2>6. PICK x \in Nat, y \in Nat : /\ x = RowStepBytes(step, order, bytes)
                                    /\ y = RowStepItems(step, order)
    BY <2>5, RowStepTyped
  <2>7. c = PackRowStep(b, step, order, validate)
    BY <2>1, <2>2 DEF PackSteps
  <2>8. Builder(b, OrderRow) /\ Flags(b.row, order)
    BY <2>4 DEF OrderStepsDone
  <2>9. RowStepped(b, c, order, step, x, y)
    BY <2>5, <2>6, <2>7, <2>8, RowStepIs
  <2>10. OrderStepsDone(start, c, order, k + 1, sum + x, count + y)
    BY <2>1, <2>2, <2>4, <2>9, OrderGoesOn, Zenon
  <2>11. g[k + 1] = g[k] + f[k + 1] /\ h[k + 1] = h[k] + m[k + 1]
    BY <2>1 DEF Sums
  <2>12. f[k + 1] = x /\ m[k + 1] = y
    BY <2>1, <2>2, <2>6
  <2> QED BY <2>2, <2>3, <2>10, <2>11, <2>12
<1>3. Nat \subseteq T
  <2> HIDE DEF T
  <2> QED BY <1>1, <1>2, Induction
<1>4. 25 \in T
  BY <1>3
<1> QED BY <1>4

LEMMA ClearedIs ==
  ASSUME NEW row \in OrderRow, NEW q, q = ClearedRow(row), NEW order
  PROVE  q \in OrderRow /\ Flags(q, order)
<1>1. /\ row = [f \in OrderFields |-> row[f]]
      /\ \A f \in OrderRefs : row[f] \in RowRef
      /\ row["itemStart"] \in Nat /\ row["itemCount"] \in Nat
      /\ row["buyerID"] \in Ints
  BY OrderRowIs
<1>2. q = [row EXCEPT !.trackingNo = NoRef, !.paid = 0,
                      !.hasTrackingNo = 0, !.itemsNull = 0]
  BY DEF ClearedRow
<1>3. PICK ref \in RowRef : ref = NoRef
  BY RefTyped
<1>4. q = [f \in OrderFields |->
             IF f = "itemsNull" THEN 0 ELSE IF f = "hasTrackingNo" THEN 0
             ELSE IF f = "paid" THEN 0 ELSE IF f = "trackingNo" THEN ref ELSE row[f]]
  BY <1>1, <1>2, <1>3, Zenon
<1>5. /\ q = [f \in OrderFields |-> q[f]]
      /\ q["itemsNull"] = 0 /\ q["hasTrackingNo"] = 0 /\ q["paid"] = 0
      /\ q["trackingNo"] = ref
      /\ \A f \in OrderFields : f \notin {"itemsNull", "hasTrackingNo", "paid", "trackingNo"}
            => q[f] = row[f]
  BY <1>4 DEF OrderFields, OrderRefs
<1>6. OrderRefs \subseteq OrderFields
      /\ \A f \in OrderRefs : f \notin {"itemsNull", "hasTrackingNo", "paid"}
  BY DEF OrderFields, OrderRefs
<1>7. \A f \in OrderRefs : q[f] \in RowRef
  BY <1>1, <1>3, <1>5, <1>6
<1>8. /\ q["itemStart"] = row["itemStart"] /\ q["itemCount"] = row["itemCount"]
      /\ q["buyerID"] = row["buyerID"]
  BY <1>5 DEF OrderFields
<1>9. q \in OrderRow
  BY <1>1, <1>5, <1>7, <1>8, OrderRowIs
<1> QED BY <1>5, <1>9 DEF Flags

OrderBytes(order, bytes) ==
  Len(order["orderID"]) + Len(order["createdAt"]) + Len(order["status"])
    + Len(order["paymentMethod"]) + Len(order["buyerName"]) + Len(order["city"])
    + Len(order["address"]) + TrackingBytes(order) + bytes + Len(order["remark"])

(* The bytes that the steps append, added up.                              *)
LEMMA OrderSums ==
  ASSUME NEW order \in Order, NEW bytes \in Nat,
         NEW g, NEW f, Sums(g, 25, f),
         \A k \in 1 .. 25 : f[k] = RowStepBytes(PackTable[k], order, bytes),
         NEW h, NEW m, Sums(h, 25, m),
         \A k \in 1 .. 25 : m[k] = RowStepItems(PackTable[k], order)
  PROVE  g[25] = OrderBytes(order, bytes) /\ h[25] = Count(order.items)
<1> DEFINE len(field) == Len(order[field])
<1>0. \A field \in OrderStrings : len(field) \in Nat
  BY OrderTyped, Zenon
<1> HIDE DEF len
<1>1. PICK a1 \in Nat, a2 \in Nat, a3 \in Nat, a4 \in Nat :
        /\ a1 = len("orderID") /\ a2 = len("createdAt")
        /\ a3 = len("status") /\ a4 = len("paymentMethod")
  BY <1>0, Zenon DEF OrderStrings
<1>2. PICK a5 \in Nat, a6 \in Nat, a7 \in Nat, a8 \in Nat :
        /\ a5 = len("buyerName") /\ a6 = len("city")
        /\ a7 = len("address") /\ a8 = len("remark")
  BY <1>0, Zenon DEF OrderStrings
<1>3. PICK t \in Nat, c \in Nat : t = TrackingBytes(order) /\ c = Count(order.items)
  BY OrderTyped, Zenon
<1>4. /\ f[2] = a1 /\ f[4] = a2 /\ f[6] = a3 /\ f[8] = a4
      /\ f[14] = a5 /\ f[16] = a6 /\ f[18] = a7 /\ f[24] = a8
  <2>1. \A field : RowStepBytes(Str(field), order, bytes) = len(field)
    BY DEF RowStepBytes, Str, len
  <2>2. \A k \in 1 .. 25 : \A field : PackTable[k] = Str(field) => f[k] = len(field)
    BY <2>1
  <2>3. /\ f[2] = len("orderID") /\ f[4] = len("createdAt") /\ f[6] = len("status")
        /\ f[8] = len("paymentMethod") /\ f[14] = len("buyerName")
        /\ f[16] = len("city") /\ f[18] = len("address") /\ f[24] = len("remark")
    BY <2>2, PackTableFills
  <2> QED BY <1>1, <1>2, <2>3
<1>5. f[20] = t /\ f[22] = bytes
  <2>1. RowStepBytes(Nullable("trackingNo"), order, bytes) = TrackingBytes(order)
    BY DEF RowStepBytes, Nullable
  <2>2. RowStepBytes(ItemList, order, bytes) = bytes
    BY DEF RowStepBytes, ItemList
  <2> QED BY <1>3, <2>1, <2>2, PackTableFills
<1>6. ASSUME NEW k \in {1, 3, 5, 7, 9, 10, 11, 12, 13, 15, 17, 19, 21, 23, 25}
      PROVE  f[k] = 0 /\ m[k] = 0
  <2>1. PICK step : step = PackTable[k] /\ step.kind \in {"literal", "bool", "int"}
    BY PackTableOthers
  <2>2. RowStepBytes(step, order, bytes) = 0 /\ RowStepItems(step, order) = 0
    BY <2>1, Zenon DEF RowStepBytes, RowStepItems
  <2>3. k \in 1 .. 25
    OBVIOUS
  <2> QED BY <2>1, <2>2, <2>3
<1>7. /\ m[22] = c
      /\ \A k \in {2, 4, 6, 8, 14, 16, 18, 20, 24} : m[k] = 0
  <2>1. RowStepItems(ItemList, order) = Count(order.items)
    BY DEF RowStepItems, ItemList
  <2>2. \A field : RowStepItems(Str(field), order) = 0 /\ RowStepItems(Nullable(field), order) = 0
    BY DEF RowStepItems, Str, Nullable
  <2> QED BY <1>3, <2>1, <2>2, PackTableFills
<1>8. \A k \in 1 .. 25 : g[k] = g[k - 1] + f[k] /\ h[k] = h[k - 1] + m[k]
  BY DEF Sums
<1>9. g[0] = 0 /\ h[0] = 0
  BY DEF Sums
<1>10. /\ g[1] = g[0] + f[1] /\ g[2] = g[1] + f[2] /\ g[3] = g[2] + f[3]
       /\ g[4] = g[3] + f[4] /\ g[5] = g[4] + f[5] /\ g[6] = g[5] + f[6]
       /\ g[7] = g[6] + f[7] /\ g[8] = g[7] + f[8] /\ g[9] = g[8] + f[9]
  BY <1>8
<1>11. /\ g[10] = g[9] + f[10] /\ g[11] = g[10] + f[11] /\ g[12] = g[11] + f[12]
       /\ g[13] = g[12] + f[13] /\ g[14] = g[13] + f[14] /\ g[15] = g[14] + f[15]
       /\ g[16] = g[15] + f[16] /\ g[17] = g[16] + f[17] /\ g[18] = g[17] + f[18]
  BY <1>8
<1>12. /\ g[19] = g[18] + f[19] /\ g[20] = g[19] + f[20] /\ g[21] = g[20] + f[21]
       /\ g[22] = g[21] + f[22] /\ g[23] = g[22] + f[23] /\ g[24] = g[23] + f[24]
       /\ g[25] = g[24] + f[25]
  BY <1>8
<1>13. /\ h[1] = h[0] + m[1] /\ h[2] = h[1] + m[2] /\ h[3] = h[2] + m[3]
       /\ h[4] = h[3] + m[4] /\ h[5] = h[4] + m[5] /\ h[6] = h[5] + m[6]
       /\ h[7] = h[6] + m[7] /\ h[8] = h[7] + m[8] /\ h[9] = h[8] + m[9]
  BY <1>8
<1>14. /\ h[10] = h[9] + m[10] /\ h[11] = h[10] + m[11] /\ h[12] = h[11] + m[12]
       /\ h[13] = h[12] + m[13] /\ h[14] = h[13] + m[14] /\ h[15] = h[14] + m[15]
       /\ h[16] = h[15] + m[16] /\ h[17] = h[16] + m[17] /\ h[18] = h[17] + m[18]
  BY <1>8
<1>15. /\ h[19] = h[18] + m[19] /\ h[20] = h[19] + m[20] /\ h[21] = h[20] + m[21]
       /\ h[22] = h[21] + m[22] /\ h[23] = h[22] + m[23] /\ h[24] = h[23] + m[24]
       /\ h[25] = h[24] + m[25]
  BY <1>8
<1>16. g[9] = a1 + a2 + a3 + a4
  BY <1>4, <1>6, <1>9, <1>10
<1>17. g[18] = a1 + a2 + a3 + a4 + a5 + a6 + a7
  BY <1>4, <1>6, <1>11, <1>16
<1>18. g[25] = a1 + a2 + a3 + a4 + a5 + a6 + a7 + t + bytes + a8
  BY <1>4, <1>5, <1>6, <1>12, <1>17
<1>19. h[9] = 0
  BY <1>6, <1>7, <1>9, <1>13
<1>20. h[18] = 0
  BY <1>6, <1>7, <1>14, <1>19
<1>21. h[25] = c
  BY <1>6, <1>7, <1>15, <1>20
<1> QED BY <1>1, <1>2, <1>3, <1>18, <1>21 DEF OrderBytes, len

(* What a row in use is: the order, read back from the arrays.             *)
OrderHeld(b, order) ==
  /\ \A field \in OrderStrings : StringDone(b, order, field)
  /\ TrackingDone(b, order)
  /\ ItemsDone(b, order)

OrderPacked(b, c, order, bytes) ==
  /\ Builder(c, OrderRow)
  /\ Later(b, c)
  /\ c.err = "none" =>
       /\ OrderHeld(c, order)
       /\ Len(c.strings) = Len(b.strings) + OrderBytes(order, bytes)
       /\ Len(c.items) = Len(b.items) + Count(order.items)

LEMMA StepsAreAll ==
  ASSUME NEW b, NEW order, \A j \in 1 .. 25 : StepDone(b, PackTable[j], order)
  PROVE  OrderHeld(b, order)
<1>1. /\ StepDone(b, Str("orderID"), order) /\ StepDone(b, Str("createdAt"), order)
      /\ StepDone(b, Str("status"), order) /\ StepDone(b, Str("paymentMethod"), order)
      /\ StepDone(b, Str("buyerName"), order) /\ StepDone(b, Str("city"), order)
      /\ StepDone(b, Str("address"), order) /\ StepDone(b, Str("remark"), order)
      /\ StepDone(b, Nullable("trackingNo"), order) /\ StepDone(b, ItemList, order)
  BY PackTableFills
<1>2. \A field : StepDone(b, Str(field), order) => StringDone(b, order, field)
  BY DEF StepDone, Str
<1>3. \A field \in OrderStrings : StringDone(b, order, field)
  BY <1>1, <1>2 DEF OrderStrings
<1>4. TrackingDone(b, order)
  BY <1>1 DEF StepDone, Nullable
<1>5. ItemsDone(b, order)
  BY <1>1 DEF StepDone, ItemList
<1> QED BY <1>3, <1>4, <1>5 DEF OrderHeld

(* An order packed without error: its row, whatever it held before, reads  *)
(* back as the order, and the arrays have grown by its items and bytes.    *)
LEMMA PackOrderFills ==
  ASSUME NEW b, Builder(b, OrderRow), NEW order \in Order,
         NEW bytes \in Nat, ItemsBytesAre(order, bytes), NEW validate,
         NEW c, c = PackOrderInto(b, order, validate)
  PROVE  OrderPacked(b, c, order, bytes)
<1>1. PICK row \in OrderRow : row = b.row
  BY DEF Builder
<1>2. PICK q \in OrderRow : q = ClearedRow(row) /\ Flags(q, order)
  BY ClearedIs
<1>3. PICK start : start = [b EXCEPT !.row = q]
  BY Zenon
<1>4. /\ Builder(start, OrderRow) /\ Later(b, start) /\ start.row = q
      /\ start.items = b.items /\ start.strings = b.strings
  BY <1>3, NewRow
<1>5. start = [b EXCEPT !.row = ClearedRow(@)]
  BY <1>1, <1>2, <1>3
<1>6. PICK after : /\ PackSteps(after, 25, start, PackTable, order, validate)
                  /\ c = after[25]
  BY <1>5, PackOrderSteps
<1>7. PICK f : f = [k \in 1 .. 25 |-> RowStepBytes(PackTable[k], order, bytes)]
  BY Zenon
<1>8. PICK m : m = [k \in 1 .. 25 |-> RowStepItems(PackTable[k], order)]
  BY Zenon
<1>9. /\ \A k \in 1 .. 25 : f[k] = RowStepBytes(PackTable[k], order, bytes)
      /\ \A k \in 1 .. 25 : m[k] = RowStepItems(PackTable[k], order)
  BY <1>7, <1>8
<1>10. /\ \A k \in 1 .. 25 : f[k] \in Nat
       /\ \A k \in 1 .. 25 : m[k] \in Nat
  BY <1>9, PackTableIs, RowStepTyped, Zenon
<1>11. (\E g : Sums(g, 25, f)) /\ (\E h : Sums(h, 25, m))
  BY <1>10, SumsExist, Zenon
<1>12. PICK g : Sums(g, 25, f)
  BY <1>11
<1>13. PICK h : Sums(h, 25, m)
  BY <1>11
<1>14. Flags(start.row, order)
  BY <1>2, <1>4
<1>15. OrderStepsDone(start, after[25], order, 25, g[25], h[25])
  BY <1>4, <1>6, <1>9, <1>12, <1>13, <1>14, OrderStepsFill
<1>16. g[25] = OrderBytes(order, bytes) /\ h[25] = Count(order.items)
  BY <1>9, <1>12, <1>13, OrderSums
<1>17. OrderStepsDone(start, c, order, 25, OrderBytes(order, bytes), Count(order.items))
  BY <1>6, <1>15, <1>16
<1>18. /\ Builder(c, OrderRow) /\ Later(start, c)
       /\ c.err = "none" =>
            /\ \A j \in 1 .. 25 : StepDone(c, PackTable[j], order)
            /\ Len(c.strings) = Len(b.strings) + OrderBytes(order, bytes)
            /\ Len(c.items) = Len(b.items) + Count(order.items)
  BY <1>4, <1>17 DEF OrderStepsDone
<1>19. Later(b, c)
  BY <1>4, <1>18, LaterStill
<1>20. c.err = "none" => OrderHeld(c, order)
  BY <1>18, StepsAreAll, Zenon
<1> QED BY <1>18, <1>19, <1>20 DEF OrderPacked

-----------------------------------------------------------------------------
(* Rows of a workspace.                                                    *)
Snapshot(row, items, strings) ==
  [row |-> row, items |-> items, itemCap |-> 0, strings |-> strings,
   stringCap |-> 0, plain |-> TRUE, size |-> 0, err |-> "none"]

RowHeld(row, items, strings, order) == OrderHeld(Snapshot(row, items, strings), order)

(* The row just packed, in the arrays of now.                              *)
LEMMA HeldNow ==
  ASSUME NEW c, NEW order, OrderHeld(c, order)
  PROVE  RowHeld(c.row, c.items, c.strings, order)
<1>1. PICK d : d = Snapshot(c.row, c.items, c.strings)
  OBVIOUS
<1>2. d.row = c.row /\ d.items = c.items /\ d.strings = c.strings
  BY <1>1 DEF Snapshot
<1>3. \A field \in OrderStrings : StringDone(d, order, field)
  BY <1>2 DEF OrderHeld, StringDone
<1>4. TrackingDone(d, order)
  BY <1>2 DEF OrderHeld, TrackingDone, StringDone
<1>5. ItemsDone(d, order)
  BY <1>2 DEF OrderHeld, ItemsDone
<1> QED BY <1>1, <1>3, <1>4, <1>5 DEF OrderHeld, RowHeld

(* A row packed earlier reads the same in the arrays of later.             *)
LEMMA HeldLater ==
  ASSUME NEW row \in OrderRow, NEW i \in Seq(ItemRow), NEW j \in Seq(ItemRow), Grows(i, j),
         NEW s \in Seq(Bytes), NEW t \in Seq(Bytes), Grows(s, t),
         NEW order, RowHeld(row, i, s, order)
  PROVE  RowHeld(row, j, t, order)
<1>1. PICK b, c : b = Snapshot(row, i, s) /\ c = Snapshot(row, j, t)
  OBVIOUS
<1>2. /\ b.row = row /\ b.items = i /\ b.itemCap = 0 /\ b.strings = s
      /\ b.stringCap = 0 /\ b.err = "none"
      /\ c.row = row /\ c.items = j /\ c.itemCap = 0 /\ c.strings = t
      /\ c.stringCap = 0 /\ c.err = "none"
  BY <1>1 DEF Snapshot
<1>3. Builder(b, OrderRow) /\ Builder(c, OrderRow)
  BY <1>1, <1>2 DEF Snapshot, Builder
<1>4. Later(b, c)
  BY <1>2 DEF Later
<1>5. OrderHeld(b, order)
  BY <1>1 DEF RowHeld
<1>6. \A field \in OrderStrings : StringDone(c, order, field)
  <2>1. OrderStrings \subseteq OrderRefs
    BY DEF OrderStrings, OrderRefs
  <2> QED BY <1>2, <1>3, <1>4, <1>5, <2>1, StringKept, Zenon DEF OrderHeld
<1>7. TrackingDone(c, order)
  BY <1>2, <1>3, <1>4, <1>5, TrackingKept, Zenon DEF OrderHeld, Same
<1>8. ItemsDone(c, order)
  BY <1>2, <1>3, <1>4, <1>5, ItemsKept, Zenon DEF OrderHeld, Same
<1> QED BY <1>1, <1>6, <1>7, <1>8 DEF OrderHeld, RowHeld

(* What is held is read back.                                              *)
LEMMA HeldItemReads ==
  ASSUME NEW row, NEW item \in Item, ItemHeld(ws.strings, row, item)
  PROVE  ItemOf(row) = item
<1>1. /\ Resolved(row.sku) = item.sku /\ Resolved(row.title) = item.title
      /\ row.qty = item.qty /\ row.price = item.price
  BY DEF ItemHeld, Holds, Resolved
<1>2. item = [sku |-> item.sku, title |-> item.title, qty |-> item.qty,
              price |-> item.price]
  BY ItemIs
<1> QED BY <1>1, <1>2 DEF ItemOf

(* A row that holds an order reads back, as C reads it, as that order.     *)
LEMMA HeldReads ==
  ASSUME NEW row \in OrderRow, NEW order \in Order,
         RowHeld(row, ws.items, ws.strings, order)
  PROVE  OrderOf(row) = order
<1>1. PICK b : b = Snapshot(row, ws.items, ws.strings)
  OBVIOUS
<1>2. b.row = row /\ b.items = ws.items /\ b.strings = ws.strings
  BY <1>1 DEF Snapshot
<1>3. /\ \A field \in OrderStrings : StringDone(b, order, field)
      /\ TrackingDone(b, order) /\ ItemsDone(b, order)
  BY <1>1 DEF RowHeld, OrderHeld
<1>4. \A field \in OrderStrings : Resolved(row[field]) = order[field]
  BY <1>2, <1>3 DEF StringDone, Holds, Resolved
<1>5. /\ Resolved(row.orderID) = order.orderID
      /\ Resolved(row.createdAt) = order.createdAt
      /\ Resolved(row.status) = order.status
      /\ Resolved(row.paymentMethod) = order.paymentMethod
      /\ Resolved(row.buyerName) = order.buyerName
      /\ Resolved(row.city) = order.city
      /\ Resolved(row.address) = order.address
      /\ Resolved(row.remark) = order.remark
  BY <1>4 DEF OrderStrings
<1>6. (IF row.hasTrackingNo = 1 THEN Resolved(row.trackingNo) ELSE Nil) = order.trackingNo
  <2>1. CASE order.trackingNo = Nil
    BY <1>2, <1>3, <2>1 DEF TrackingDone
  <2>2. CASE order.trackingNo # Nil
    BY <1>2, <1>3, <2>2, Zenon DEF TrackingDone, StringDone, Holds, Resolved
  <2> QED BY <2>1, <2>2
<1>7. row.buyerID = order.buyerID
  BY <1>2, <1>3 DEF ItemsDone
<1>8. (row.paid = 1) = order.paid
  <2>1. order.paid \in BOOLEAN
    BY OrderIs
  <2>2. row.paid = IF order.paid THEN 1 ELSE 0
    BY <1>2, <1>3 DEF ItemsDone
  <2> QED BY <2>1, <2>2
<1>9. (IF row.itemsNull = 1 THEN Nil
       ELSE [i \in 1 .. row.itemCount |-> ItemOf(ws.items[row.itemStart + i])])
        = order.items
  <2>1. CASE order.items = Nil
    BY <1>2, <1>3, <2>1 DEF ItemsDone
  <2>2. CASE order.items # Nil
    <3>1. PICK items \in Seq(Item) : items = order.items
      BY <2>2, OrderIs
    <3>2. PICK n, s : n = row.itemCount /\ s = row.itemStart
      OBVIOUS
    <3>3. /\ row.itemsNull = 0 /\ n = Len(items)
          /\ \A i \in 1 .. n : ItemHeld(ws.strings, ws.items[s + i], items[i])
      BY <1>2, <1>3, <2>2, <3>1, <3>2 DEF ItemsDone
    <3>4. \A i \in 1 .. n : items[i] \in Item
      BY <3>3
    <3>5. \A i \in 1 .. n : ItemOf(ws.items[s + i]) = items[i]
      BY <3>3, <3>4, HeldItemReads
    <3>6. items = [i \in 1 .. n |-> items[i]]
      BY <3>3
    <3>7. [i \in 1 .. n |-> ItemOf(ws.items[s + i])] = items
      BY <3>5, <3>6
    <3> QED BY <3>1, <3>2, <3>3, <3>7
  <2> QED BY <2>1, <2>2
<1>10. order = [orderID |-> order.orderID, createdAt |-> order.createdAt,
                status |-> order.status, paymentMethod |-> order.paymentMethod,
                paid |-> order.paid, buyerID |-> order.buyerID,
                buyerName |-> order.buyerName, city |-> order.city,
                address |-> order.address, trackingNo |-> order.trackingNo,
                items |-> order.items, remark |-> order.remark]
  BY OrderIs
<1> QED BY <1>5, <1>6, <1>7, <1>8, <1>9, <1>10 DEF OrderOf

-----------------------------------------------------------------------------
(* Any number of calls, one after the other.                               *)

IsPacked(p) ==
  /\ p = [array |-> p.array, count |-> p.count,
          items |-> p.items, itemCap |-> p.itemCap,
          strings |-> p.strings, stringCap |-> p.stringCap,
          ordersNull |-> p.ordersNull, stringsPlain |-> p.stringsPlain,
          maxOutput |-> p.maxOutput]
  /\ p.array \in Seq(OrderRow)
  /\ p.items \in Seq(ItemRow)
  /\ p.itemCap \in Nat
  /\ p.strings \in Seq(Bytes)
  /\ p.stringCap \in Nat
  /\ p.stringsPlain \in BOOLEAN

(* The first k rows of p hold the first k orders of b.                     *)
HoldsBatch(p, b, k) ==
  /\ p.count = Count(b)
  /\ p.count <= Len(p.array)
  /\ p.ordersNull = (b = Nil)
  /\ k \in 0 .. Count(b)
  /\ \A i \in 1 .. k : RowHeld(p.array[i], p.items, p.strings, b[i])

(* There is a batch in the workspace, or part of one.                      *)
InUse ==
  \/ phase \in {"pack", "packed", "encode"}
  \/ phase = "done" /\ stage = "returned"

RowsInUse == IF phase = "pack" THEN next ELSE Count(batch)

Typed ==
  /\ phase \in {"idle", "reset", "pack", "packed", "encode", "done"}
  /\ entry \in {"Marshal", "Pack"}
  /\ batch \in Batch
  /\ IsPacked(ws)
  /\ pooled # Nil => IsPacked(pooled)

BatchIsHeld == InUse => HoldsBatch(ws, batch, RowsInUse)

(* The native encoder has a status to be read only after it was called.    *)
CalledFirst == stage = "returned" => phase \in {"encode", "done"}

PackInv == Typed /\ BatchIsHeld /\ CalledFirst

(* A workspace as reset makes it has its types.                            *)
LEMMA WorkspaceIs ==
  ASSUME NEW array \in Seq(OrderRow), NEW i \in Nat, NEW s \in Nat
  PROVE  IsPacked(Workspace(array, i, s))
<1>1. <<>> \in Seq(ItemRow) /\ <<>> \in Seq(Bytes)
  OBVIOUS
<1> QED BY <1>1 DEF Workspace, IsPacked

LEMMA NewWorkspaceIs == IsPacked(NewWorkspace)
<1>1. <<>> \in Seq(OrderRow) /\ 0 \in Nat
  OBVIOUS
<1> QED BY <1>1, WorkspaceIs, Zenon DEF NewWorkspace

LEMMA CountIs ==
  ASSUME NEW b \in Batch
  PROVE  /\ Count(b) \in Nat
         /\ \A i \in 1 .. Count(b) : b[i] \in Order
<1>1. CASE b = Nil
  BY <1>1 DEF Count
<1>2. CASE b # Nil
  <2>1. b \in Seq(Order)
    BY <1>2 DEF Batch
  <2> QED BY <1>2, <2>1 DEF Count
<1> QED BY <1>1, <1>2

LEMMA ZeroOrderTyped == ZeroOrderRow \in OrderRow
<1>1. 0 \in Ints
  BY HalfAssumption DEF Ints
<1>2. NoRef \in RowRef
  BY RefTyped
<1> QED BY <1>1, <1>2 DEF ZeroOrderRow, OrderRow

LEMMA PackInitially == Init => PackInv
<1> SUFFICES ASSUME Init PROVE PackInv
  OBVIOUS
<1>1. Typed
  BY NewWorkspaceIs DEF Init, Typed, Batch
<1>2. phase = "idle" /\ stage = "outside"
  BY DEF Init, NativeInit
<1> QED BY <1>1, <1>2 DEF PackInv, BatchIsHeld, InUse, CalledFirst

LEMMA CallPacks ==
  ASSUME PackInv, Call
  PROVE  PackInv'
<1>1. /\ phase' = "reset" /\ stage' = stage /\ batch' \in Batch
      /\ entry' \in {"Marshal", "Pack"}
  BY PipelineAssumption DEF Call, nativeVars
<1>2. stage # "returned"
  BY DEF PackInv, CalledFirst, Call
<1>3. (pooled' # Nil => IsPacked(pooled)) /\ IsPacked(ws')
      /\ (pooled' = pooled \/ pooled' = Nil)
  BY NewWorkspaceIs DEF Call, Get, PackInv, Typed
<1>4. Typed'
  BY <1>1, <1>3 DEF Typed
<1> QED BY <1>1, <1>2, <1>4 DEF PackInv, BatchIsHeld, InUse, CalledFirst

LEMMA TooLargePacks ==
  ASSUME PackInv, TooLarge
  PROVE  PackInv'
<1>1. /\ phase = "reset" /\ phase' = "done" /\ stage' = stage
      /\ batch' = batch /\ entry' = entry /\ pooled' = pooled /\ ws' = ws
  BY DEF TooLarge, Refused, nativeVars
<1>2. stage # "returned"
  BY <1>1 DEF PackInv, CalledFirst
<1>3. Typed'
  BY <1>1 DEF PackInv, Typed
<1> QED BY <1>1, <1>2, <1>3 DEF PackInv, BatchIsHeld, InUse, CalledFirst

LEMMA ResetArrayIs ==
  ASSUME NEW array \in Seq(OrderRow), NEW n \in Nat
  PROVE  ResetArray(array, n) \in Seq(OrderRow) /\ n <= Len(ResetArray(array, n))
<1>1. CASE Len(array) < n
  <2>1. PICK zero \in OrderRow : zero = ZeroOrderRow
    BY ZeroOrderTyped
  <2>2. PICK a : a = [i \in 1 .. n |-> zero]
    BY Zenon
  <2>3. a \in Seq(OrderRow) /\ Len(a) = n
    BY <2>2
  <2>4. ResetArray(array, n) = a
    BY <1>1, <2>1, <2>2 DEF ResetArray
  <2> QED BY <2>3, <2>4
<1>2. CASE ~(Len(array) < n)
  BY <1>2 DEF ResetArray
<1> QED BY <1>1, <1>2

ItemCounts(b) == [k \in 1 .. Len(b) |-> Count(b[k].items)]
ByteCounts(b) == [k \in 1 .. Len(b) |-> StringBytes(b[k])]
Lengths(values) == [k \in 1 .. Len(values) |-> Len(values[k])]

(* The totals of packedCapacities, as sums.                                *)
LEMMA ItemTotalIs ==
  ASSUME NEW b, NEW n \in Nat, n = Len(b), \A k \in 1 .. n : ItemCounts(b)[k] \in Nat
  PROVE  \E g : Sums(g, n, ItemCounts(b)) /\ ItemTotal(b) = g[n]
<1> DEFINE Solves(h) ==
      h = [i \in 0 .. Len(b) |-> IF i = 0 THEN 0 ELSE h[i - 1] + Count(b[i].items)]
<1>1. ASSUME NEW h PROVE Solves(h) <=> SumSolved(h, n, ItemCounts(b))
  <2>1. ASSUME NEW i \in 0 .. n
        PROVE  (IF i = 0 THEN 0 ELSE h[i - 1] + Count(b[i].items))
                 = (IF i = 0 THEN 0 ELSE h[i - 1] + ItemCounts(b)[i])
    <3>1. i = 0 \/ i \in 1 .. n
      OBVIOUS
    <3> QED BY <3>1 DEF ItemCounts
  <2>2. [i \in 0 .. n |-> IF i = 0 THEN 0 ELSE h[i - 1] + Count(b[i].items)]
          = [i \in 0 .. n |-> IF i = 0 THEN 0 ELSE h[i - 1] + ItemCounts(b)[i]]
    BY <2>1
  <2> QED BY <2>2, Zenon DEF SumSolved
<1>2. PICK f : f = CHOOSE h : Solves(h)
  OBVIOUS
<1>3. ItemTotal(b) = f[n]
  BY <1>2 DEF ItemTotal
<1> HIDE DEF Solves
<1>4. PICK g : Sums(g, n, ItemCounts(b))
  BY SumsExist
<1>5. Solves(g)
  BY <1>1, <1>4, SumsSolve
<1>6. Solves(f)
  BY <1>2, <1>5
<1>7. Sums(f, n, ItemCounts(b))
  BY <1>1, <1>6, SolvedSums
<1> QED BY <1>3, <1>7

LEMMA StringTotalIs ==
  ASSUME NEW b, NEW n \in Nat, n = Len(b), \A k \in 1 .. n : ByteCounts(b)[k] \in Nat
  PROVE  \E g : Sums(g, n, ByteCounts(b)) /\ StringTotal(b) = g[n]
<1> DEFINE Solves(h) ==
      h = [i \in 0 .. Len(b) |-> IF i = 0 THEN 0 ELSE h[i - 1] + StringBytes(b[i])]
<1>1. ASSUME NEW h PROVE Solves(h) <=> SumSolved(h, n, ByteCounts(b))
  <2>1. ASSUME NEW i \in 0 .. n
        PROVE  (IF i = 0 THEN 0 ELSE h[i - 1] + StringBytes(b[i]))
                 = (IF i = 0 THEN 0 ELSE h[i - 1] + ByteCounts(b)[i])
    <3>1. i = 0 \/ i \in 1 .. n
      OBVIOUS
    <3> QED BY <3>1 DEF ByteCounts
  <2>2. [i \in 0 .. n |-> IF i = 0 THEN 0 ELSE h[i - 1] + StringBytes(b[i])]
          = [i \in 0 .. n |-> IF i = 0 THEN 0 ELSE h[i - 1] + ByteCounts(b)[i]]
    BY <2>1
  <2> QED BY <2>2, Zenon DEF SumSolved
<1>2. PICK f : f = CHOOSE h : Solves(h)
  OBVIOUS
<1>3. StringTotal(b) = f[n]
  BY <1>2 DEF StringTotal
<1> HIDE DEF Solves
<1>4. PICK g : Sums(g, n, ByteCounts(b))
  BY SumsExist
<1>5. Solves(g)
  BY <1>1, <1>4, SumsSolve
<1>6. Solves(f)
  BY <1>2, <1>5
<1>7. Sums(f, n, ByteCounts(b))
  BY <1>1, <1>6, SolvedSums
<1> QED BY <1>3, <1>7

LEMMA StringBytesAre ==
  ASSUME NEW order, NEW values, values = Strings(order), NEW n \in Nat, n = Len(values),
         \A k \in 1 .. n : Lengths(values)[k] \in Nat
  PROVE  \E g : Sums(g, n, Lengths(values)) /\ StringBytes(order) = g[n]
<1> DEFINE Solves(h) ==
      h = [i \in 0 .. Len(values) |-> IF i = 0 THEN 0 ELSE h[i - 1] + Len(values[i])]
<1>1. ASSUME NEW h PROVE Solves(h) <=> SumSolved(h, n, Lengths(values))
  <2>1. ASSUME NEW i \in 0 .. n
        PROVE  (IF i = 0 THEN 0 ELSE h[i - 1] + Len(values[i]))
                 = (IF i = 0 THEN 0 ELSE h[i - 1] + Lengths(values)[i])
    <3>1. i = 0 \/ i \in 1 .. n
      OBVIOUS
    <3> QED BY <3>1 DEF Lengths
  <2>2. [i \in 0 .. n |-> IF i = 0 THEN 0 ELSE h[i - 1] + Len(values[i])]
          = [i \in 0 .. n |-> IF i = 0 THEN 0 ELSE h[i - 1] + Lengths(values)[i]]
    BY <2>1
  <2> QED BY <2>2, Zenon DEF SumSolved
<1>2. PICK f : f = CHOOSE h : Solves(h)
  OBVIOUS
<1>3. StringBytes(order) = f[n]
  BY <1>2 DEF StringBytes
<1> HIDE DEF Solves
<1>4. PICK g : Sums(g, n, Lengths(values))
  BY SumsExist
<1>5. Solves(g)
  BY <1>1, <1>4, SumsSolve
<1>6. Solves(f)
  BY <1>2, <1>5
<1>7. Sums(f, n, Lengths(values))
  BY <1>1, <1>6, SolvedSums
<1> QED BY <1>3, <1>7

Strs == Seq(Bytes)

(* The strings of a sequence have t bytes together.                        *)
HaveBytes(values, t) ==
  /\ values \in Seq(Strs)
  /\ \E g : Sums(g, Len(values), Lengths(values)) /\ t = g[Len(values)]

LEMMA LengthsTyped ==
  ASSUME NEW values \in Seq(Strs)
  PROVE  /\ \A k \in 1 .. Len(values) : Lengths(values)[k] = Len(values[k])
         /\ \A k \in 1 .. Len(values) : Lengths(values)[k] \in Nat
<1>1. \A k \in 1 .. Len(values) : values[k] \in Seq(Bytes)
  BY DEF Strs
<1>2. \A s \in Seq(Bytes) : Len(s) \in Nat
  OBVIOUS
<1>3. \A k \in 1 .. Len(values) : Lengths(values)[k] = Len(values[k])
  BY DEF Lengths
<1> QED BY <1>1, <1>2, <1>3

LEMMA StringBytesIs ==
  ASSUME NEW order, NEW t, HaveBytes(Strings(order), t)
  PROVE  StringBytes(order) = t /\ t \in Nat
<1>1. PICK values : values = Strings(order)
  OBVIOUS
<1>2. values \in Seq(Strs)
  BY <1>1 DEF HaveBytes
<1>3. PICK n \in Nat : n = Len(values)
  BY <1>2
<1>4. PICK g : Sums(g, n, Lengths(values)) /\ t = g[n]
  BY <1>1, <1>3 DEF HaveBytes
<1>5. \A k \in 1 .. n : Lengths(values)[k] \in Nat
  BY <1>2, <1>3, LengthsTyped
<1>6. PICK h : Sums(h, n, Lengths(values)) /\ StringBytes(order) = h[n]
  BY <1>1, <1>3, <1>5, StringBytesAre
<1>7. g[n] = h[n]
  BY <1>4, <1>6, SumsUnique
<1>8. n \in 0 .. n
  OBVIOUS
<1>9. g[n] \in Nat
  BY <1>4, <1>8 DEF Sums
<1> QED BY <1>4, <1>6, <1>7, <1>9

LEMMA NothingHasNoBytes == HaveBytes(<<>>, 0)
<1>0. <<>> \in Seq(Strs) /\ Len(<<>>) = 0
  OBVIOUS
<1>1. PICK e : e = <<>> /\ e \in Seq(Strs) /\ Len(e) = 0
  BY <1>0, Zenon
<1>2. PICK g : g = [k \in 0 .. 0 |-> 0]
  BY Zenon
<1>3. Sums(g, 0, Lengths(e)) /\ g[0] = 0
  BY <1>2 DEF Sums
<1> QED BY <1>1, <1>3 DEF HaveBytes

(* The bytes of two lists of strings, one behind the other.                *)
LEMMA BytesOfBoth ==
  ASSUME NEW u, NEW s, HaveBytes(u, s), NEW v, NEW t, HaveBytes(v, t)
  PROVE  HaveBytes(u \o v, s + t)
<1>1. u \in Seq(Strs) /\ v \in Seq(Strs)
  BY DEF HaveBytes
<1>2. PICK m \in Nat, n \in Nat : m = Len(u) /\ n = Len(v)
  BY <1>1
<1>3. PICK g : Sums(g, m, Lengths(u)) /\ s = g[m]
  BY <1>2 DEF HaveBytes
<1>4. PICK h : Sums(h, n, Lengths(v)) /\ t = h[n]
  BY <1>2 DEF HaveBytes
<1>5. PICK x : x = u \o v
  BY Zenon
<1>6. /\ x \in Seq(Strs) /\ Len(x) = m + n
      /\ \A k \in 1 .. m : x[k] = u[k]
      /\ \A k \in m + 1 .. m + n : x[k] = v[k - m]
  BY <1>1, <1>2, <1>5
<1>7. PICK f : f = Lengths(x)
  OBVIOUS
<1>8. ASSUME NEW k \in 1 .. m PROVE f[k] = Lengths(u)[k]
  <2>1. k \in 1 .. m + n
    OBVIOUS
  <2>2. f[k] = Len(x[k]) /\ Lengths(u)[k] = Len(u[k])
    BY <1>1, <1>2, <1>6, <1>7, <2>1 DEF Lengths
  <2> QED BY <1>6, <2>2
<1>9. ASSUME NEW k \in m + 1 .. m + n PROVE f[k] = Lengths(v)[k - m]
  <2>1. k \in 1 .. m + n /\ k - m \in 1 .. n
    OBVIOUS
  <2>2. f[k] = Len(x[k]) /\ Lengths(v)[k - m] = Len(v[k - m])
    BY <1>1, <1>2, <1>6, <1>7, <2>1 DEF Lengths
  <2> QED BY <1>6, <2>2
<1>10. /\ \A k \in 0 .. m : g[k] \in Nat
       /\ \A k \in 0 .. n : h[k] \in Nat
       /\ g[0] = 0 /\ h[0] = 0
       /\ \A k \in 1 .. m : g[k] = g[k - 1] + Lengths(u)[k]
       /\ \A k \in 1 .. n : h[k] = h[k - 1] + Lengths(v)[k]
  BY <1>3, <1>4 DEF Sums
<1>11. PICK gm \in Nat : gm = g[m]
  BY <1>10
<1>12. PICK z : z = [k \in 0 .. m + n |-> IF k <= m THEN g[k] ELSE gm + h[k - m]]
  BY Zenon
<1>13. ASSUME NEW k \in 0 .. m PROVE z[k] = g[k] /\ z[k] \in Nat
  <2>1. k \in 0 .. m + n /\ k <= m
    OBVIOUS
  <2> QED BY <1>10, <1>12, <2>1
<1>14. ASSUME NEW k \in m .. m + n PROVE z[k] = gm + h[k - m] /\ z[k] \in Nat
  <2>1. k \in 0 .. m + n /\ k - m \in 0 .. n
    <3>1. k \in Int /\ m <= k /\ k <= m + n
      OBVIOUS
    <3> QED BY <3>1
  <2>2. CASE k = m
    <3>1. k - m = 0 /\ z[k] = g[k] /\ k \in 0 .. m
      BY <1>13, <2>2
    <3> QED BY <1>10, <1>11, <2>2, <3>1
  <2>3. CASE k # m
    <3>1. ~(k <= m)
      BY <2>3
    <3> QED BY <1>10, <1>12, <2>1, <3>1
  <2> QED BY <2>2, <2>3
<1>15. \A k \in 0 .. m + n : z[k] \in Nat
  <2>1. \A k \in 0 .. m + n : k \in 0 .. m \/ k \in m .. m + n
    OBVIOUS
  <2> QED BY <1>13, <1>14, <2>1
<1>16. z \in [0 .. m + n -> Nat]
  BY <1>12, <1>15, Zenon
<1>17. z[0] = 0
  <2>1. 0 \in 0 .. m
    OBVIOUS
  <2> QED BY <1>10, <1>13, <2>1
<1>18. ASSUME NEW k \in 1 .. m + n PROVE z[k] = z[k - 1] + f[k]
  <2>1. CASE k \in 1 .. m
    <3>1. k \in 0 .. m /\ k - 1 \in 0 .. m
      BY <2>1
    <3> QED BY <1>8, <1>10, <1>13, <2>1, <3>1
  <2>2. CASE k \in m + 1 .. m + n
    <3>1. PICK j \in 1 .. n : j = k - m /\ j - 1 = (k - 1) - m
      BY <2>2
    <3>2. k \in m .. m + n /\ k - 1 \in m .. m + n
      BY <2>2
    <3>3. z[k] = gm + h[j] /\ z[k - 1] = gm + h[j - 1]
      BY <1>14, <3>1, <3>2
    <3>4. h[j] = h[j - 1] + Lengths(v)[j] /\ f[k] = Lengths(v)[j]
      BY <1>9, <1>10, <2>2, <3>1
    <3>5. f[k] \in Nat
      <4>1. Lengths(v)[j] \in Nat
        BY <1>1, <1>2, LengthsTyped
      <4> QED BY <3>4, <4>1
    <3>6. j - 1 \in 0 .. n
      OBVIOUS
    <3>7. h[j - 1] \in Nat
      BY <1>10, <3>6
    <3> QED BY <3>3, <3>4, <3>5, <3>7
  <2>3. k \in 1 .. m \/ k \in m + 1 .. m + n
    OBVIOUS
  <2> QED BY <2>1, <2>2, <2>3
<1>19. Sums(z, m + n, f)
  BY <1>16, <1>17, <1>18 DEF Sums
<1>20. z[m + n] = s + t
  <2>1. m + n \in m .. m + n /\ (m + n) - m = n
    OBVIOUS
  <2> QED BY <1>3, <1>4, <1>11, <1>14, <2>1
<1> QED BY <1>5, <1>6, <1>7, <1>19, <1>20 DEF HaveBytes

LEMMA BytesOfOne ==
  ASSUME NEW v \in Strs
  PROVE  HaveBytes(<<v>>, Len(v))
<1>1. PICK x : x = <<v>>
  BY Zenon
<1>2. x \in Seq(Strs) /\ Len(x) = 1 /\ x[1] = v
  BY <1>1
<1>3. PICK n \in Nat : n = Len(v)
  BY DEF Strs
<1>4. PICK f : f = Lengths(x) /\ f[1] = n
  BY <1>2, <1>3, LengthsTyped
<1>5. PICK g : g = [k \in 0 .. 1 |-> IF k = 0 THEN 0 ELSE n]
  BY Zenon
<1>6. g \in [0 .. 1 -> Nat] /\ g[0] = 0 /\ g[1] = n
  BY <1>5
<1>7. ASSUME NEW k \in 1 .. 1 PROVE g[k] = g[k - 1] + f[k]
  <2>1. k = 1 /\ k - 1 = 0
    OBVIOUS
  <2> QED BY <1>4, <1>6, <2>1
<1>8. Sums(g, 1, f)
  BY <1>6, <1>7 DEF Sums
<1> QED BY <1>1, <1>2, <1>3, <1>4, <1>6, <1>8 DEF HaveBytes

LEMMA BytesOfTwo ==
  ASSUME NEW a \in Strs, NEW b \in Strs
  PROVE  HaveBytes(<<a, b>>, Len(a) + Len(b))
<1>1. PICK x : x = <<a, b>>
  BY Zenon
<1>2. x \in Seq(Strs) /\ Len(x) = 2 /\ x[1] = a /\ x[2] = b
  BY <1>1
<1>3. PICK n1 \in Nat, n2 \in Nat : n1 = Len(a) /\ n2 = Len(b)
  BY DEF Strs
<1>4. PICK f : f = Lengths(x)
  OBVIOUS
<1>5. (\A k \in 1 .. 2 : f[k] \in Nat) /\ f[1] = n1 /\ f[2] = n2
  <2>1. \A k \in 1 .. 2 : f[k] = Len(x[k]) /\ f[k] \in Nat
    BY <1>2, <1>4, LengthsTyped, Zenon
  <2>2. f[1] = Len(x[1]) /\ f[2] = Len(x[2])
    BY <2>1
  <2> QED BY <1>2, <1>3, <2>1, <2>2
<1>6. PICK g : Sums(g, 2, f)
  BY <1>5, SumsExist
<1>7. g[0] = 0 /\ \A k \in 1 .. 2 : g[k] = g[k - 1] + f[k]
  BY <1>6 DEF Sums
<1>8. g[1] = g[0] + f[1] /\ g[2] = g[1] + f[2]
  BY <1>7
<1>9. g[2] = n1 + n2
  BY <1>5, <1>7, <1>8
<1> QED BY <1>1, <1>2, <1>3, <1>4, <1>6, <1>9 DEF HaveBytes

LEMMA BytesOfEight ==
  ASSUME NEW a \in Strs, NEW b \in Strs, NEW c \in Strs, NEW d \in Strs,
         NEW p \in Strs, NEW q \in Strs, NEW r \in Strs, NEW s \in Strs
  PROVE  HaveBytes(<<a, b, c, d, p, q, r, s>>,
                   Len(a) + Len(b) + Len(c) + Len(d) + Len(p) + Len(q) + Len(r) + Len(s))
<1>1. PICK x : x = <<a, b, c, d, p, q, r, s>>
  BY Zenon
<1>2. /\ x \in Seq(Strs) /\ Len(x) = 8 /\ x[1] = a /\ x[2] = b /\ x[3] = c /\ x[4] = d
      /\ x[5] = p /\ x[6] = q /\ x[7] = r /\ x[8] = s
  BY <1>1
<1>3. PICK n1 \in Nat, n2 \in Nat, n3 \in Nat, n4 \in Nat,
           n5 \in Nat, n6 \in Nat, n7 \in Nat, n8 \in Nat :
        /\ n1 = Len(a) /\ n2 = Len(b) /\ n3 = Len(c) /\ n4 = Len(d)
        /\ n5 = Len(p) /\ n6 = Len(q) /\ n7 = Len(r) /\ n8 = Len(s)
  <2>1. \A t \in Strs : Len(t) \in Nat
    BY DEF Strs
  <2> QED BY <2>1, Zenon
<1>4. PICK f : f = Lengths(x)
  OBVIOUS
<1>5. /\ \A k \in 1 .. 8 : f[k] \in Nat
      /\ f[1] = n1 /\ f[2] = n2 /\ f[3] = n3 /\ f[4] = n4
      /\ f[5] = n5 /\ f[6] = n6 /\ f[7] = n7 /\ f[8] = n8
  <2>1. \A k \in 1 .. 8 : f[k] = Len(x[k]) /\ f[k] \in Nat
    BY <1>2, <1>4, LengthsTyped, Zenon
  <2>2. /\ f[1] = Len(x[1]) /\ f[2] = Len(x[2]) /\ f[3] = Len(x[3]) /\ f[4] = Len(x[4])
        /\ f[5] = Len(x[5]) /\ f[6] = Len(x[6]) /\ f[7] = Len(x[7]) /\ f[8] = Len(x[8])
    BY <2>1
  <2> QED BY <1>2, <1>3, <2>1, <2>2
<1>6. PICK g : Sums(g, 8, f)
  BY <1>5, SumsExist
<1>7. g[0] = 0 /\ \A k \in 1 .. 8 : g[k] = g[k - 1] + f[k]
  BY <1>6 DEF Sums
<1>8. /\ g[1] = g[0] + f[1] /\ g[2] = g[1] + f[2] /\ g[3] = g[2] + f[3]
      /\ g[4] = g[3] + f[4] /\ g[5] = g[4] + f[5] /\ g[6] = g[5] + f[6]
      /\ g[7] = g[6] + f[7] /\ g[8] = g[7] + f[8]
  BY <1>7
<1>9. g[8] = n1 + n2 + n3 + n4 + n5 + n6 + n7 + n8
  BY <1>5, <1>7, <1>8
<1>10. HaveBytes(x, n1 + n2 + n3 + n4 + n5 + n6 + n7 + n8)
  BY <1>2, <1>4, <1>6, <1>9 DEF HaveBytes
<1> QED BY <1>1, <1>3, <1>10

(* The strings of the items, two per item.                                 *)
LEMMA BytesOfFlat ==
  ASSUME NEW n \in Nat, NEW seqs, Len(seqs) = n, DOMAIN seqs = 1 .. n,
         seqs = [k \in 1 .. n |-> seqs[k]],
         NEW f, \A k \in 1 .. n : HaveBytes(seqs[k], f[k]),
         NEW g, Sums(g, n, f)
  PROVE  HaveBytes(FlattenSeq(seqs), g[n])
<1>1. \A k \in 1 .. n : seqs[k] \in Seq(Strs)
  BY DEF HaveBytes
<1>2. PICK h : Concatenates(h, n, seqs, Strs)
  BY <1>1, Concatenations, Zenon
<1>3. FlattenSeq(seqs) = h[n]
  BY <1>1, <1>2, FlattenIs
<1> DEFINE T == {m \in Nat : m <= n => HaveBytes(h[m], g[m])}
<1>4. 0 \in T
  BY <1>2, NothingHasNoBytes DEF Concatenates, Sums
<1>5. ASSUME NEW m \in Nat, m \in T PROVE m + 1 \in T
  <2> SUFFICES ASSUME m + 1 <= n PROVE HaveBytes(h[m + 1], g[m + 1])
    OBVIOUS
  <2>1. m + 1 \in 1 .. n /\ (m + 1) - 1 = m /\ HaveBytes(h[m], g[m])
    BY <1>5
  <2>2. h[m + 1] = h[m] \o seqs[m + 1] /\ g[m + 1] = g[m] + f[m + 1]
    BY <1>2, <2>1, Zenon DEF Concatenates, Sums
  <2>3. HaveBytes(h[m] \o seqs[m + 1], g[m] + f[m + 1])
    BY <2>1, BytesOfBoth
  <2> QED BY <2>2, <2>3
<1>6. Nat \subseteq T
  <2> HIDE DEF T
  <2> QED BY <1>4, <1>5, Induction
<1>7. HaveBytes(h[n], g[n])
  BY <1>6
<1> QED BY <1>3, <1>7

LEMMA ItemsBytesExist ==
  ASSUME NEW order \in Order
  PROVE  \E bytes \in Nat : ItemsBytesAre(order, bytes)
<1>1. CASE order["items"] = Nil
  BY <1>1 DEF ItemsBytesAre
<1>2. CASE order["items"] # Nil
  <2>1. PICK items \in Seq(Item) : items = order["items"]
    BY <1>2, OrderIs
  <2>2. PICK n \in Nat : n = Len(items)
    OBVIOUS
  <2>3. PICK f : f = [i \in 1 .. n |-> ItemBytesTo(items[i], 9)]
    BY Zenon
  <2>4. \A i \in 1 .. n : f[i] = ItemBytesTo(items[i], 9) /\ items[i] \in Item
    BY <2>2, <2>3
  <2>5. 9 \in Nat
    OBVIOUS
  <2>6. \A i \in 1 .. n : f[i] \in Nat
    BY <2>4, <2>5, ItemBytesTyped, Zenon
  <2>7. PICK g : Sums(g, n, f)
    BY <2>6, SumsExist, Zenon
  <2>8. g[n] \in Nat
    BY <2>7 DEF Sums
  <2>9. ItemsBytesAre(order, g[n])
    BY <1>2, <2>1, <2>2, <2>4, <2>7 DEF ItemsBytesAre
  <2> QED BY <2>8, <2>9
<1> QED BY <1>1, <1>2

(* The walk over the sizes of an order counts what packing appends.        *)
LEMMA StringBytesPacked ==
  ASSUME NEW order \in Order, NEW bytes \in Nat, ItemsBytesAre(order, bytes)
  PROVE  StringBytes(order) = OrderBytes(order, bytes)
<1>1. PICK a \in Strs, b \in Strs, c \in Strs, d \in Strs,
           p \in Strs, q \in Strs, r \in Strs, s \in Strs :
        /\ a = order["orderID"] /\ b = order["createdAt"] /\ c = order["status"]
        /\ d = order["paymentMethod"] /\ p = order["buyerName"] /\ q = order["city"]
        /\ r = order["address"] /\ s = order["remark"]
  BY OrderIs DEF Strs, OrderStrings
<1>2. PICK x : x = <<a, b, c, d, p, q, r, s>>
  BY Zenon
<1>3. PICK na \in Nat, nb \in Nat, nc \in Nat, nd \in Nat,
           np \in Nat, nq \in Nat, nr \in Nat, ns \in Nat :
        /\ na = Len(a) /\ nb = Len(b) /\ nc = Len(c) /\ nd = Len(d)
        /\ np = Len(p) /\ nq = Len(q) /\ nr = Len(r) /\ ns = Len(s)
  <2>1. \A t \in Strs : Len(t) \in Nat
    BY DEF Strs
  <2> QED BY <2>1, Zenon
<1>4. HaveBytes(x, na + nb + nc + nd + np + nq + nr + ns)
  <2>1. HaveBytes(<<a, b, c, d, p, q, r, s>>,
                  Len(a) + Len(b) + Len(c) + Len(d) + Len(p) + Len(q) + Len(r) + Len(s))
    BY BytesOfEight, ZenonT(60)
  <2> QED BY <1>2, <1>3, <2>1, Zenon
<1>5. PICK y : y = IF order.trackingNo = Nil THEN <<>> ELSE << order.trackingNo >>
  BY Zenon
<1>6. HaveBytes(y, TrackingBytes(order))
  <2>1. CASE order.trackingNo = Nil
    BY <1>5, <2>1, NothingHasNoBytes DEF TrackingBytes
  <2>2. CASE order.trackingNo # Nil
    <3>1. PICK t \in Strs : t = order["trackingNo"]
      BY <2>2, OrderIs, Zenon DEF Strs
    <3>2. y = <<t>> /\ TrackingBytes(order) = Len(t)
      BY <1>5, <2>2, <3>1 DEF TrackingBytes
    <3> QED BY <3>2, BytesOfOne
  <2> QED BY <2>1, <2>2
<1>7. PICK z : z = IF order.items = Nil THEN <<>>
                   ELSE FlattenSeq([i \in 1 .. Len(order.items) |->
                                      << order.items[i].sku, order.items[i].title >>])
  BY Zenon
<1>8. HaveBytes(z, bytes)
  <2>1. CASE order.items = Nil
    <3>1. bytes = 0
      BY <2>1 DEF ItemsBytesAre
    <3> QED BY <1>7, <2>1, <3>1, NothingHasNoBytes
  <2>2. CASE order.items # Nil
    <3>1. PICK items \in Seq(Item) : items = order["items"]
      BY <2>2, OrderIs
    <3>2. PICK n \in Nat : n = Len(items)
      OBVIOUS
    <3>3. PICK g, f : /\ Sums(g, n, f)
                      /\ \A i \in 1 .. n : f[i] = ItemBytesTo(items[i], 9)
                      /\ bytes = g[n]
      BY <2>2, <3>1, <3>2 DEF ItemsBytesAre
    <3>4. PICK seqs : seqs = [i \in 1 .. n |-> << items[i].sku, items[i].title >>]
      BY Zenon
    <3>5. z = FlattenSeq(seqs)
      BY <1>7, <2>2, <3>1, <3>2, <3>4
    <3>6. ASSUME NEW i \in 1 .. n PROVE HaveBytes(seqs[i], f[i])
      <4>1. PICK item \in Item : item = items[i]
        BY <3>2
      <4>2. PICK u \in Strs, v \in Strs : u = item["sku"] /\ v = item["title"]
        BY ItemIs, Zenon DEF Strs
      <4>3. PICK nu \in Nat, nv \in Nat : nu = Len(u) /\ nv = Len(v)
        BY DEF Strs
      <4>4. seqs[i] = <<u, v>>
        BY <3>4, <4>1, <4>2
      <4>5. f[i] = nu + nv
        <5>1. f[i] = ItemBytesTo(item, 9)
          BY <3>3, <4>1
        <5>2. Len(item["sku"]) = nu /\ Len(item["title"]) = nv
          BY <4>2, <4>3
        <5>3. ItemBytesTo(item, 9) = nu + nv
          BY <5>2 DEF ItemBytesTo
        <5> QED BY <5>1, <5>3
      <4>6. HaveBytes(<<u, v>>, nu + nv)
        BY <4>3, BytesOfTwo, Zenon
      <4> QED BY <4>4, <4>5, <4>6
    <3>7. Len(seqs) = n /\ DOMAIN seqs = 1 .. n /\ seqs = [k \in 1 .. n |-> seqs[k]]
      BY <3>4
    <3>8. HaveBytes(FlattenSeq(seqs), g[n])
      BY <3>3, <3>6, <3>7, BytesOfFlat, Zenon
    <3> QED BY <3>3, <3>5, <3>8
  <2> QED BY <2>1, <2>2
<1>9. PICK t \in Nat : t = TrackingBytes(order)
  BY OrderTyped
<1>10. PICK eight \in Nat : eight = na + nb + nc + nd + np + nq + nr + ns
  OBVIOUS
<1>11. HaveBytes(x \o y, eight + t)
  BY <1>4, <1>6, <1>9, <1>10, BytesOfBoth
<1>12. HaveBytes((x \o y) \o z, (eight + t) + bytes)
  BY <1>8, <1>11, BytesOfBoth
<1>13. Strings(order) = (x \o y) \o z
  <2>1. x = << order.orderID, order.createdAt, order.status, order.paymentMethod,
               order.buyerName, order.city, order.address, order.remark >>
    BY <1>1, <1>2
  <2> QED BY <1>5, <1>7, <2>1, Zenon DEF Strings
<1>14. StringBytes(order) = (eight + t) + bytes
  BY <1>12, <1>13, StringBytesIs, Zenon
<1>15. OrderBytes(order, bytes) = na + nb + nc + nd + np + nq + nr + t + bytes + ns
  BY <1>1, <1>3, <1>9 DEF OrderBytes
<1> QED BY <1>10, <1>14, <1>15

(* Hence the bytes of an order are a number.                               *)
LEMMA StringBytesTyped ==
  ASSUME NEW order \in Order
  PROVE  StringBytes(order) \in Nat
<1>1. PICK bytes \in Nat : ItemsBytesAre(order, bytes)
  BY ItemsBytesExist
<1>2. StringBytes(order) = OrderBytes(order, bytes)
  BY <1>1, StringBytesPacked
<1>3. PICK na \in Nat, nb \in Nat, nc \in Nat, nd \in Nat,
           np \in Nat, nq \in Nat, nr \in Nat, ns \in Nat :
        /\ na = Len(order["orderID"]) /\ nb = Len(order["createdAt"])
        /\ nc = Len(order["status"]) /\ nd = Len(order["paymentMethod"])
        /\ np = Len(order["buyerName"]) /\ nq = Len(order["city"])
        /\ nr = Len(order["address"]) /\ ns = Len(order["remark"])
  BY OrderTyped, Zenon DEF OrderStrings
<1>4. PICK t \in Nat : t = TrackingBytes(order)
  BY OrderTyped
<1>5. OrderBytes(order, bytes) = na + nb + nc + nd + np + nq + nr + t + bytes + ns
  BY <1>3, <1>4 DEF OrderBytes
<1> QED BY <1>2, <1>5

SumsOf(b, n, g, h) == Sums(g, n, ItemCounts(b)) /\ Sums(h, n, ByteCounts(b))

(* The totals of packedCapacities are the sums over all orders.            *)
LEMMA TotalsAre ==
  ASSUME NEW b \in Seq(Order), NEW n \in Nat, n = Len(b)
  PROVE  \E g, h : SumsOf(b, n, g, h) /\ ItemTotal(b) = g[n] /\ StringTotal(b) = h[n]
<1>1. \A k \in 1 .. n : b[k] \in Order
  OBVIOUS
<1>2. ASSUME NEW k \in 1 .. n
      PROVE  ItemCounts(b)[k] \in Nat /\ ByteCounts(b)[k] \in Nat
  BY <1>1, OrderTyped, StringBytesTyped, Zenon DEF ItemCounts, ByteCounts
<1>3. PICK g : Sums(g, n, ItemCounts(b)) /\ ItemTotal(b) = g[n]
  BY <1>2, ItemTotalIs
<1>4. PICK h : Sums(h, n, ByteCounts(b)) /\ StringTotal(b) = h[n]
  BY <1>2, StringTotalIs
<1> QED BY <1>3, <1>4 DEF SumsOf

LEMMA TotalsTyped ==
  ASSUME NEW b \in Seq(Order)
  PROVE  ItemTotal(b) \in Nat /\ StringTotal(b) \in Nat
<1>1. PICK n \in Nat : n = Len(b)
  OBVIOUS
<1>2. PICK g, h : SumsOf(b, n, g, h) /\ ItemTotal(b) = g[n] /\ StringTotal(b) = h[n]
  BY <1>1, TotalsAre
<1>3. n \in 0 .. n
  OBVIOUS
<1> QED BY <1>2, <1>3 DEF SumsOf, Sums

(* What reset makes of a workspace; ni and ns are what is allocated for.   *)
ResetTo(p, q, b, ni, ns) ==
  /\ IsPacked(q)
  /\ q.array = ResetArray(p.array, Count(b))
  /\ q.count = Count(b)
  /\ q.items = <<>>
  /\ q.itemCap = ResetCap(p.itemCap, ni)
  /\ q.strings = <<>>
  /\ q.stringCap = ResetCap(p.stringCap, ns)
  /\ q.ordersNull = (b = Nil)

(* reset empties the arrays and keeps a row per order; Pack asks for arrays *)
(* as long as the totals.                                                  *)
LEMMA ResetIs ==
  ASSUME PackInv, Reset
  PROVE  \E ni, ns \in Nat :
           /\ ResetTo(ws, ws', batch, ni, ns)
           /\ entry = "Pack" /\ batch # Nil => ni = ItemTotal(batch) /\ ns = StringTotal(batch)
           /\ batch = Nil => ni = 0 /\ ns = 0
<1>1. PICK a, c, i, ic, s, sc, on, sp, m :
        ws = [array |-> a, count |-> c, items |-> i, itemCap |-> ic, strings |-> s,
              stringCap |-> sc, ordersNull |-> on, stringsPlain |-> sp, maxOutput |-> m]
  BY DEF PackInv, Typed, IsPacked
<1>2. /\ a \in Seq(OrderRow) /\ ic \in Nat /\ sc \in Nat
      /\ batch \in Batch /\ entry \in {"Marshal", "Pack"}
  BY <1>1 DEF PackInv, Typed, IsPacked
<1>3. batch # Nil => ItemTotal(batch) \in Nat /\ StringTotal(batch) \in Nat
  BY <1>2, TotalsTyped DEF Batch
<1>4. PICK ni \in Nat, ns \in Nat :
        /\ ni = IF entry = "Marshal" \/ batch = Nil THEN 0 ELSE ItemTotal(batch)
        /\ ns = IF entry = "Marshal" \/ batch = Nil THEN 0 ELSE StringTotal(batch)
  BY <1>3
<1>5. PICK n \in Nat : n = Count(batch)
  BY <1>2, CountIs
<1>6. ws' = [ws EXCEPT !.array = ResetArray(@, Count(batch)),
                       !.count = Count(batch), !.items = <<>>,
                       !.itemCap = ResetCap(@, ni),
                       !.strings = <<>>,
                       !.stringCap = ResetCap(@, ns),
                       !.stringsPlain = TRUE,
                       !.maxOutput = 0, !.ordersNull = (batch = Nil)]
  BY <1>4 DEF Reset
<1>7. PICK a2, i2, s2, null : /\ a2 = ResetArray(a, n) /\ i2 = ResetCap(ic, ni)
                              /\ s2 = ResetCap(sc, ns) /\ null = (batch = Nil)
  OBVIOUS
<1>8. ws' = [array |-> a2, count |-> n, items |-> <<>>, itemCap |-> i2, strings |-> <<>>,
             stringCap |-> s2, ordersNull |-> null, stringsPlain |-> TRUE, maxOutput |-> 0]
  BY <1>1, <1>5, <1>6, <1>7, Zenon
<1>9. a2 \in Seq(OrderRow) /\ i2 \in Nat /\ s2 \in Nat
  BY <1>2, <1>7, ResetArrayIs DEF ResetCap
<1>10. <<>> \in Seq(ItemRow) /\ <<>> \in Seq(Bytes)
  OBVIOUS
<1>11. IsPacked(ws')
  BY <1>8, <1>9, <1>10 DEF IsPacked
<1>12. ResetTo(ws, ws', batch, ni, ns)
  BY <1>1, <1>5, <1>7, <1>8, <1>11 DEF ResetTo
<1> QED BY <1>4, <1>12

(* reset and the prefix; nothing is packed yet.                            *)
LEMMA ResetPacks ==
  ASSUME PackInv, Reset
  PROVE  PackInv'
<1>1. PICK ni, ns \in Nat : ResetTo(ws, ws', batch, ni, ns)
  BY ResetIs
<1>2. /\ phase = "reset" /\ stage' = stage /\ batch' = batch /\ entry' = entry
      /\ pooled' = pooled /\ next' = 0 /\ phase' \in {"pack", "done"}
  BY DEF Reset, Refused, nativeVars
<1>3. stage # "returned"
  BY <1>2 DEF PackInv, CalledFirst
<1>4. Typed'
  BY <1>1, <1>2 DEF PackInv, Typed, ResetTo
<1>5. ASSUME phase' = "pack" PROVE HoldsBatch(ws', batch', RowsInUse')
  <2>1. PICK n \in Nat : n = Count(batch)
    BY CountIs DEF PackInv, Typed
  <2>2. RowsInUse' = 0
    BY <1>2, <1>5 DEF RowsInUse
  <2>3. ws.array \in Seq(OrderRow)
    BY DEF PackInv, Typed, IsPacked
  <2>4. ws'.count = n /\ n <= Len(ws'.array) /\ ws'.ordersNull = (batch = Nil)
    BY <1>1, <2>1, <2>3, ResetArrayIs DEF ResetTo
  <2> QED BY <1>2, <2>1, <2>2, <2>4 DEF HoldsBatch
<1> QED BY <1>2, <1>3, <1>4, <1>5 DEF PackInv, BatchIsHeld, InUse, CalledFirst

(* What packing an order into row k makes of a workspace.                  *)
OrderInto(p, q, k, order, err) ==
  /\ IsPacked(q)
  /\ q.count = p.count
  /\ q.ordersNull = p.ordersNull
  /\ Len(q.array) = Len(p.array)
  /\ \A i \in 1 .. Len(p.array) : i # k => q.array[i] = p.array[i]
  /\ Grows(p.items, q.items)
  /\ Grows(p.strings, q.strings)
  /\ Len(q.items) <= p.itemCap => q.itemCap = p.itemCap
  /\ Len(q.strings) <= p.stringCap => q.stringCap = p.stringCap
  /\ err = "none" =>
       /\ RowHeld(q.array[k], q.items, q.strings, order)
       /\ Len(q.items) = Len(p.items) + Count(order.items)
       /\ Len(q.strings) = Len(p.strings) + StringBytes(order)

LEMMA NextOrder ==
  ASSUME PackInv, PackOrder
  PROVE  /\ next \in Nat
         /\ next + 1 \in 1 .. Count(batch)
         /\ next + 1 \in 1 .. Len(ws.array)
         /\ batch[next + 1] \in Order
<1>1. phase = "pack" /\ next < Count(batch)
  BY DEF PackOrder
<1>2. HoldsBatch(ws, batch, next)
  BY <1>1 DEF PackInv, BatchIsHeld, InUse, RowsInUse
<1>3. PICK n \in Nat : n = Count(batch) /\ \A i \in 1 .. n : batch[i] \in Order
  BY CountIs DEF PackInv, Typed
<1>4. next \in 0 .. n /\ n <= Len(ws.array)
  BY <1>2, <1>3 DEF HoldsBatch
<1>5. Len(ws.array) \in Nat
  BY DEF PackInv, Typed, IsPacked
<1> QED BY <1>1, <1>3, <1>4, <1>5

(* One order into its row of the array: the other rows stay.               *)
LEMMA PackOrderIs ==
  ASSUME PackInv, PackOrder
  PROVE  \E err :
           /\ OrderInto(ws, ws', next + 1, batch[next + 1], err)
           /\ IF err = "none" THEN next' = next + 1 /\ UNCHANGED phase
              ELSE phase' = "done"
<1>1. PICK a, c, i, ic, s, sc, on, sp, m :
        ws = [array |-> a, count |-> c, items |-> i, itemCap |-> ic, strings |-> s,
              stringCap |-> sc, ordersNull |-> on, stringsPlain |-> sp, maxOutput |-> m]
  BY DEF PackInv, Typed, IsPacked
<1>2. /\ a \in Seq(OrderRow) /\ i \in Seq(ItemRow) /\ ic \in Nat
      /\ s \in Seq(Bytes) /\ sc \in Nat /\ sp \in BOOLEAN
  BY <1>1 DEF PackInv, Typed, IsPacked
<1>3. PICK k \in 1 .. Len(a), order \in Order : k = next + 1 /\ order = batch[k]
  BY <1>1, NextOrder
<1>4. PICK row \in OrderRow : row = a[k]
  BY <1>2
<1>5. PICK start : start = [row |-> row, items |-> i, itemCap |-> ic, strings |-> s,
                            stringCap |-> sc, plain |-> sp, size |-> size, err |-> "none"]
  BY Zenon
<1>6. PICK comma : comma = IF next > 0 THEN Add(start, 1) ELSE start
  OBVIOUS
<1>7. PICK b : b = IF comma.err # "none" THEN comma
                   ELSE PackOrderInto(comma, order, Validates)
  OBVIOUS
<1>8. /\ ws' = [ws EXCEPT !.array[k] = b.row,
                          !.items = b.items, !.itemCap = b.itemCap,
                          !.strings = b.strings, !.stringCap = b.stringCap,
                          !.stringsPlain = b.plain]
      /\ IF b.err = "none" THEN next' = next + 1 /\ UNCHANGED phase
         ELSE phase' = "done"
  <2> DEFINE first == [row |-> ws.array[next + 1], items |-> ws.items,
                       itemCap |-> ws.itemCap, strings |-> ws.strings,
                       stringCap |-> ws.stringCap, plain |-> ws.stringsPlain,
                       size |-> size, err |-> "none"]
             second == IF next > 0 THEN Add(first, 1) ELSE first
             third == IF second.err # "none" THEN second
                      ELSE PackOrderInto(second, batch[next + 1], Validates)
  <2>1. /\ ws' = [ws EXCEPT !.array[next + 1] = third.row,
                            !.items = third.items, !.itemCap = third.itemCap,
                            !.strings = third.strings, !.stringCap = third.stringCap,
                            !.stringsPlain = third.plain]
        /\ IF third.err = "none" THEN next' = next + 1 /\ UNCHANGED <<phase, result>>
           ELSE Refused(third.err) /\ next' = 0
    BY DEF PackOrder
  <2>2. first = start
    BY <1>1, <1>3, <1>4, <1>5
  <2> HIDE DEF first
  <2>3. second = comma
    BY <1>6, <2>2
  <2> HIDE DEF second
  <2>4. third = b
    BY <1>3, <1>7, <2>3
  <2> HIDE DEF third
  <2> QED BY <1>3, <2>1, <2>4 DEF Refused
<1>9. Builder(start, OrderRow) /\ start.items = i /\ start.strings = s
      /\ start.itemCap = ic /\ start.stringCap = sc
  BY <1>2, <1>5 DEF Builder
<1>10. /\ Builder(comma, OrderRow) /\ Later(start, comma)
       /\ comma.items = i /\ comma.strings = s
  BY <1>6, <1>9, AddIs, LaterItself
<1>11. PICK bytes \in Nat : ItemsBytesAre(order, bytes)
  BY ItemsBytesExist
<1>12. /\ Builder(b, OrderRow) /\ Later(start, b)
       /\ b.err = "none" =>
            /\ OrderHeld(b, order)
            /\ Len(b.items) = Len(i) + Count(order.items)
            /\ Len(b.strings) = Len(s) + StringBytes(order)
  <2>1. CASE comma.err # "none"
    BY <1>7, <1>10, <2>1
  <2>2. CASE comma.err = "none"
    <3>1. OrderPacked(comma, b, order, bytes)
      BY <1>7, <1>10, <1>11, <2>2, PackOrderFills
    <3>2. Builder(b, OrderRow) /\ Later(comma, b)
      BY <3>1 DEF OrderPacked
    <3>3. Later(start, b)
      BY <1>9, <1>10, <3>2, LaterStill
    <3>4. StringBytes(order) = OrderBytes(order, bytes)
      BY <1>11, StringBytesPacked
    <3> QED BY <1>10, <3>1, <3>2, <3>3, <3>4 DEF OrderPacked
  <2> QED BY <2>1, <2>2
<1>13. PICK br, bi, bic, bs, bsc, bp, be :
         /\ br = b.row /\ bi = b.items /\ bic = b.itemCap
         /\ bs = b.strings /\ bsc = b.stringCap /\ bp = b.plain /\ be = b.err
         /\ br \in OrderRow /\ bi \in Seq(ItemRow) /\ bic \in Nat
         /\ bs \in Seq(Bytes) /\ bsc \in Nat /\ bp \in BOOLEAN
  BY <1>12 DEF Builder
<1>14. PICK a2 : a2 = [a EXCEPT ![k] = br]
  BY Zenon
<1>15. ws' = [array |-> a2, count |-> c, items |-> bi, itemCap |-> bic, strings |-> bs,
              stringCap |-> bsc, ordersNull |-> on, stringsPlain |-> bp, maxOutput |-> m]
  BY <1>1, <1>8, <1>13, <1>14, Zenon
<1>16. /\ a2 \in Seq(OrderRow) /\ Len(a2) = Len(a) /\ a2[k] = br
       /\ \A j \in 1 .. Len(a) : j # k => a2[j] = a[j]
  BY <1>2, <1>3, <1>13, <1>14, ExceptSeq
<1>17. IsPacked(ws')
  BY <1>13, <1>15, <1>16 DEF IsPacked
<1>18. /\ Grows(i, bi) /\ Grows(s, bs)
       /\ Len(bi) <= ic => bic = ic
       /\ Len(bs) <= sc => bsc = sc
  BY <1>9, <1>12, <1>13 DEF Later
<1>19. be = "none" => RowHeld(br, bi, bs, order)
  BY <1>12, <1>13, HeldNow
<1>20. OrderInto(ws, ws', k, order, be)
  BY <1>1, <1>12, <1>13, <1>15, <1>16, <1>17, <1>18, <1>19 DEF OrderInto
<1> QED BY <1>3, <1>8, <1>13, <1>20

(* The orders packed so far are held, and this one too, or the packing     *)
(* has failed.                                                             *)
LEMMA PackOrderPacks ==
  ASSUME PackInv, PackOrder
  PROVE  PackInv'
<1>1. PICK err :
        /\ OrderInto(ws, ws', next + 1, batch[next + 1], err)
        /\ IF err = "none" THEN next' = next + 1 /\ UNCHANGED phase
           ELSE phase' = "done"
  BY PackOrderIs
<1>2. /\ phase = "pack" /\ stage' = stage /\ batch' = batch /\ entry' = entry
      /\ pooled' = pooled
  BY DEF PackOrder, nativeVars
<1>3. stage # "returned"
  BY <1>2 DEF PackInv, CalledFirst
<1>4. Typed'
  BY <1>1, <1>2 DEF PackInv, Typed, OrderInto
<1>5. ASSUME err = "none" PROVE HoldsBatch(ws', batch', RowsInUse')
  <2>1. PICK k \in Nat : k = next /\ k + 1 \in 1 .. Count(batch)
                         /\ k + 1 \in 1 .. Len(ws.array)
    BY NextOrder
  <2>2. HoldsBatch(ws, batch, k)
    BY <1>2, <2>1 DEF PackInv, BatchIsHeld, InUse, RowsInUse
  <2>3. RowsInUse' = k + 1
    BY <1>1, <1>2, <1>5, <2>1 DEF RowsInUse
  <2>4. PICK q : q = ws'
    OBVIOUS
  <2>5. OrderInto(ws, q, k + 1, batch[k + 1], err)
    BY <1>1, <2>1, <2>4
  <2>6. ASSUME NEW j \in 1 .. k + 1
        PROVE  RowHeld(q.array[j], q.items, q.strings, batch[j])
    <3>1. CASE j = k + 1
      BY <1>5, <2>5, <3>1 DEF OrderInto
    <3>2. CASE j # k + 1
      <4>1. j \in 1 .. k /\ j \in 1 .. Len(ws.array)
        BY <2>1, <3>2
      <4>2. q.array[j] = ws.array[j]
        BY <2>5, <3>2, <4>1 DEF OrderInto
      <4>3. RowHeld(ws.array[j], ws.items, ws.strings, batch[j])
        BY <2>2, <4>1 DEF HoldsBatch
      <4>4. /\ ws.array[j] \in OrderRow /\ ws.items \in Seq(ItemRow)
            /\ ws.strings \in Seq(Bytes)
        BY <4>1 DEF PackInv, Typed, IsPacked
      <4>5. /\ q.items \in Seq(ItemRow) /\ q.strings \in Seq(Bytes)
            /\ Grows(ws.items, q.items) /\ Grows(ws.strings, q.strings)
        BY <2>5 DEF OrderInto, IsPacked
      <4>6. RowHeld(ws.array[j], q.items, q.strings, batch[j])
        BY <4>3, <4>4, <4>5, HeldLater
      <4> QED BY <4>2, <4>6
    <3> QED BY <3>1, <3>2
  <2>7. /\ q.count = Count(batch) /\ q.count <= Len(q.array)
        /\ q.ordersNull = (batch = Nil)
    BY <2>2, <2>5 DEF HoldsBatch, OrderInto
  <2>8. k + 1 \in 0 .. Count(batch)
    BY <2>1
  <2>9. HoldsBatch(q, batch, k + 1)
    BY <2>6, <2>7, <2>8 DEF HoldsBatch
  <2> QED BY <1>2, <2>3, <2>4, <2>9
<1>6. err # "none" => ~InUse'
  BY <1>1, <1>2, <1>3 DEF InUse
<1>7. BatchIsHeld'
  BY <1>5, <1>6 DEF BatchIsHeld
<1> QED BY <1>2, <1>3, <1>4, <1>7 DEF PackInv, CalledFirst

(* The suffix and the checks at the end change no data.                    *)
LEMMA FinishPackPacks ==
  ASSUME PackInv, FinishPack
  PROVE  PackInv'
<1>1. /\ phase = "pack" /\ next = Count(batch) /\ stage' = stage /\ batch' = batch
      /\ entry' = entry /\ pooled' = pooled
      /\ \/ phase' = "packed" /\ \E n : ws' = [ws EXCEPT !.maxOutput = n]
         \/ phase' = "done" /\ ws' = ws
  BY DEF FinishPack, Refused, nativeVars
<1>2. stage # "returned"
  BY <1>1 DEF PackInv, CalledFirst
<1>3. CASE phase' = "done" /\ ws' = ws
  <2>1. Typed'
    BY <1>1, <1>3 DEF PackInv, Typed
  <2> QED BY <1>1, <1>2, <1>3, <2>1 DEF PackInv, BatchIsHeld, InUse, CalledFirst
<1>4. CASE phase' = "packed" /\ \E n : ws' = [ws EXCEPT !.maxOutput = n]
  <2>1. PICK n : ws' = [ws EXCEPT !.maxOutput = n]
    BY <1>4, Zenon
  <2>2. PICK a, c, i, ic, s, sc, on, sp, m :
          ws = [array |-> a, count |-> c, items |-> i, itemCap |-> ic, strings |-> s,
                stringCap |-> sc, ordersNull |-> on, stringsPlain |-> sp, maxOutput |-> m]
    BY DEF PackInv, Typed, IsPacked
  <2>3. ws' = [array |-> a, count |-> c, items |-> i, itemCap |-> ic, strings |-> s,
               stringCap |-> sc, ordersNull |-> on, stringsPlain |-> sp, maxOutput |-> n]
    BY <2>1, <2>2
  <2>4. /\ ws'.array = ws.array /\ ws'.count = ws.count /\ ws'.items = ws.items
        /\ ws'.strings = ws.strings /\ ws'.ordersNull = ws.ordersNull
    BY <2>2, <2>3
  <2>5. IsPacked(ws')
    BY <2>2, <2>3 DEF PackInv, Typed, IsPacked
  <2>6. Typed'
    BY <1>1, <1>4, <2>5 DEF PackInv, Typed
  <2>7. HoldsBatch(ws, batch, Count(batch))
    BY <1>1 DEF PackInv, BatchIsHeld, InUse, RowsInUse
  <2>8. HoldsBatch(ws', batch, Count(batch))
    BY <2>4, <2>7 DEF HoldsBatch
  <2>9. RowsInUse' = Count(batch)
    BY <1>1, <1>4 DEF RowsInUse
  <2>10. HoldsBatch(ws', batch', RowsInUse')
    BY <1>1, <2>8, <2>9
  <2> QED BY <1>1, <1>2, <1>4, <2>6, <2>10 DEF PackInv, BatchIsHeld, CalledFirst
<1> QED BY <1>1, <1>3, <1>4

(* Encoding leaves the workspace alone.                                    *)
LEMMA EncodingPacks ==
  ASSUME PackInv, Encode \/ EncodeStep \/ Encoded \/ MarshalAgain
  PROVE  PackInv'
<1>1. batch' = batch /\ entry' = entry /\ pooled' = pooled /\ ws' = ws
  BY DEF Encode, EncodeStep, Encoded, MarshalAgain, packVars
<1>2. \/ phase = "packed" /\ phase' = "encode"
      \/ phase = "encode" /\ phase' = "encode"
      \/ phase = "encode" /\ phase' = "done" /\ stage = "returned" /\ stage' = stage
      \/ phase = "done" /\ phase' = "packed" /\ stage = "returned" /\ stage' = "outside"
  BY DEF Encode, EncodeStep, Encoded, MarshalAgain, packVars, nativeVars, Exit
<1>3. Typed'
  BY <1>1, <1>2 DEF PackInv, Typed
<1>4. InUse /\ InUse' /\ RowsInUse = Count(batch) /\ RowsInUse' = Count(batch)
  BY <1>1, <1>2 DEF InUse, RowsInUse
<1>5. HoldsBatch(ws', batch', RowsInUse')
  BY <1>1, <1>4 DEF PackInv, BatchIsHeld
<1>6. CalledFirst'
  BY <1>2 DEF CalledFirst
<1> QED BY <1>3, <1>5, <1>6 DEF PackInv, BatchIsHeld

LEMMA FinishPacks ==
  ASSUME PackInv, Finish
  PROVE  PackInv'
<1>1. /\ phase' = "idle" /\ ws' = NewWorkspace /\ batch' = Nil /\ entry' = "Marshal"
      /\ pooled' \in {pooled, Workspace(ws.array, ws.itemCap, ws.stringCap)}
      /\ stage' # "returned"
  BY DEF Finish, Release, Exit, nativeVars
<1>2. IsPacked(Workspace(ws.array, ws.itemCap, ws.stringCap))
  BY WorkspaceIs DEF PackInv, Typed, IsPacked
<1>3. Typed'
  BY <1>1, <1>2, NewWorkspaceIs DEF PackInv, Typed, Batch
<1> QED BY <1>1, <1>3 DEF PackInv, BatchIsHeld, InUse, CalledFirst

(* The invariant, one lemma per action above.                              *)
LEMMA PackInvStep == PackInv /\ [Next]_vars => PackInv'
<1> SUFFICES ASSUME PackInv, [Next]_vars PROVE PackInv'
  OBVIOUS
<1>1. CASE Call
  BY <1>1, CallPacks
<1>2. CASE TooLarge
  BY <1>2, TooLargePacks
<1>3. CASE Reset
  BY <1>3, ResetPacks
<1>4. CASE PackOrder
  BY <1>4, PackOrderPacks
<1>5. CASE FinishPack
  BY <1>5, FinishPackPacks
<1>6. CASE Encode \/ EncodeStep \/ Encoded \/ MarshalAgain
  BY <1>6, EncodingPacks
<1>7. CASE Finish
  BY <1>7, FinishPacks
<1>8. CASE UNCHANGED vars
  BY <1>8 DEF vars, packVars, nativeVars, PackInv, Typed, BatchIsHeld, CalledFirst,
              InUse, RowsInUse
<1> QED BY <1>1, <1>2, <1>3, <1>4, <1>5, <1>6, <1>7, <1>8 DEF Next

LEMMA PackInvariance == Spec => []PackInv
BY PackInitially, PackInvStep, PTL DEF Spec

(* What is held reads back as the batch.                                   *)
LEMMA BatchReads ==
  ASSUME PackInv, phase \in {"packed", "encode"}
  PROVE  PackedWell
<1>1. HoldsBatch(ws, batch, Count(batch))
  BY DEF PackInv, BatchIsHeld, InUse, RowsInUse
<1>2. CASE batch = Nil
  BY <1>1, <1>2, Zenon DEF HoldsBatch, PackedWell
<1>3. CASE batch # Nil
  <2>1. PICK n \in Nat : n = Len(batch) /\ Count(batch) = n /\ batch \in Seq(Order)
    BY <1>3 DEF PackInv, Typed, Batch, Count
  <2>2. ws.count = n /\ n <= Len(ws.array) /\ ~ws.ordersNull
    BY <1>1, <1>3, <2>1, Zenon DEF HoldsBatch
  <2>3. ASSUME NEW i \in 1 .. n PROVE OrderOf(ws.array[i]) = batch[i]
    <3>1. RowHeld(ws.array[i], ws.items, ws.strings, batch[i])
      BY <1>1, <2>1 DEF HoldsBatch
    <3>2. batch[i] \in Order
      BY <2>1
    <3>3. ws.array[i] \in OrderRow
      BY <2>2 DEF PackInv, Typed, IsPacked
    <3> QED BY <3>1, <3>2, <3>3, HeldReads
  <2>4. batch = [i \in 1 .. n |-> batch[i]]
    BY <2>1
  <2>5. batch = [i \in 1 .. n |-> OrderOf(ws.array[i])]
    BY <2>3, <2>4
  <2> QED BY <2>2, <2>5 DEF PackedWell
<1> QED BY <1>2, <1>3

(* What is packed is the batch, for any batches, any number of calls and   *)
(* any history of the pooled workspace: read back through their 32-bit     *)
(* references, ranges and flags, the rows in use are the orders that       *)
(* Marshal or Pack was given (packed.go:41-219).                           *)
THEOREM PacksTheBatch == Spec => []PackedWell
<1>1. PackInv => PackedWell
  BY BatchReads DEF PackedWell
<1> QED BY <1>1, PackInvariance, PTL

(* A workspace enters the pool only through Release, with its test.        *)
LEMMA PoolStep ==
  ASSUME PackInv, PoolBounded, [Next]_vars
  PROVE  PoolBounded'
<1>1. CASE pooled' = pooled \/ pooled' = Nil
  BY <1>1 DEF PoolBounded
<1>2. CASE Finish /\ ~(RetainedBytes(ws) > MaxRetained)
  <2>1. /\ Len(ws.array) \in Nat /\ ws.itemCap \in Nat /\ ws.stringCap \in Nat
        /\ MaxRetained \in Nat
    BY PipelineAssumption DEF PackInv, Typed, IsPacked
  <2>2. 96 * Len(ws.array) + 32 * ws.itemCap + ws.stringCap <= MaxRetained
    BY <1>2, <2>1 DEF RetainedBytes
  <2>3. PICK p : p = Workspace(ws.array, ws.itemCap, ws.stringCap)
    OBVIOUS
  <2>4. p.array = ws.array /\ p.itemCap = ws.itemCap /\ p.stringCap = ws.stringCap
    BY <2>3 DEF Workspace
  <2>5. pooled' = pooled \/ pooled' = p
    BY <1>2, <2>3 DEF Finish, Release
  <2> QED BY <2>2, <2>4, <2>5 DEF PoolBounded
<1>3. CASE Finish /\ RetainedBytes(ws) > MaxRetained
  <2>1. pooled' = pooled
    BY <1>3 DEF Finish, Release
  <2> QED BY <2>1, <1>1
<1>4. Call \/ TooLarge \/ Reset \/ PackOrder \/ FinishPack \/ Encode \/ EncodeStep
        \/ Encoded \/ MarshalAgain \/ UNCHANGED vars
          => pooled' = pooled \/ pooled' = Nil
  BY DEF Call, Get, TooLarge, Reset, PackOrder, FinishPack, Encode, EncodeStep,
         Encoded, MarshalAgain, vars, packVars
<1> QED BY <1>1, <1>2, <1>3, <1>4 DEF Next

(* What stays allocated between calls never exceeds maxRetainedPackedBytes, *)
(* whatever was packed, completely or not, since the pool was created       *)
(* (encoder.go:61-69).                                                      *)
THEOREM PoolStaysBounded == Spec => []PoolBounded
<1>1. Init => PoolBounded
  BY DEF Init, PoolBounded
<1>2. PackInv /\ PoolBounded /\ [Next]_vars => PoolBounded'
  BY PoolStep
<1> QED BY <1>1, <1>2, PackInvariance, PTL DEF Spec

(* What Pack has filled of what it has allocated, after k orders.          *)
Allocated(p, b, k) ==
  \E g, h : /\ SumsOf(b, Count(b), g, h)
            /\ Len(p.items) = g[k]
            /\ p.itemCap = g[Count(b)]
            /\ Len(p.strings) = h[k]
            /\ p.stringCap = h[Count(b)]

AllocInv ==
  entry = "Pack" =>
    /\ phase = "reset" => ws.itemCap = 0 /\ ws.stringCap = 0
    /\ InUse => Allocated(ws, batch, RowsInUse)

(* What Pack has allocated is the totals, none of it is used yet.          *)
LEMMA ResetAllocates ==
  ASSUME PackInv, AllocInv, Reset, phase' = "pack", entry = "Pack"
  PROVE  Allocated(ws', batch, 0)
<1>1. PICK ni, ns \in Nat :
        /\ ResetTo(ws, ws', batch, ni, ns)
        /\ batch # Nil => ni = ItemTotal(batch) /\ ns = StringTotal(batch)
        /\ batch = Nil => ni = 0 /\ ns = 0
  BY ResetIs
<1>2. ws.itemCap = 0 /\ ws.stringCap = 0
  BY DEF AllocInv, Reset
<1>3. ws'.itemCap = ni /\ ws'.stringCap = ns
  BY <1>1, <1>2 DEF ResetTo, ResetCap
<1>4. ws'.items = <<>> /\ ws'.strings = <<>>
  BY <1>1 DEF ResetTo
<1>5. Len(ws'.items) = 0 /\ Len(ws'.strings) = 0
  BY <1>4
<1>6. CASE batch = Nil
  <2>1. PICK g : g = [k \in 0 .. 0 |-> 0]
    BY Zenon
  <2>2. g[0] = 0 /\ SumsOf(batch, 0, g, g)
    BY <2>1 DEF SumsOf, Sums
  <2>3. Count(batch) = 0
    BY <1>6 DEF Count
  <2> QED BY <1>1, <1>3, <1>5, <1>6, <2>2, <2>3 DEF Allocated
<1>7. CASE batch # Nil
  <2>1. PICK n \in Nat : n = Len(batch) /\ Count(batch) = n /\ batch \in Seq(Order)
    BY <1>7 DEF PackInv, Typed, Batch, Count
  <2>2. PICK g, h : SumsOf(batch, n, g, h) /\ ItemTotal(batch) = g[n]
                                           /\ StringTotal(batch) = h[n]
    BY <2>1, TotalsAre
  <2>3. g[0] = 0 /\ h[0] = 0
    BY <2>2 DEF SumsOf, Sums
  <2> QED BY <1>1, <1>3, <1>5, <1>7, <2>1, <2>2, <2>3 DEF Allocated
<1> QED BY <1>6, <1>7

(* An order needs as much as its share of the totals: nothing moves.       *)
LEMMA PackOrderAllocates ==
  ASSUME PackInv, AllocInv, PackOrder, phase' = "pack", entry = "Pack"
  PROVE  next' = next + 1 /\ Allocated(ws', batch, next + 1)
<1>1. PICK q : q = ws'
  OBVIOUS
<1>2. PICK k \in Nat : k = next
  BY NextOrder
<1>3. PICK n \in Nat : n = Count(batch) /\ k + 1 \in 1 .. n /\ batch[k + 1] \in Order
  BY <1>2, NextOrder, CountIs DEF PackInv, Typed
<1>4. next' = next + 1 /\ OrderInto(ws, q, k + 1, batch[k + 1], "none")
  BY <1>1, <1>2, PackOrderIs
<1>5. phase = "pack"
  BY DEF PackOrder
<1>6. Allocated(ws, batch, k)
  BY <1>2, <1>5 DEF AllocInv, InUse, RowsInUse
<1>7. PICK g, h : /\ SumsOf(batch, n, g, h)
                  /\ Len(ws.items) = g[k] /\ ws.itemCap = g[n]
                  /\ Len(ws.strings) = h[k] /\ ws.stringCap = h[n]
  BY <1>3, <1>6 DEF Allocated
<1>8. PICK f, m : f = ItemCounts(batch) /\ m = ByteCounts(batch)
  OBVIOUS
<1>9. Sums(g, n, f) /\ Sums(h, n, m)
  BY <1>7, <1>8 DEF SumsOf
<1>10. batch \in Seq(Order) /\ n = Len(batch)
  BY <1>3 DEF PackInv, Typed, Batch, Count
<1>11. \A j \in 1 .. n : f[j] = Count(batch[j].items) /\ m[j] = StringBytes(batch[j])
  BY <1>8, <1>10 DEF ItemCounts, ByteCounts
<1>12. \A j \in 1 .. n : f[j] \in Nat /\ m[j] \in Nat
  <2>1. \A j \in 1 .. n : batch[j] \in Order
    BY <1>10
  <2> QED BY <1>11, <2>1, OrderTyped, StringBytesTyped
<1>13. g[k + 1] = g[k] + f[k + 1] /\ h[k + 1] = h[k] + m[k + 1]
  <2>1. (k + 1) - 1 = k
    OBVIOUS
  <2> QED BY <1>3, <1>9, <2>1 DEF Sums
<1>14. g[k + 1] <= g[n] /\ h[k + 1] <= h[n]
  <2>1. k + 1 \in 0 .. n
    BY <1>3
  <2> QED BY <1>9, <1>12, <2>1, SumsGrow
<1>15. Len(q.items) = g[k + 1] /\ Len(q.strings) = h[k + 1]
  BY <1>3, <1>4, <1>7, <1>11, <1>13 DEF OrderInto
<1>16. q.itemCap = g[n] /\ q.stringCap = h[n]
  BY <1>4, <1>7, <1>14, <1>15 DEF OrderInto
<1>17. Allocated(q, batch, k + 1)
  BY <1>3, <1>7, <1>15, <1>16 DEF Allocated
<1> QED BY <1>1, <1>2, <1>4, <1>17

(* The invariant of the allocations, action by action.                     *)
LEMMA AllocStep ==
  ASSUME PackInv, AllocInv, [Next]_vars
  PROVE  AllocInv'
<1>1. CASE Call
  <2>1. entry' = "Pack" => ws' = NewWorkspace
    BY <1>1 DEF Call
  <2>2. NewWorkspace.itemCap = 0 /\ NewWorkspace.stringCap = 0
    BY DEF NewWorkspace, Workspace
  <2>3. phase' = "reset" /\ ~InUse'
    BY <1>1 DEF Call, InUse
  <2> QED BY <2>1, <2>2, <2>3 DEF AllocInv
<1>2. CASE TooLarge
  <2>1. phase = "reset" /\ phase' = "done" /\ stage' = stage
    BY <1>2 DEF TooLarge, Refused, nativeVars
  <2>2. ~InUse'
    BY <2>1 DEF PackInv, CalledFirst, InUse
  <2> QED BY <2>1, <2>2 DEF AllocInv
<1>3. CASE Reset
  <2>1. /\ phase = "reset" /\ phase' \in {"pack", "done"} /\ stage' = stage
        /\ batch' = batch /\ entry' = entry /\ next' = 0
    BY <1>3 DEF Reset, Refused, nativeVars
  <2>2. phase' = "done" => ~InUse'
    BY <2>1 DEF PackInv, CalledFirst, InUse
  <2>3. phase' = "pack" => RowsInUse' = 0
    BY <2>1 DEF RowsInUse
  <2> QED BY <1>3, <2>1, <2>2, <2>3, ResetAllocates DEF AllocInv
<1>4. CASE PackOrder
  <2>1. /\ phase = "pack" /\ stage' = stage /\ batch' = batch /\ entry' = entry
        /\ phase' \in {"pack", "done"}
    BY <1>4 DEF PackOrder, Refused, nativeVars
  <2>2. phase' = "done" => ~InUse'
    BY <2>1 DEF PackInv, CalledFirst, InUse
  <2>3. phase' = "pack" => RowsInUse' = next'
    BY <2>1 DEF RowsInUse
  <2> QED BY <1>4, <2>1, <2>2, <2>3, PackOrderAllocates DEF AllocInv
<1>5. CASE FinishPack
  <2>1. /\ phase = "pack" /\ next = Count(batch) /\ stage' = stage /\ batch' = batch
        /\ entry' = entry
        /\ \/ phase' = "packed" /\ \E n : ws' = [ws EXCEPT !.maxOutput = n]
           \/ phase' = "done" /\ ws' = ws
    BY <1>5 DEF FinishPack, Refused, nativeVars
  <2>2. CASE phase' = "done"
    <3>1. ~InUse'
      BY <2>1, <2>2 DEF PackInv, CalledFirst, InUse
    <3> QED BY <2>2, <3>1 DEF AllocInv
  <2>3. CASE phase' = "packed" /\ entry = "Pack"
    <3>1. PICK n : ws' = [ws EXCEPT !.maxOutput = n]
      BY <2>1, <2>3
    <3>2. PICK a, c, i, ic, s, sc, on, sp, m :
            ws = [array |-> a, count |-> c, items |-> i, itemCap |-> ic, strings |-> s,
                  stringCap |-> sc, ordersNull |-> on, stringsPlain |-> sp, maxOutput |-> m]
      BY DEF PackInv, Typed, IsPacked
    <3>3. ws' = [array |-> a, count |-> c, items |-> i, itemCap |-> ic, strings |-> s,
                 stringCap |-> sc, ordersNull |-> on, stringsPlain |-> sp, maxOutput |-> n]
      BY <3>1, <3>2
    <3>4. /\ ws'.items = ws.items /\ ws'.itemCap = ws.itemCap
          /\ ws'.strings = ws.strings /\ ws'.stringCap = ws.stringCap
      BY <3>2, <3>3
    <3>5. Allocated(ws, batch, Count(batch))
      BY <2>1, <2>3 DEF AllocInv, InUse, RowsInUse
    <3>6. Allocated(ws', batch, Count(batch))
      BY <3>4, <3>5 DEF Allocated
    <3> QED BY <2>1, <2>3, <3>6 DEF AllocInv, InUse, RowsInUse
  <2>4. CASE entry # "Pack"
    BY <2>1, <2>4 DEF AllocInv
  <2> QED BY <2>1, <2>2, <2>3, <2>4
<1>6. CASE Encode \/ EncodeStep \/ Encoded \/ MarshalAgain
  <2>1. batch' = batch /\ entry' = entry /\ ws' = ws
    BY <1>6 DEF Encode, EncodeStep, Encoded, MarshalAgain, packVars
  <2>2. \/ phase = "packed" /\ phase' = "encode"
        \/ phase = "encode" /\ phase' = "encode"
        \/ phase = "encode" /\ phase' = "done" /\ stage = "returned" /\ stage' = stage
        \/ phase = "done" /\ phase' = "packed" /\ stage = "returned" /\ stage' = "outside"
    BY <1>6 DEF Encode, EncodeStep, Encoded, MarshalAgain, packVars, nativeVars, Exit
  <2>3. InUse /\ RowsInUse = Count(batch) /\ RowsInUse' = Count(batch) /\ phase' # "reset"
    BY <2>1, <2>2 DEF InUse, RowsInUse
  <2> QED BY <2>1, <2>3 DEF AllocInv
<1>7. CASE Finish
  BY <1>7 DEF Finish, AllocInv
<1>8. CASE UNCHANGED vars
  BY <1>8 DEF vars, packVars, nativeVars, AllocInv, InUse, RowsInUse
<1> QED BY <1>1, <1>2, <1>3, <1>4, <1>5, <1>6, <1>7, <1>8 DEF Next

(* The two walks of Pack agree, for any batch: what the first one has      *)
(* allocated, one array of items and one of string bytes, the second one   *)
(* fills to the last byte, and no append moves an array                    *)
(* (packed.go:62-68, 252-305).                                             *)
THEOREM AllocatesOnce == Spec => []PreallocatesExactly
<1>1. Init => AllocInv
  BY DEF Init, AllocInv, InUse
<1>2. PackInv /\ AllocInv /\ [Next]_vars => AllocInv'
  BY AllocStep
<1>3. AllocInv => PreallocatesExactly
  <2> SUFFICES ASSUME AllocInv, entry = "Pack", phase = "packed"
               PROVE  ws.itemCap = Len(ws.items) /\ ws.stringCap = Len(ws.strings)
    BY DEF PreallocatesExactly
  <2> QED BY DEF AllocInv, InUse, RowsInUse, Allocated
<1> QED BY <1>1, <1>2, <1>3, PackInvariance, PTL DEF Spec

-----------------------------------------------------------------------------
(* Packed batches, encoded.                                                *)

(* A row that holds an order is inside.                                    *)
LEMMA HeldIn ==
  ASSUME NEW v, NEW row \in OrderRow, NEW order,
         RowHeld(row, v.items, v.strings, order)
  PROVE  RowIn(v, row)
<1>1. PICK b : b = Snapshot(row, v.items, v.strings)
  OBVIOUS
<1>2. b.row = row /\ b.items = v.items /\ b.strings = v.strings
  BY <1>1 DEF Snapshot
<1>3. /\ \A field \in OrderStrings : StringDone(b, order, field)
      /\ TrackingDone(b, order) /\ ItemsDone(b, order)
  BY <1>1 DEF RowHeld, OrderHeld
<1>4. ASSUME NEW field \in {"orderID", "createdAt", "status", "paymentMethod",
                            "buyerName", "city", "address", "remark"}
      PROVE  In(v, row[field])
  BY <1>2, <1>3 DEF OrderStrings, StringDone, Holds, In
<1>5. row.hasTrackingNo # 0 => In(v, row.trackingNo)
  BY <1>2, <1>3 DEF TrackingDone, StringDone, Holds, In
<1>6. ItemsIn(v, row)
  <2>1. CASE order["items"] = Nil
    BY <1>2, <1>3, <2>1 DEF ItemsDone, ItemsIn
  <2>2. CASE order["items"] # Nil
    <3>1. PICK s \in Nat, n \in Nat : s = row.itemStart /\ n = row.itemCount
      BY DEF OrderRow
    <3>2. /\ row.itemsNull = 0 /\ s + n <= Len(v.items)
          /\ \A i \in 1 .. n : ItemHeld(v.strings, v.items[s + i], order["items"][i])
      BY <1>2, <1>3, <2>2, <3>1 DEF ItemsDone
    <3>3. ASSUME NEW i \in s + 1 .. s + n PROVE ItemIn(v, v.items[i])
      <4>1. i - s \in 1 .. n /\ s + (i - s) = i
        OBVIOUS
      <4>2. ItemHeld(v.strings, v.items[i], order["items"][i - s])
        BY <3>2, <4>1
      <4> QED BY <4>2 DEF ItemHeld, Holds, ItemIn, In
    <3> QED BY <3>1, <3>2, <3>3 DEF ItemsIn
  <2> QED BY <2>1, <2>2
<1> QED BY <1>4, <1>5, <1>6 DEF RowIn

(* What packing hands to C.                                                *)
LEMMA PackedView ==
  ASSUME PackInv, phase \in {"packed", "encode"}
  PROVE  ViewOf(ws) \in BatchView /\ WellFormed(ViewOf(ws))
<1>1. HoldsBatch(ws, batch, Count(batch)) /\ IsPacked(ws) /\ batch \in Batch
  BY DEF PackInv, Typed, BatchIsHeld, InUse, RowsInUse
<1>2. PICK v : v = ViewOf(ws)
  OBVIOUS
<1>3. PICK a \in Seq(OrderRow), n \in Nat :
        a = ws.array /\ n = Count(batch) /\ n <= Len(a) /\ ws.count = n
  BY <1>1, CountIs DEF HoldsBatch, IsPacked
<1>11. PICK rows : rows = SubSeq(a, 1, n)
  BY Zenon
<1>4. /\ rows \in Seq(OrderRow) /\ Len(rows) = n
      /\ \A i \in 1 .. n : rows[i] = a[i] /\ a[i] \in OrderRow
  <2>1. \A i \in 1 .. n : a[i] \in OrderRow
    BY <1>3, <1>11
  <2>2. Len(rows) = n /\ \A i \in 1 .. n : rows[i] = a[1 + i - 1]
    BY <1>3, <1>11
  <2>3. ASSUME NEW i \in 1 .. n PROVE rows[i] = a[i]
    <3>1. 1 + i - 1 = i
      OBVIOUS
    <3> QED BY <2>2, <3>1
  <2>4. rows \in Seq(OrderRow)
    BY <1>3, <1>11, <2>1, SubSeqProperties
  <2> QED BY <2>1, <2>2, <2>3, <2>4
<1>5. v = [orders |-> rows, ordersNull |-> (batch = Nil), items |-> ws.items,
           strings |-> ws.strings, stringsPlain |-> ws.stringsPlain]
  BY <1>1, <1>2, <1>3, <1>11 DEF ViewOf, HoldsBatch
<1>6. v \in BatchView
  <2>1. /\ ws.items \in Seq(ItemRow) /\ ws.strings \in Seq(Bytes)
        /\ ws.stringsPlain \in BOOLEAN /\ (batch = Nil) \in BOOLEAN
    BY <1>1 DEF IsPacked
  <2> QED BY <1>4, <1>5, <2>1 DEF BatchView
<1>7. /\ v.orders = rows /\ v.ordersNull = (batch = Nil)
      /\ v.items = ws.items /\ v.strings = ws.strings
  BY <1>5
<1>8. ASSUME NEW i \in 1 .. n PROVE RowIn(v, rows[i])
  <2>1. RowHeld(rows[i], v.items, v.strings, batch[i])
    BY <1>1, <1>3, <1>11, <1>4, <1>7 DEF HoldsBatch
  <2> QED BY <1>4, <2>1, HeldIn, Zenon
<1>9. v.ordersNull => v.orders = <<>>
  <2> SUFFICES ASSUME batch = Nil PROVE rows = <<>>
    BY <1>7, Zenon
  <2>1. n = 0
    BY <1>3, <1>11 DEF Count
  <2> QED BY <1>4, <2>1
<1>10. WellFormed(v)
  BY <1>4, <1>7, <1>8, <1>9 DEF WellFormed
<1> QED BY <1>2, <1>6, <1>10

(* The native encoder inside Pipeline: it has the view of the workspace.   *)
EncodeInv ==
  /\ IInv /\ BlameInv /\ AgreeInv
  /\ stage = "orders" => phase = "encode"
  /\ stage # "outside" => view = ViewOf(ws)

(* Packing leaves the native encoder alone.                                *)
LEMMA NativeUnchanged ==
  ASSUME IInv, BlameInv, AgreeInv, UNCHANGED nativeVars
  PROVE  IInv' /\ BlameInv' /\ AgreeInv'
BY StepIInv, AgreesStep, StepBlameless

(* What it does on its own is a step of its own specification.             *)
LEMMA NativeMoves ==
  ASSUME IInv, BlameInv, AgreeInv, NativeStep \/ Exit
  PROVE  IInv' /\ BlameInv' /\ AgreeInv'
BY StepIInv, AgreesStep, StepBlameless DEF NativeNext

(* No call of C has been made.                                             *)
LEMMA EncodeInitially == Init => EncodeInv
<1> SUFFICES ASSUME Init PROVE EncodeInv
  OBVIOUS
<1>1. NativeInit /\ stage = "outside"
  BY DEF Init, NativeInit
<1>2. BlameInv
  BY <1>1 DEF BlameInv, BlamesOnlyIllFormed
<1> QED BY <1>1, <1>2, Initially, AgreesInitially DEF EncodeInv

(* C is entered with what packing has made, and the workspace stays as it  *)
(* is until C has returned.                                                *)
LEMMA EncodeInvStep ==
  ASSUME PackInv, EncodeInv, [Next]_vars
  PROVE  EncodeInv'
<1>1. stage \in {"outside", "orders", "returned"}
  BY DEF EncodeInv, IInv
<1>2. CASE Call \/ TooLarge \/ Reset \/ PackOrder \/ FinishPack
  <2>1. phase \in {"idle", "reset", "pack"} /\ UNCHANGED nativeVars
    BY <1>2 DEF Call, TooLarge, Reset, PackOrder, FinishPack
  <2>2. stage = "outside" /\ stage' = stage
    BY <1>1, <2>1 DEF EncodeInv, PackInv, CalledFirst, nativeVars
  <2> QED BY <2>1, <2>2, NativeUnchanged DEF EncodeInv
<1>3. CASE Encode
  <2>1. PICK cap : Enter(ViewOf(ws), cap)
    BY <1>3 DEF Encode
  <2>2. phase = "packed" /\ phase' = "encode" /\ ws' = ws
    BY <1>3 DEF Encode
  <2>3. ViewOf(ws) \in BatchView
    BY <2>2, PackedView
  <2>4. IInv' /\ BlameInv' /\ AgreeInv'
    BY <2>1, <2>3, EnterStep, EnterBlameless, EnterAgrees DEF EncodeInv
  <2>5. view' = ViewOf(ws)
    BY <2>1, Zenon DEF Enter
  <2> QED BY <2>2, <2>4, <2>5 DEF EncodeInv
<1>4. CASE EncodeStep
  <2>1. NativeStep /\ phase = "encode" /\ phase' = phase /\ ws' = ws
    BY <1>4 DEF EncodeStep, packVars
  <2>2. stage = "orders" /\ view' = view
    BY <2>1, Zenon DEF NativeStep, BeginOrder, CallOperation, LeaveLoop
  <2> QED BY <2>1, <2>2, NativeMoves DEF EncodeInv
<1>5. CASE Encoded
  <2>1. /\ stage = "returned" /\ stage' = stage /\ view' = view /\ ws' = ws
        /\ UNCHANGED nativeVars
    BY <1>5 DEF Encoded, nativeVars
  <2> QED BY <2>1, NativeUnchanged DEF EncodeInv
<1>6. CASE (MarshalAgain \/ Finish) /\ Exit
  <2>1. stage' = "outside"
    BY <1>6 DEF Exit
  <2> QED BY <1>6, <2>1, NativeMoves DEF EncodeInv
<1>7. CASE Finish /\ UNCHANGED nativeVars /\ stage # "returned"
  <2>1. phase = "done" /\ stage' = stage
    BY <1>7 DEF Finish, nativeVars
  <2>2. stage = "outside"
    BY <1>1, <1>7, <2>1 DEF EncodeInv
  <2> QED BY <1>7, <2>1, <2>2, NativeUnchanged DEF EncodeInv
<1>8. CASE UNCHANGED vars
  <2>1. /\ stage' = stage /\ view' = view /\ ws' = ws /\ phase' = phase
        /\ UNCHANGED nativeVars
    BY <1>8 DEF vars, packVars, nativeVars
  <2> QED BY <2>1, NativeUnchanged DEF EncodeInv
<1>9. MarshalAgain => Exit
  BY DEF MarshalAgain
<1>10. Finish => Exit \/ (UNCHANGED nativeVars /\ stage # "returned")
  BY DEF Finish
<1> QED BY <1>2, <1>3, <1>4, <1>5, <1>6, <1>7, <1>8, <1>9, <1>10 DEF Next

(* Packing and encoding together.                                          *)
LEMMA EncodeInvariance == Spec => [](PackInv /\ EncodeInv)
BY PackInitially, PackInvStep, EncodeInitially, EncodeInvStep, PTL DEF Spec

(* What packing hands over is what the declarations of C admit, and every  *)
(* reference, range and null flag of it passes the tests of C: the rows    *)
(* that the theorems about NativeRows call well formed are not only those  *)
(* of its instances (packed.go:41-219, jitjson.h:32-66).                   *)
THEOREM PackedIsWellFormed ==
  Spec => [](phase = "packed" => ViewOf(ws) \in BatchView /\ WellFormed(ViewOf(ws)))
<1>1. PackInv => (phase = "packed" => ViewOf(ws) \in BatchView /\ WellFormed(ViewOf(ws)))
  BY PackedView
<1> QED BY <1>1, PackInvariance, PTL

(* For any batches, any history of the workspace and any buffer that is    *)
(* not empty, C never finds fault with rows that packing made: the encoder *)
(* can fail for lack of space only                                         *)
(* (packed.go:128-250, writer_linux_amd64.c:82-94, 178-193).               *)
THEOREM PackedNeverBlamed == Spec => []NeverInvalid
<1>1. PackInv /\ EncodeInv => NeverInvalid
  <2> SUFFICES ASSUME PackInv, EncodeInv, phase = "encode", stage = "returned",
                      w.cap > 0
               PROVE  w.status # "INVALID_ARGUMENT"
    BY DEF NeverInvalid
  <2>1. WellFormed(view)
    <3>1. view = ViewOf(ws)
      BY DEF EncodeInv
    <3> QED BY <3>1, PackedView
  <2>2. w.cap # 0
    OBVIOUS
  <2> QED BY <2>1, <2>2 DEF EncodeInv, BlameInv, BlamesOnlyIllFormed
<1> QED BY <1>1, EncodeInvariance, PTL

(* For packed batches too, the back ends leave the same text and the same  *)
(* status, whatever the buffer: which one an encoder was created with      *)
(* cannot be seen in what Marshal returns                                  *)
(* (bridge_linux_amd64.c:86-111).                                          *)
THEOREM MarshalSameByBoth == Spec => []BackendsAgree
<1>1. PackInv /\ EncodeInv => BackendsAgree
  BY DEF EncodeInv, AgreeInv
<1> QED BY <1>1, EncodeInvariance, PTL
=============================================================================
