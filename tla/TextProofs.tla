----------------------------- MODULE TextProofs ------------------------------
(***************************************************************************)
(* Proofs about texts: that the writer of C, given the rows that packing   *)
(* made, writes the text of the reference encoder, or as much of it as the *)
(* buffer holds, that the sizes which packing and the estimate add up are  *)
(* the length of that text, and that both refuse a batch only for a reason *)
(* that the batch gives, whatever the batch and the buffer are.            *)
(*                                                                         *)
(* Packing counts bytes and writes none.  The argument is the same         *)
(* everywhere: a walk over a table, in Go or in C, is shown to count, to   *)
(* write or to be the concatenation of one text for each step, the steps   *)
(* in their order, and the texts of the two tables are the same ones.      *)
(***************************************************************************)
EXTENDS RowsProofs

-----------------------------------------------------------------------------
(* Texts, one behind the other.                                            *)
LEMMA TextsJoin ==
  ASSUME NEW s \in JSON, NEW t \in JSON
  PROVE  /\ s \o t \in JSON
         /\ Len(s) \in Nat /\ Len(t) \in Nat
         /\ Len(s \o t) = Len(s) + Len(t)
BY ConcatProperties, LenProperties DEF JSON

LEMMA TextsRegroup ==
  ASSUME NEW s \in JSON, NEW t \in JSON, NEW u \in JSON
  PROVE  (s \o t) \o u = s \o (t \o u)
BY ConcatAssociative DEF JSON

LEMMA NoText ==
  /\ <<>> \in JSON /\ Len(<<>>) = 0
  /\ \A s \in JSON : s \o <<>> = s /\ <<>> \o s = s
BY ConcatEmptySeq, EmptySeq DEF JSON

(* The first members of a sequence of characters, and one more.            *)
LEMMA TextsGrow ==
  ASSUME NEW f, NEW j \in Nat, \A i \in 1 .. j + 1 : f[i] \in Alphabet
  PROVE  /\ [i \in 1 .. j |-> f[i]] \in JSON
         /\ [i \in 1 .. j + 1 |-> f[i]] = [i \in 1 .. j |-> f[i]] \o << f[j + 1] >>
<1>1. PICK s : s = [i \in 1 .. j |-> f[i]]
  BY Zenon
<1>2. PICK t : t = [i \in 1 .. j + 1 |-> f[i]]
  BY Zenon
<1>3. s \in Seq(Alphabet) /\ t \in Seq(Alphabet)
  BY <1>1, <1>2
<1>4. Len(s) = j /\ Len(t) = j + 1
  BY <1>1, <1>2
<1>5. PICK u : u = << f[j + 1] >> /\ u \in Seq(Alphabet) /\ Len(u) = 1 /\ u[1] = f[j + 1]
  <2>1. PICK c \in Alphabet : c = f[j + 1]
    OBVIOUS
  <2>2. << c >> \in Seq(Alphabet) /\ Len(<< c >>) = 1 /\ << c >>[1] = c
    OBVIOUS
  <2> QED BY <2>1, <2>2, Zenon
<1>6. /\ s \o u \in Seq(Alphabet) /\ Len(s \o u) = j + 1
      /\ \A i \in 1 .. j + 1 : (s \o u)[i] = IF i <= j THEN s[i] ELSE u[i - j]
  BY <1>3, <1>4, <1>5, ConcatProperties
<1>7. ASSUME NEW i \in 1 .. j + 1
      PROVE  t[i] = (s \o u)[i]
  <2>1. CASE i <= j
    BY <1>1, <1>2, <1>6, <2>1
  <2>2. CASE i = j + 1
    <3>1. i - j = 1 /\ ~(i <= j)
      BY <2>2
    <3>2. (s \o u)[i] = u[1]
      BY <1>6, <3>1
    <3> QED BY <1>2, <1>5, <2>2, <3>2, Zenon
  <2>3. i <= j \/ i = j + 1
    OBVIOUS
  <2> QED BY <2>1, <2>2, <2>3, Zenon
<1>8. t = s \o u
  BY <1>3, <1>4, <1>6, <1>7, SeqEqual, Zenon
<1> QED BY <1>1, <1>2, <1>3, <1>5, <1>8 DEF JSON

-----------------------------------------------------------------------------
(* What a write does.  A text that fits is appended; one that does not     *)
(* leaves a beginning of it, and the writer has failed.                    *)
TextWriter(x) ==
  /\ IsWriter(x)
  /\ x.cap \in Nat
  /\ x.text \in JSON
  /\ Len(x.text) <= x.cap

Appends(x, y, t) == ~Stopped(y) /\ y.text = x.text \o t

CutsOff(x, y, t) ==
  /\ Stopped(y)
  /\ \E rest \in JSON : x.text \o t = y.text \o rest

Writes(x, y, t) ==
  /\ t \in JSON
  /\ TextWriter(x)
  /\ TextWriter(y)
  /\ y.cap = x.cap
  /\ Stopped(x) => Stopped(y) /\ y.text = x.text
  /\ ~Stopped(x) =>
       IF Len(x.text) + Len(t) <= x.cap THEN Appends(x, y, t) ELSE CutsOff(x, y, t)

(* A writer that has failed writes any text by doing nothing, any writer   *)
(* the empty text.                                                         *)
LEMMA StoppedWrites ==
  ASSUME NEW x, TextWriter(x), NEW t \in JSON, Stopped(x)
  PROVE  Writes(x, x, t)
BY DEF Writes

LEMMA NothingWritten ==
  ASSUME NEW x, TextWriter(x)
  PROVE  Writes(x, x, <<>>)
BY NoText DEF Writes, Appends, TextWriter

LEMMA WritesOn ==
  ASSUME NEW x, NEW y, NEW z, NEW s, NEW t, Writes(x, y, s), Writes(y, z, t)
  PROVE  Writes(x, z, s \o t)
<1>1. /\ s \in JSON /\ t \in JSON /\ x.text \in JSON /\ y.text \in JSON /\ z.text \in JSON
      /\ TextWriter(x) /\ TextWriter(z) /\ z.cap = x.cap /\ y.cap = x.cap /\ x.cap \in Nat
  BY DEF Writes, TextWriter
<1>2. PICK i \in Nat, j \in Nat, k \in Nat : i = Len(x.text) /\ j = Len(s) /\ k = Len(t)
  BY <1>1, TextsJoin, Zenon
<1>3. PICK st : st = s \o t /\ st \in JSON /\ Len(st) = j + k
  BY <1>1, <1>2, TextsJoin, Zenon
<1>4. (x.text \o s) \o t = x.text \o st
  <2>1. PICK u \in JSON : u = x.text
    BY <1>1, Zenon
  <2>2. (u \o s) \o t = u \o (s \o t)
    BY <1>1, TextsRegroup, Zenon
  <2> QED BY <1>3, <2>1, <2>2, Zenon
<1>5. CASE Stopped(x)
  BY <1>1, <1>3, <1>5 DEF Writes
<1>6. CASE ~Stopped(x) /\ i + j <= x.cap
  <2>1. Appends(x, y, s)
    BY <1>1, <1>2, <1>6 DEF Writes
  <2>2. ~Stopped(y) /\ y.text = x.text \o s /\ Len(y.text) = i + j
    BY <2>1, <1>1, <1>2, TextsJoin DEF Appends
  <2>3. CASE (i + j) + k <= x.cap
    <3>1. Appends(y, z, t)
      BY <1>1, <1>2, <2>2, <2>3 DEF Writes
    <3>2. Appends(x, z, st)
      BY <3>1, <2>2, <1>4 DEF Appends
    <3>3. i + (j + k) <= x.cap
      BY <1>1, <2>3
    <3> QED BY <1>1, <1>2, <1>3, <1>6, <3>2, <3>3 DEF Writes
  <2>4. CASE ~((i + j) + k <= x.cap)
    <3>1. CutsOff(y, z, t)
      BY <1>1, <1>2, <2>2, <2>4 DEF Writes
    <3>2. CutsOff(x, z, st)
      BY <3>1, <2>2, <1>4, Zenon DEF CutsOff
    <3>3. ~(i + (j + k) <= x.cap)
      BY <1>1, <2>4
    <3> QED BY <1>1, <1>2, <1>3, <1>6, <3>2, <3>3 DEF Writes
  <2> QED BY <2>3, <2>4
<1>7. CASE ~Stopped(x) /\ ~(i + j <= x.cap)
  <2>1. CutsOff(x, y, s)
    BY <1>1, <1>2, <1>7 DEF Writes
  <2>2. PICK r \in JSON : x.text \o s = y.text \o r
    BY <2>1 DEF CutsOff
  <2>3. Stopped(z) /\ z.text = y.text
    BY <2>1 DEF CutsOff, Writes
  <2>4. (y.text \o r) \o t = y.text \o (r \o t)
    <3>1. PICK u \in JSON : u = y.text
      BY <1>1, Zenon
    <3>2. (u \o r) \o t = u \o (r \o t)
      BY <1>1, <2>2, TextsRegroup, Zenon
    <3> QED BY <3>1, <3>2, Zenon
  <2>5. x.text \o st = z.text \o (r \o t)
    BY <1>4, <2>2, <2>3, <2>4, Zenon
  <2>6. CutsOff(x, z, st)
    BY <1>1, <2>2, <2>3, <2>5, TextsJoin, Zenon DEF CutsOff
  <2>7. ~(i + (j + k) <= x.cap)
    BY <1>1, <1>7
  <2> QED BY <1>1, <1>2, <1>3, <1>7, <2>6, <2>7 DEF Writes
<1> QED BY <1>5, <1>6, <1>7

(* jitjson_writer_literal.                                                 *)
LEMMA LiteralWrites ==
  ASSUME NEW x, TextWriter(x), NEW t \in JSON
  PROVE  Writes(x, Literal(x, t), t)
<1>1. PICK y : y = Literal(x, t)
  OBVIOUS
<1>2. /\ x = [text |-> x.text, cap |-> x.cap, status |-> x.status]
      /\ x.status \in Statuses
      /\ x.cap \in Nat /\ x.text \in JSON
  BY DEF TextWriter, IsWriter
<1>3. PICK i \in Nat, j \in Nat : i = Len(x.text) /\ j = Len(t)
  BY <1>2, TextsJoin, Zenon
<1>4. i <= x.cap
  BY <1>3 DEF TextWriter
<1>5. PICK xt : xt = x.text \o t /\ xt \in JSON /\ Len(xt) = i + j
  BY <1>2, <1>3, TextsJoin, Zenon
<1>6. CASE Stopped(x)
  BY <1>1, <1>6, StoppedWrites DEF Literal
<1>7. CASE ~Stopped(x) /\ i + j <= x.cap
  <2>1. Fits(x, Len(t))
    BY <1>2, <1>3, <1>7 DEF Fits
  <2>2. y = [text |-> xt, cap |-> x.cap, status |-> x.status]
    BY <1>1, <1>2, <1>5, <1>7, <2>1, Zenon DEF Literal
  <2>3. TextWriter(y) /\ y.cap = x.cap /\ Appends(x, y, t)
    BY <1>2, <1>5, <1>7, <2>2 DEF TextWriter, IsWriter, Appends, Stopped
  <2> QED BY <1>1, <1>3, <1>7, <2>3 DEF Writes
<1>8. CASE ~Stopped(x) /\ ~(i + j <= x.cap)
  <2>1. ~Fits(x, Len(t))
    BY <1>2, <1>3, <1>8 DEF Fits
  <2>2. y = [text |-> x.text, cap |-> x.cap, status |-> "NO_SPACE"]
    BY <1>1, <1>2, <1>8, <2>1 DEF Literal
  <2>3. TextWriter(y) /\ y.cap = x.cap /\ Stopped(y) /\ y.text = x.text
    BY <1>2, <1>3, <1>4, <2>2 DEF TextWriter, IsWriter, Statuses, Stopped
  <2>4. CutsOff(x, y, t)
    BY <2>3 DEF CutsOff
  <2> QED BY <1>1, <1>3, <1>8, <2>3, <2>4 DEF Writes
<1> QED BY <1>6, <1>7, <1>8

(* Writes one after the other write their texts concatenated.              *)
WritesEach(after, n, texts) ==
  \A k \in 1 .. n :
    TextWriter(after[k - 1]) => Writes(after[k - 1], after[k], texts[k])

LEMMA WritesAlong ==
  ASSUME NEW n \in Nat, NEW after, NEW texts, NEW g,
         Concatenates(g, n, texts, Alphabet), TextWriter(after[0]),
         WritesEach(after, n, texts)
  PROVE  Writes(after[0], after[n], g[n])
<1> DEFINE T == {k \in Nat : k <= n => Writes(after[0], after[k], g[k])}
<1>1. 0 \in T
  BY NothingWritten DEF Concatenates
<1>2. ASSUME NEW k \in Nat, k \in T
      PROVE  k + 1 \in T
  <2> SUFFICES ASSUME k + 1 <= n
               PROVE  Writes(after[0], after[k + 1], g[k + 1])
    OBVIOUS
  <2>1. Writes(after[0], after[k], g[k])
    BY <1>2
  <2>2. PICK j : j = k + 1 /\ j \in 1 .. n /\ j - 1 = k
    OBVIOUS
  <2>3. TextWriter(after[k])
    BY <2>1 DEF Writes
  <2>4. Writes(after[k], after[j], texts[j])
    BY <2>2, <2>3 DEF WritesEach
  <2>5. g[j] = g[k] \o texts[j]
    BY <2>2, Zenon DEF Concatenates
  <2> QED BY <2>1, <2>2, <2>4, <2>5, WritesOn
<1> HIDE DEF T
<1>3. Nat \subseteq T
  BY <1>1, <1>2, Induction
<1>4. n \in T
  BY <1>3
<1> QED BY <1>4 DEF T

-----------------------------------------------------------------------------
(* Strings.  What becomes of a byte, and how long it is.                   *)
LEMMA EscapedIs ==
  ASSUME NEW byte \in Bytes
  PROVE  /\ Escaped(byte) \in JSON
         /\ Raw(byte) \in Alphabet
         /\ Len(Escaped(byte)) = EncodedByte(byte)
         /\ ~NeedsEscape(byte) => Escaped(byte) = << Raw(byte) >>
<1>1. Raw(byte) \in Alphabet
  BY AlphabetAssumption
<1>2. << Raw(byte) >> \in JSON /\ Len(<< Raw(byte) >>) = 1
  BY <1>1 DEF JSON
<1>3. /\ Chars("\\\"") \in JSON /\ Chars("\\u0001") \in JSON
      /\ Len(Chars("\\\"")) = 2 /\ Len(Chars("\\u0001")) = 6
  BY AlphabetAssumption, LengthsAssumption, Zenon DEF Literals
<1>4. CASE byte = "quote"
  <2>1. Escaped(byte) = Chars("\\\"") /\ EncodedByte(byte) = 2 /\ NeedsEscape(byte)
    BY <1>4 DEF Escaped, EncodedByte, NeedsEscape
  <2> QED BY <1>1, <1>3, <2>1, Zenon
<1>5. CASE byte = "ctl"
  <2>1. Escaped(byte) = Chars("\\u0001") /\ EncodedByte(byte) = 6 /\ NeedsEscape(byte)
    BY <1>5 DEF Escaped, EncodedByte, NeedsEscape
  <2> QED BY <1>1, <1>3, <2>1, Zenon
<1>6. CASE byte \notin {"quote", "ctl"}
  <2>1. Escaped(byte) = << Raw(byte) >> /\ EncodedByte(byte) = 1
    BY <1>6, Zenon DEF Escaped, EncodedByte
  <2> QED BY <1>1, <1>2, <2>1
<1> QED BY <1>4, <1>5, <1>6

EscapedTexts(value) == [i \in 1 .. Len(value) |-> Escaped(value[i])]

(* g[k] is the first k bytes of a string, escaped.                         *)
EscapesTo(g, value) == Concatenates(g, Len(value), EscapedTexts(value), Alphabet)

LEMMA EscapesExist ==
  ASSUME NEW value \in Seq(Bytes)
  PROVE  /\ \A i \in 1 .. Len(value) : EscapedTexts(value)[i] \in JSON
         /\ \E g : EscapesTo(g, value)
<1>1. PICK n \in Nat : n = Len(value)
  BY LenProperties
<1>2. ASSUME NEW i \in 1 .. n
      PROVE  EscapedTexts(value)[i] \in Seq(Alphabet)
  <2>1. value[i] \in Bytes
    BY <1>1, <1>2, ElementOfSeq
  <2>2. EscapedTexts(value)[i] = Escaped(value[i])
    BY <1>1 DEF EscapedTexts
  <2> QED BY <2>1, <2>2, EscapedIs DEF JSON
<1>3. \E g : Concatenates(g, n, EscapedTexts(value), Alphabet)
  BY <1>2, Concatenations, Zenon
<1> QED BY <1>1, <1>2, <1>3 DEF EscapesTo, JSON

LEMMA EscapesAre ==
  ASSUME NEW value \in Seq(Bytes), NEW g, EscapesTo(g, value)
  PROVE  /\ Len(value) \in Nat
         /\ g[0] = <<>>
         /\ \A k \in 0 .. Len(value) : g[k] \in JSON
         /\ \A k \in 1 .. Len(value) : g[k] = g[k - 1] \o Escaped(value[k])
         /\ JSONString(value) = (Quote \o g[Len(value)]) \o Quote
<1>1. PICK n \in Nat : n = Len(value)
  BY LenProperties
<1>2. Concatenates(g, n, EscapedTexts(value), Alphabet)
  BY <1>1 DEF EscapesTo
<1>3. \A k \in 1 .. n : EscapedTexts(value)[k] = Escaped(value[k])
  BY <1>1 DEF EscapedTexts
<1>4. \A k \in 1 .. n : EscapedTexts(value)[k] \in Seq(Alphabet)
  BY <1>1, EscapesExist DEF JSON
<1>5. PICK seqs : seqs = EscapedTexts(value)
  OBVIOUS
<1>6. seqs = [k \in 1 .. n |-> seqs[k]] /\ DOMAIN seqs = 1 .. n /\ Len(seqs) = n
  BY <1>1, <1>5 DEF EscapedTexts
<1>7. FlattenSeq(seqs) = g[n]
  <2>1. Concatenates(g, n, seqs, Alphabet) /\ \A k \in 1 .. n : seqs[k] \in Seq(Alphabet)
    BY <1>2, <1>4, <1>5
  <2> QED BY <1>6, <2>1, FlattenIs, Zenon
<1>8. JSONString(value) = (Quote \o g[n]) \o Quote
  BY <1>5, <1>7, Zenon DEF JSONString, EscapedTexts
<1> QED BY <1>1, <1>2, <1>3, <1>8 DEF Concatenates, JSON

LEMMA QuoteTyped == Quote \in JSON /\ Len(Quote) = 1
BY AlphabetAssumption, LengthsAssumption, Zenon DEF Quote, Literals

LEMMA StringTyped ==
  ASSUME NEW value \in Seq(Bytes)
  PROVE  JSONString(value) \in JSON
<1>1. PICK g : EscapesTo(g, value)
  BY EscapesExist
<1>2. PICK n \in Nat : n = Len(value) /\ n \in 0 .. Len(value)
  BY LenProperties
<1>3. PICK t \in JSON : t = g[n]
  BY <1>1, <1>2, EscapesAre, Zenon
<1>4. Quote \o t \in JSON
  BY QuoteTyped, TextsJoin
<1>5. (Quote \o t) \o Quote \in JSON
  BY <1>4, QuoteTyped, TextsJoin
<1> QED BY <1>1, <1>2, <1>3, <1>5, EscapesAre, Zenon

(* Bytes that need no escape are copied: run is k bytes of value after p.  *)
PlainRun(value, p, k, run) ==
  /\ run \in Seq(Bytes)
  /\ Len(run) = k
  /\ \A i \in 1 .. k : run[i] = value[p + i] /\ ~NeedsEscape(run[i])

LEMMA RunIsText ==
  ASSUME NEW value \in Seq(Bytes), NEW g, EscapesTo(g, value),
         NEW p \in Nat, NEW k \in Nat, p + k <= Len(value),
         NEW run, PlainRun(value, p, k, run)
  PROVE  RawText(run) \in JSON /\ g[p + k] = g[p] \o RawText(run)
<1> DEFINE R(j) == [i \in 1 .. j |-> Raw(run[i])]
           Q(j) == R(j) \in JSON /\ g[p + j] = g[p] \o R(j)
           T    == {j \in Nat : j <= k => Q(j)}
<1>1. PICK n \in Nat : n = Len(value)
  BY LenProperties
<1>2. g[p] \in JSON
  <2>1. p \in 0 .. Len(value)
    BY <1>1
  <2> QED BY <2>1, EscapesAre, Zenon
<1> HIDE DEF R, Q
<1>3. 0 \in T
  <2>1. R(0) = <<>>
    <3>1. PICK z \in Nat : z = 0
      OBVIOUS
    <3>2. \A i \in 1 .. z : Raw(run[i]) \in Alphabet
      BY <3>1
    <3>3. [i \in 1 .. z |-> Raw(run[i])] \in Seq(Alphabet)
      BY <3>2
    <3>4. Len([i \in 1 .. z |-> Raw(run[i])]) = z
      OBVIOUS
    <3>5. R(z) \in Seq(Alphabet) /\ Len(R(z)) = 0
      BY <3>1, <3>3, <3>4 DEF R
    <3> QED BY <3>1, <3>5, EmptySeq
  <2>2. g[p] = g[p] \o <<>> /\ <<>> \in JSON
    BY <1>2, NoText
  <2>3. p + 0 = p
    OBVIOUS
  <2> QED BY <2>1, <2>2, <2>3, Zenon DEF Q
<1>4. ASSUME NEW j \in Nat, j \in T
      PROVE  j + 1 \in T
  <2> SUFFICES ASSUME j + 1 <= k
               PROVE  Q(j + 1)
    OBVIOUS
  <2>1. R(j) \in JSON /\ g[p + j] = g[p] \o R(j)
    <3>1. Q(j)
      BY <1>4
    <3> QED BY <3>1 DEF Q
  <2>2. PICK b : b = run[j + 1] /\ b = value[p + (j + 1)] /\ ~NeedsEscape(b) /\ b \in Bytes
    <3>1. j + 1 \in 1 .. k /\ Len(run) = k
      BY DEF PlainRun
    <3>2. run[j + 1] \in Bytes
      BY <3>1, ElementOfSeq DEF PlainRun
    <3> QED BY <3>1, <3>2 DEF PlainRun
  <2>3. Escaped(b) = << Raw(b) >> /\ Raw(b) \in Alphabet
    BY <2>2, EscapedIs
  <2>4. R(j + 1) = R(j) \o << Raw(b) >>
    <3>1. PICK f : f = [i \in 1 .. k |-> Raw(run[i])]
      BY Zenon
    <3>2. ASSUME NEW i \in 1 .. k
          PROVE  f[i] \in Alphabet
      <4>1. run[i] \in Bytes
        BY ElementOfSeq DEF PlainRun
      <4> QED BY <3>1, <4>1, EscapedIs
    <3>3. \A i \in 1 .. j + 1 : f[i] \in Alphabet
      BY <3>2
    <3>4. [i \in 1 .. j + 1 |-> f[i]] = [i \in 1 .. j |-> f[i]] \o << f[j + 1] >>
      BY <3>3, TextsGrow
    <3>5. R(j + 1) = [i \in 1 .. j + 1 |-> f[i]] /\ R(j) = [i \in 1 .. j |-> f[i]]
      BY <3>1 DEF R
    <3>6. f[j + 1] = Raw(b)
      <4>1. j + 1 \in 1 .. k
        OBVIOUS
      <4> QED BY <2>2, <3>1, <4>1, Zenon
    <3> QED BY <3>4, <3>5, <3>6
  <2>5. << Raw(b) >> \in JSON
    BY <2>3 DEF JSON
  <2>6. PICK q : q = p + (j + 1) /\ q \in 1 .. n /\ q - 1 = p + j
    BY <1>1
  <2>7. g[q] = g[q - 1] \o Escaped(value[q])
    BY <1>1, <2>6, EscapesAre, Zenon
  <2>8. g[q] = (g[p] \o R(j)) \o << Raw(b) >>
    BY <2>1, <2>2, <2>3, <2>6, <2>7, Zenon
  <2>9. (g[p] \o R(j)) \o << Raw(b) >> = g[p] \o (R(j) \o << Raw(b) >>)
    BY <1>2, <2>1, <2>5, TextsRegroup, Zenon
  <2>10. R(j + 1) \in JSON
    BY <2>1, <2>4, <2>5, TextsJoin, Zenon
  <2>11. g[p + (j + 1)] = g[p] \o R(j + 1)
    BY <2>4, <2>6, <2>8, <2>9, Zenon
  <2> QED BY <2>10, <2>11 DEF Q
<1>5. R(k) = RawText(run)
  BY DEF RawText, PlainRun, R
<1> HIDE DEF T
<1>6. Nat \subseteq T
  BY <1>3, <1>4, Induction, Zenon
<1>7. k \in T
  BY <1>6
<1> QED BY <1>5, <1>7 DEF T, Q

(* The bytes before the first one that needs an escape need none.          *)
LEMMA SafeRunIs ==
  ASSUME NEW value \in Seq(Bytes)
  PROVE  \E k \in 0 .. Len(value) :
           /\ SafeRun(value) \in Seq(Bytes)
           /\ Len(SafeRun(value)) = k
           /\ \A i \in 1 .. k : SafeRun(value)[i] = value[i] /\ ~NeedsEscape(value[i])
<1>1. PICK n \in Nat : n = Len(value)
  BY LenProperties
<1>2. PICK S : S = {i \in 1 .. n : NeedsEscape(value[i])}
  BY Zenon
<1>3. CASE S = {}
  <2>1. SafeRun(value) = value
    BY <1>1, <1>2, <1>3 DEF SafeRun
  <2>2. \A i \in 1 .. n : ~NeedsEscape(value[i])
    BY <1>2, <1>3
  <2>3. n \in 0 .. Len(value)
    BY <1>1
  <2> QED BY <1>1, <2>1, <2>2, <2>3
<1>4. CASE S # {}
  <2>1. PICK m \in S : \A j \in S : m <= j
    <3>1. S \in SUBSET Nat
      BY <1>2
    <3> QED BY <1>4, <3>1, LeastElement
  <2>2. PICK c : c = CHOOSE i \in S : \A j \in S : i <= j
    OBVIOUS
  <2>3. c \in S /\ \A j \in S : c <= j
    BY <2>1, <2>2
  <2>4. PICK k \in Nat : k = c - 1 /\ k + 1 \in 1 .. n
    BY <1>2, <2>3
  <2>5. SafeRun(value) = SubSeq(value, 1, k)
    BY <1>1, <1>2, <1>4, <2>2, <2>4, Zenon DEF SafeRun
  <2>6. /\ SubSeq(value, 1, k) \in Seq(Bytes)
        /\ Len(SubSeq(value, 1, k)) = k
        /\ \A i \in 1 .. k : SubSeq(value, 1, k)[i] = value[i]
    <3>1. /\ SubSeq(value, 0 + 1, 0 + k) \in Seq(Bytes)
          /\ Len(SubSeq(value, 0 + 1, 0 + k)) = k
          /\ \A i \in 1 .. k : SubSeq(value, 0 + 1, 0 + k)[i] = value[0 + i]
      <4>1. 0 + k <= Len(value)
        BY <1>1, <2>4
      <4> QED BY <4>1, SubSeqIs
    <3>2. 0 + 1 = 1 /\ 0 + k = k /\ \A i \in 1 .. k : 0 + i = i
      OBVIOUS
    <3> QED BY <3>1, <3>2
  <2>7. \A i \in 1 .. k : ~NeedsEscape(value[i])
    <3> SUFFICES ASSUME NEW i \in 1 .. k, NeedsEscape(value[i])
                 PROVE  FALSE
      OBVIOUS
    <3>1. i \in S
      BY <1>2, <2>4
    <3> QED BY <2>3, <2>4, <3>1
  <2>8. k \in 0 .. Len(value)
    BY <1>1, <2>4
  <2> QED BY <2>5, <2>6, <2>7, <2>8
<1> QED BY <1>3, <1>4

LEMMA Remains ==
  ASSUME NEW a \in Nat, NEW m \in Nat, a <= m
  PROVE  \E b \in Nat : a + b = m
<1>1. m - a \in Nat /\ a + (m - a) = m
  OBVIOUS
<1> QED BY <1>1

(* More bytes, more text.                                                  *)
Continues(u, s) == \E t \in JSON : u = s \o t

LEMMA EscapesFurther ==
  ASSUME NEW value \in Seq(Bytes), NEW g, EscapesTo(g, value),
         NEW p \in Nat, NEW k \in Nat, p + k <= Len(value)
  PROVE  Continues(g[p + k], g[p])
<1>1. PICK n \in Nat : n = Len(value)
  BY LenProperties
<1>2. g[p] \in JSON
  <2>1. p \in 0 .. Len(value)
    BY <1>1
  <2> QED BY <2>1, EscapesAre, Zenon
<1> DEFINE T == {j \in Nat : j <= k => \E t \in JSON : g[p + j] = g[p] \o t}
<1>3. 0 \in T
  <2>1. g[p] = g[p] \o <<>> /\ <<>> \in JSON
    BY <1>2, NoText
  <2>2. p + 0 = p
    OBVIOUS
  <2> QED BY <2>1, <2>2, Zenon
<1>4. ASSUME NEW j \in Nat, j \in T
      PROVE  j + 1 \in T
  <2> SUFFICES ASSUME j + 1 <= k
               PROVE  \E t \in JSON : g[p + (j + 1)] = g[p] \o t
    OBVIOUS
  <2>1. PICK t \in JSON : g[p + j] = g[p] \o t
    BY <1>4
  <2>2. PICK q : q = p + (j + 1) /\ q \in 1 .. n /\ q - 1 = p + j
    BY <1>1
  <2>3. PICK e : e = Escaped(value[q]) /\ e \in JSON
    <3>1. value[q] \in Bytes
      BY <1>1, <2>2, ElementOfSeq
    <3> QED BY <3>1, EscapedIs
  <2>4. g[q] = g[q - 1] \o Escaped(value[q])
    BY <1>1, <2>2, EscapesAre, Zenon
  <2>5. g[q] = (g[p] \o t) \o e
    BY <2>1, <2>2, <2>3, <2>4, Zenon
  <2>6. (g[p] \o t) \o e = g[p] \o (t \o e)
    BY <1>2, <2>1, <2>3, TextsRegroup, Zenon
  <2>7. t \o e \in JSON
    BY <2>1, <2>3, TextsJoin
  <2> QED BY <2>2, <2>5, <2>6, <2>7, Zenon
<1> HIDE DEF T
<1>5. Nat \subseteq T
  BY <1>3, <1>4, Induction
<1>6. k \in T
  BY <1>5
<1> QED BY <1>6 DEF T, Continues

(* What is left of a string after p bytes.                                 *)
Suffix(left, value, p) ==
  /\ left \in Seq(Bytes)
  /\ p + Len(left) = Len(value)
  /\ \A i \in 1 .. Len(left) : left[i] = value[p + i]

Segment(g, p, q, t) == t \in JSON /\ g[q] = g[p] \o t

(* A turn of the loop of write_escaped writes the bytes that it takes,     *)
(* escaped, and takes one at least.                                        *)
TurnWrote(s, d, value, g, p) ==
  /\ d = [w |-> d.w, left |-> d.left]
  /\ \E q \in Nat, t \in JSON :
       /\ p < q /\ q <= Len(value)
       /\ Suffix(d.left, value, q)
       /\ Segment(g, p, q, t)
       /\ Writes(s.w, d.w, t)

LEMMA TurnWrites ==
  ASSUME NEW value \in Seq(Bytes), NEW g, EscapesTo(g, value), NEW p \in Nat,
         NEW s, TextWriter(s.w), ~Stopped(s.w), s.left # <<>>, Suffix(s.left, value, p),
         NEW d, d = EscapeTurn(s)
  PROVE  TurnWrote(s, d, value, g, p)
<1>1. PICK n \in Nat : n = Len(value)
  BY LenProperties
<1>0. PICK m \in Nat : m = Len(s.left) /\ p + m = n
  BY <1>1, LenProperties DEF Suffix
<1>2. PICK left :
        /\ left = s.left /\ left \in Seq(Bytes) /\ m = Len(left) /\ left # <<>>
        /\ \A i \in 1 .. m : left[i] = value[p + i]
  BY <1>0, Zenon DEF Suffix
<1>3. PICK run : run = SafeRun(left)
  OBVIOUS
<1>4. PICK k \in 0 .. m :
        /\ run \in Seq(Bytes) /\ Len(run) = k
        /\ \A i \in 1 .. k : run[i] = left[i] /\ ~NeedsEscape(left[i])
  BY <1>2, <1>3, SafeRunIs, Zenon
<1>5. k \in Nat /\ k <= m /\ p + k <= n
  BY <1>0, <1>4
<1>6. PlainRun(value, p, k, run)
  <2>1. ASSUME NEW i \in 1 .. k
        PROVE  run[i] = value[p + i] /\ ~NeedsEscape(run[i])
    <3>1. i \in 1 .. m
      BY <1>4, <1>5
    <3>2. run[i] = left[i] /\ ~NeedsEscape(left[i])
      BY <1>4, <2>1, Zenon
    <3>3. left[i] = value[p + i]
      BY <1>2, <3>1, Zenon
    <3> QED BY <3>2, <3>3, Zenon
  <2> QED BY <1>4, <2>1, Zenon DEF PlainRun
<1>7. PICK t : t = RawText(run)
  OBVIOUS
<1>8. t \in JSON /\ g[p + k] = g[p] \o t
  <2>1. k \in Nat /\ p + k <= Len(value)
    BY <1>1, <1>5
  <2>2. RawText(run) \in JSON /\ g[p + k] = g[p] \o RawText(run)
    BY <1>6, <2>1, RunIsText
  <2> QED BY <1>7, <2>2
<1>9. PICK c : c = Literal(s.w, t)
  OBVIOUS
<1>10. Writes(s.w, c, t)
  BY <1>8, <1>9, LiteralWrites
<1>11. CASE k = m
  <2>1. d = [w |-> c, left |-> <<>>]
    BY <1>2, <1>3, <1>4, <1>7, <1>9, <1>11 DEF EscapeTurn
  <2>2. d = [w |-> d.w, left |-> d.left] /\ d.w = c /\ d.left = <<>>
    BY <2>1
  <2>3. Suffix(<<>>, value, n)
    BY <1>1, EmptySeq DEF Suffix
  <2>4. Segment(g, p, n, t)
    BY <1>0, <1>8, <1>11, Zenon DEF Segment
  <2>5. m # 0
    BY <1>2, EmptySeq
  <2>6. p < n
    BY <1>0, <2>5
  <2> QED BY <1>1, <1>8, <1>10, <2>2, <2>3, <2>4, <2>6 DEF TurnWrote
<1>12. CASE k < m
  <2>1. PICK q \in Nat : q = (p + k) + 1 /\ p < q /\ q <= n /\ q \in 1 .. n /\ q - 1 = p + k
    BY <1>0, <1>5, <1>12
  <2>2. PICK e : e = Escaped(left[k + 1])
    OBVIOUS
  <2>3. k + 1 \in 1 .. m /\ p + (k + 1) = q
    BY <1>5, <1>12, <2>1
  <2>4. left[k + 1] \in Bytes /\ left[k + 1] = value[q]
    BY <1>2, <2>3, ElementOfSeq, Zenon
  <2>5. e \in JSON
    BY <2>2, <2>4, EscapedIs
  <2>6. g[q] = g[p + k] \o e
    BY <1>1, <2>1, <2>2, <2>4, EscapesAre, Zenon
  <2>7. g[p] \in JSON
    <3>1. p \in 0 .. Len(value)
      BY <1>1, <2>1
    <3> QED BY <3>1, EscapesAre, Zenon
  <2>8. (g[p] \o t) \o e = g[p] \o (t \o e) /\ t \o e \in JSON
    BY <1>8, <2>5, <2>7, TextsRegroup, TextsJoin, Zenon
  <2>9. Segment(g, p, q, t \o e)
    BY <1>8, <2>6, <2>8 DEF Segment
  <2>10. PICK z : z = Literal(c, e)
    OBVIOUS
  <2>11. Writes(c, z, e)
    <3>1. TextWriter(c)
      BY <1>10 DEF Writes
    <3> QED BY <2>5, <2>10, <3>1, LiteralWrites
  <2>12. Writes(s.w, z, t \o e)
    BY <1>10, <2>11, WritesOn
  <2>13. PICK b \in Nat : (k + 1) + b = m /\ k + 2 = (k + 1) + 1
    <3>1. PICK j \in Nat : j = k /\ j < m
      BY <1>5, <1>12
    <3>2. PICK a \in Nat : a = k + 1 /\ a <= m /\ k + 2 = a + 1
      BY <3>1
    <3>3. PICK b \in Nat : a + b = m
      BY <3>2, Remains
    <3> QED BY <3>2, <3>3
  <2>14. PICK rest : rest = SubSeq(left, (k + 1) + 1, (k + 1) + b)
    BY Zenon
  <2>15. rest \in Seq(Bytes) /\ Len(rest) = b /\ \A i \in 1 .. b : rest[i] = left[(k + 1) + i]
    <3>1. PICK a \in Nat : a = k + 1
      BY <1>5
    <3>2. a + b <= Len(left)
      BY <1>2, <2>13, <3>1
    <3>3. rest = SubSeq(left, a + 1, a + b)
      BY <2>14, <3>1
    <3>4. rest \in Seq(Bytes) /\ Len(rest) = b /\ \A i \in 1 .. b : rest[i] = left[a + i]
      BY <1>2, <3>2, <3>3, SubSeqIs
    <3> QED BY <3>1, <3>4, Zenon
  <2>16. d = [w |-> z, left |-> rest]
    <3>1. Len(SafeRun(s.left)) = k /\ k # Len(s.left) /\ s.left # <<>>
      BY <1>2, <1>3, <1>4, <1>12
    <3>2. d = [w |-> Literal(Literal(s.w, RawText(SafeRun(s.left))), Escaped(s.left[k + 1])),
               left |-> SubSeq(s.left, k + 2, Len(s.left))]
      BY <3>1 DEF EscapeTurn
    <3> QED BY <1>2, <1>3, <1>7, <1>9, <2>2, <2>10, <2>13, <2>14, <3>2, Zenon
  <2>17. d = [w |-> d.w, left |-> d.left] /\ d.w = z /\ d.left = rest
    BY <2>16
  <2>18. Suffix(rest, value, q)
    <3>1. ASSUME NEW i \in 1 .. b
          PROVE  rest[i] = value[q + i]
      <4>1. (k + 1) + i \in 1 .. m /\ p + ((k + 1) + i) = q + i
        BY <1>0, <1>5, <2>1, <2>13
      <4> QED BY <1>2, <2>15, <4>1, Zenon
    <3>2. q + b = n
      BY <1>0, <1>5, <2>1, <2>13
    <3> QED BY <1>1, <2>15, <3>1, <3>2 DEF Suffix
  <2> QED BY <1>1, <2>1, <2>8, <2>9, <2>12, <2>17, <2>18 DEF TurnWrote
<1>13. k = m \/ k < m
  BY <1>5
<1> QED BY <1>11, <1>12, <1>13

(* The loop, after k turns: a beginning of the string was written, and the *)
(* rest is left; at least k bytes, unless the writer has failed.           *)
RunsWrote(s, x, value, g, k) ==
  /\ s = [w |-> s.w, left |-> s.left]
  /\ \E p \in Nat :
       /\ Stopped(s.w) \/ k <= p \/ p = Len(value)
       /\ p <= Len(value)
       /\ Suffix(s.left, value, p)
       /\ Writes(x, s.w, g[p])

LEMMA RunsGoOn ==
  ASSUME NEW value \in Seq(Bytes), NEW g, EscapesTo(g, value), NEW x, NEW k \in Nat,
         NEW s, RunsWrote(s, x, value, g, k), NEW d, d = EscapeTurn(s)
  PROVE  RunsWrote(d, x, value, g, k + 1)
<1>1. PICK p \in Nat :
        /\ Stopped(s.w) \/ k <= p \/ p = Len(value)
        /\ p <= Len(value)
        /\ Suffix(s.left, value, p)
        /\ Writes(x, s.w, g[p])
  BY DEF RunsWrote
<1>2. PICK n \in Nat : n = Len(value)
  BY LenProperties
<1>3. CASE Stopped(s.w)
  <2>1. d = s
    BY <1>3 DEF EscapeTurn
  <2> QED BY <1>1, <1>3, <2>1 DEF RunsWrote
<1>4. CASE s.left = <<>>
  <2>1. d = s
    BY <1>4 DEF EscapeTurn
  <2>2. p = n
    BY <1>1, <1>2, <1>4, EmptySeq DEF Suffix
  <2> QED BY <1>1, <1>2, <2>1, <2>2 DEF RunsWrote
<1>5. CASE ~Stopped(s.w) /\ s.left # <<>>
  <2>1. TextWriter(s.w)
    BY <1>1 DEF Writes
  <2>2. TurnWrote(s, d, value, g, p)
    BY <1>1, <1>5, <2>1, TurnWrites
  <2>3. PICK q \in Nat, t \in JSON :
          /\ p < q /\ q <= Len(value)
          /\ Suffix(d.left, value, q)
          /\ Segment(g, p, q, t)
          /\ Writes(s.w, d.w, t)
    BY <2>2 DEF TurnWrote
  <2>4. Writes(x, d.w, g[p] \o t)
    BY <1>1, <2>3, WritesOn
  <2>5. Writes(x, d.w, g[q])
    BY <2>3, <2>4 DEF Segment
  <2>6. p # n
    BY <1>2, <2>3
  <2>7. k + 1 <= q
    BY <1>1, <1>2, <1>5, <2>3, <2>6
  <2>8. d = [w |-> d.w, left |-> d.left]
    BY <2>2 DEF TurnWrote
  <2> QED BY <2>3, <2>5, <2>7, <2>8 DEF RunsWrote
<1> QED BY <1>3, <1>4, <1>5

(* write_escaped: the whole string, escaped.                               *)
LEMMA WriteRunsWrites ==
  ASSUME NEW value \in Seq(Bytes), NEW g, EscapesTo(g, value), NEW x, TextWriter(x)
  PROVE  Writes(x, WriteRuns(x, value), g[Len(value)])
<1>1. PICK n \in Nat : n = Len(value)
  BY LenProperties
<1>2. PICK after : Turns(after, n, x, value) /\ WriteRuns(x, value) = after[n].w
  BY <1>1, WriteRunsTurns
<1> DEFINE T == {k \in Nat : k <= n => RunsWrote(after[k], x, value, g, k)}
<1>3. 0 \in T
  <2>1. after[0] = [w |-> x, left |-> value]
    BY <1>2 DEF Turns
  <2>2. Suffix(value, value, 0)
    BY <1>1 DEF Suffix
  <2>3. g[0] = <<>>
    BY EscapesAre, Zenon
  <2>4. Writes(x, x, g[0])
    BY <2>3, NothingWritten
  <2> QED BY <1>1, <2>1, <2>2, <2>4 DEF RunsWrote
<1>4. ASSUME NEW k \in Nat, k \in T
      PROVE  k + 1 \in T
  <2> SUFFICES ASSUME k + 1 <= n
               PROVE  RunsWrote(after[k + 1], x, value, g, k + 1)
    OBVIOUS
  <2>1. RunsWrote(after[k], x, value, g, k)
    BY <1>4
  <2>2. PICK j : j = k + 1 /\ j \in 1 .. n /\ j - 1 = k
    OBVIOUS
  <2>3. after[j] = EscapeTurn(after[k])
    BY <1>2, <2>2, Zenon DEF Turns
  <2> QED BY <2>1, <2>2, <2>3, RunsGoOn
<1> HIDE DEF T
<1>5. Nat \subseteq T
  BY <1>3, <1>4, Induction
<1>6. RunsWrote(after[n], x, value, g, n)
  BY <1>5 DEF T
<1>7. PICK p \in Nat :
        /\ Stopped(after[n].w) \/ n <= p \/ p = Len(value)
        /\ p <= Len(value)
        /\ Suffix(after[n].left, value, p)
        /\ Writes(x, after[n].w, g[p])
  BY <1>6 DEF RunsWrote
<1>8. CASE p = n
  BY <1>1, <1>2, <1>7, <1>8
<1>9. CASE Stopped(after[n].w)
  <2>1. PICK t \in JSON : g[n] = g[p] \o t
    <3>1. PICK k \in Nat : p + k = n
      <4>1. n - p \in Nat /\ p + (n - p) = n
        BY <1>1, <1>7
      <4> QED BY <4>1
    <3>2. p + k <= Len(value)
      BY <1>1, <3>1
    <3>3. Continues(g[p + k], g[p])
      <4>1. p \in Nat /\ k \in Nat
        BY <1>7, <3>1
      <4> QED BY <3>2, <4>1, EscapesFurther, Zenon
    <3> QED BY <3>1, <3>3, Zenon DEF Continues
  <2>2. Writes(after[n].w, after[n].w, t)
    BY <1>7, <1>9, StoppedWrites DEF Writes
  <2>3. Writes(x, after[n].w, g[p] \o t)
    BY <1>7, <2>2, WritesOn
  <2> QED BY <1>1, <1>2, <2>1, <2>3
<1>10. p = n \/ Stopped(after[n].w)
  BY <1>1, <1>7
<1> QED BY <1>8, <1>9, <1>10

-----------------------------------------------------------------------------
(* A string, quoted.  The rows say truly whether any byte of the arena     *)
(* needs an escape.                                                        *)
PlainArena(v) ==
  v.stringsPlain => \A i \in 1 .. Len(v.strings) : ~NeedsEscape(v.strings[i])

LEMMA HeldIsValue ==
  ASSUME NEW v \in BatchView, NEW ref \in RowRef, NEW value, Holds(v.strings, ref, value)
  PROVE  /\ Resolves(v, ref)
         /\ Value(v, ref) = value
         /\ value \in Seq(Bytes)
<1>1. In(v, ref) /\ Value(v, ref) = value
  BY DEF Holds, In, Value
<1>2. Resolves(v, ref)
  BY <1>1, InResolves
<1> QED BY <1>1, <1>2, ValueFinite

(* jitjson_writer_plain_string: when the arena needs no escape its strings *)
(* are copied as they are.                                                 *)
LEMMA PlainTextIs ==
  ASSUME NEW v \in BatchView, PlainArena(v), v.stringsPlain, NEW ref \in RowRef,
         NEW value \in Seq(Bytes), Holds(v.strings, ref, value),
         NEW g, EscapesTo(g, value)
  PROVE  RawText(value) = g[Len(value)]
<1>1. PICK n \in Nat : n = Len(value)
  BY LenProperties
<1>2. PICK s : s = v.strings /\ s \in Seq(Bytes)
  BY DEF BatchView
<1>3. PICK m \in Nat : m = Len(s)
  BY <1>2, LenProperties
<1>4. PICK a \in Nat, b \in Nat : a = ref.offset /\ b = ref.length
  BY DEF RowRef
<1>5. a + b <= m /\ SubSeq(s, a + 1, a + b) = value
  BY <1>2, <1>3, <1>4 DEF Holds
<1>6. b = n /\ \A i \in 1 .. n : value[i] = s[a + i]
  <2>1. /\ Len(SubSeq(s, a + 1, a + b)) = b
        /\ \A i \in 1 .. b : SubSeq(s, a + 1, a + b)[i] = s[a + i]
    BY <1>2, <1>3, <1>5, SubSeqIs
  <2> QED BY <1>1, <1>5, <2>1
<1>7. \A i \in 1 .. n : ~NeedsEscape(value[i])
  <2> SUFFICES ASSUME NEW i \in 1 .. n
               PROVE  ~NeedsEscape(value[i])
    OBVIOUS
  <2>1. a + i \in 1 .. m
    BY <1>5, <1>6
  <2>2. ~NeedsEscape(s[a + i])
    BY <1>2, <1>3, <2>1 DEF PlainArena
  <2> QED BY <1>6, <2>2
<1>8. PlainRun(value, 0, n, value)
  <2>1. \A i \in 1 .. n : value[0 + i] = value[i]
    OBVIOUS
  <2> QED BY <1>1, <1>7, <2>1 DEF PlainRun
<1>9. RawText(value) \in JSON /\ g[0 + n] = g[0] \o RawText(value)
  <2>1. 0 + n <= Len(value)
    BY <1>1
  <2> QED BY <1>8, <2>1, RunIsText
<1>10. g[0] = <<>>
  BY EscapesAre, Zenon
<1>11. 0 + n = n
  OBVIOUS
<1> QED BY <1>1, <1>9, <1>10, <1>11, NoText

LEMMA WriteStringWrites ==
  ASSUME NEW x, TextWriter(x), NEW v \in BatchView, PlainArena(v), NEW ref \in RowRef,
         NEW value \in Seq(Bytes), Holds(v.strings, ref, value)
  PROVE  Writes(x, WriteString(x, v, ref), JSONString(value))
<1>1. PICK y : y = WriteString(x, v, ref)
  OBVIOUS
<1>2. CASE Stopped(x)
  <2>1. y = x
    BY <1>1, <1>2 DEF WriteString
  <2>2. JSONString(value) \in JSON
    BY StringTyped
  <2> QED BY <1>1, <1>2, <2>1, <2>2, StoppedWrites
<1>3. CASE ~Stopped(x)
  <2>1. PICK g : EscapesTo(g, value)
    BY EscapesExist
  <2>2. PICK t \in JSON : t = g[Len(value)] /\ JSONString(value) = (Quote \o t) \o Quote
    <3>1. Len(value) \in 0 .. Len(value)
      BY LenProperties
    <3> QED BY <2>1, <3>1, EscapesAre, Zenon
  <2>3. PICK opened : opened = Literal(x, Quote)
    OBVIOUS
  <2>4. Writes(x, opened, Quote) /\ TextWriter(opened)
    BY <2>3, QuoteTyped, LiteralWrites, Zenon DEF Writes
  <2>5. PICK body : body = IF v.stringsPlain THEN Literal(opened, RawText(value))
                           ELSE WriteRuns(opened, value)
    OBVIOUS
  <2>6. Writes(opened, body, t)
    <3>1. CASE v.stringsPlain
      <4>1. RawText(value) = t
        BY <2>1, <2>2, <3>1, PlainTextIs
      <4> QED BY <2>4, <2>5, <3>1, <4>1, LiteralWrites
    <3>2. CASE ~v.stringsPlain
      <4>1. body = WriteRuns(opened, value)
        BY <2>5, <3>2
      <4> QED BY <2>1, <2>2, <2>4, <4>1, WriteRunsWrites
    <3> QED BY <3>1, <3>2
  <2>7. PICK z : z = Literal(body, Quote)
    OBVIOUS
  <2>8. Writes(body, z, Quote)
    <3>1. TextWriter(body)
      BY <2>6 DEF Writes
    <3> QED BY <2>7, <3>1, QuoteTyped, LiteralWrites
  <2>9. Writes(x, body, Quote \o t)
    BY <2>4, <2>6, WritesOn
  <2>10. Writes(x, z, (Quote \o t) \o Quote)
    BY <2>8, <2>9, WritesOn
  <2>11. y = z
    <3>1. Resolves(v, ref) /\ Value(v, ref) = value
      BY HeldIsValue
    <3> QED BY <1>1, <1>3, <2>3, <2>5, <2>7, <3>1 DEF WriteString, Quoted
  <2> QED BY <1>1, <2>2, <2>10, <2>11
<1> QED BY <1>2, <1>3
-----------------------------------------------------------------------------
(* Integers.                                                               *)
LEMMA BelowModulus ==
  ASSUME NEW a \in Int, NEW m \in Nat \ {0}, 0 <= a, a < m
  PROVE  a % m = a
  OBVIOUS

LEMMA NegativeModulus ==
  ASSUME NEW a \in Int, NEW m \in Nat \ {0}, a < 0, -m <= a
  PROVE  a % m = a + m
  OBVIOUS

LEMMA MagnitudeIs ==
  ASSUME NEW v \in Ints
  PROVE  /\ Magnitude(v) = IF v < 0 THEN -v ELSE v
         /\ Magnitude(v) \in Nat
<1>1. v \in Int /\ -Half <= v /\ v < Half /\ Half \in Nat \ {0}
  BY HalfAssumption DEF Ints
<1>2. PICK m \in Nat \ {0} : m = Modulus /\ m = Half + Half
  BY <1>1 DEF Modulus
<1>3. CASE v >= 0
  <2>1. v % m = v
    BY <1>1, <1>2, <1>3, BelowModulus
  <2> QED BY <1>1, <1>2, <1>3, <2>1 DEF Magnitude, Unsigned
<1>4. CASE v < 0
  <2>1. Unsigned(v) = v + m
    BY <1>1, <1>2, <1>4, NegativeModulus DEF Unsigned
  <2>2. PICK a \in Int : a = 0 - Unsigned(v) /\ a < 0 /\ -m <= a
    BY <1>1, <1>2, <1>4, <2>1
  <2>3. a % m = a + m
    BY <1>2, <2>2, NegativeModulus
  <2>4. Magnitude(v) = a % m
    BY <1>2, <1>4, <2>2 DEF Magnitude
  <2> QED BY <1>1, <1>2, <1>4, <2>1, <2>2, <2>3, <2>4
<1> QED BY <1>1, <1>3, <1>4

(* The text of an integer, and the bytes that are counted for it.          *)
LEMMA IntegerTextIs ==
  ASSUME NEW v \in Ints
  PROVE  /\ Int64Bytes(v) = Decimal(v)
         /\ Decimal(v) \in JSON
         /\ Len(Decimal(v)) = Int64Length(v)
<1>1. PICK m \in Nat : m = Magnitude(v) /\ m = IF v < 0 THEN -v ELSE v
  BY MagnitudeIs
<1>2. DigitIn(Alphabet) /\ "-" \in Alphabet
  BY AlphabetAssumption DEF DigitIn
<1>3. ChosenBackwards(Digits) /\ ChosenForwards(DecimalDigits) /\ ChosenAfterFirst(Divisions)
  <2>1. ChosenBackwards(Digits)
    BY DEF ChosenBackwards, SolvesBackwards, Digits
  <2>2. ChosenForwards(DecimalDigits)
    BY DEF ChosenForwards, SolvesForwards, DecimalDigits
  <2>3. ChosenAfterFirst(Divisions)
    BY DEF ChosenAfterFirst, SolvesAfterFirst, Divisions
  <2> QED BY <2>1, <2>2, <2>3
<1>4. /\ Digits[m] \in Seq(Alphabet) /\ DecimalDigits[m] \in Seq(Alphabet)
      /\ Divisions[m] \in Nat
      /\ Reverse(Digits[m]) = DecimalDigits[m]
      /\ Len(Digits[m]) = 1 + Divisions[m]
  BY <1>2, <1>3, DigitTexts
<1>5. PICK d \in JSON, t \in JSON : d = Digits[m] /\ t = DecimalDigits[m]
  BY <1>4 DEF JSON
<1>6. PICK n \in Nat : n = Divisions[m]
  BY <1>4
<1>7. Reverse(d) = t /\ Len(d) = 1 + n
  BY <1>4, <1>5, <1>6
<1>8. Len(t) = 1 + n
  <2>1. d \in Seq(Alphabet)
    BY <1>5 DEF JSON
  <2> QED BY <1>7, <2>1, ReverseIs
<1>9. <<"-">> \in JSON /\ Len(<<"-">>) = 1
  BY <1>2 DEF JSON
<1>10. CASE v < 0
  <2>1. /\ Buffer(v) = d \o <<"-">> /\ Decimal(v) = <<"-">> \o t
        /\ Int64Length(v) = 2 + n
    BY <1>1, <1>5, <1>6, <1>10, Zenon DEF Buffer, Decimal, Int64Length
  <2>2. Reverse(d \o <<"-">>) = Reverse(<<"-">>) \o Reverse(d)
    BY <1>5, <1>9, ReverseJoined, Zenon DEF JSON
  <2>3. Reverse(<<"-">>) = <<"-">>
    BY <1>2, ReverseOne
  <2>4. Int64Bytes(v) = Decimal(v)
    BY <1>7, <2>1, <2>2, <2>3, Zenon DEF Int64Bytes
  <2>5. <<"-">> \o t \in JSON /\ Len(<<"-">> \o t) = 1 + (1 + n)
    BY <1>5, <1>8, <1>9, TextsJoin, Zenon
  <2>6. 1 + (1 + n) = 2 + n
    OBVIOUS
  <2> QED BY <2>1, <2>4, <2>5, <2>6
<1>11. CASE ~(v < 0)
  <2>1. /\ Buffer(v) = d \o <<>> /\ Decimal(v) = t /\ Int64Length(v) = 1 + n
    BY <1>1, <1>5, <1>6, <1>11 DEF Buffer, Decimal, Int64Length
  <2>2. d \o <<>> = d
    BY <1>5, NoText
  <2> QED BY <1>5, <1>7, <1>8, <2>1, <2>2 DEF Int64Bytes
<1> QED BY <1>10, <1>11

-----------------------------------------------------------------------------
(* The steps of a table, one behind the other.                             *)
LEMMA FlattenTexts ==
  ASSUME NEW n \in Nat, NEW texts, texts = [k \in 1 .. n |-> texts[k]],
         \A k \in 1 .. n : texts[k] \in JSON,
         NEW g, Concatenates(g, n, texts, Alphabet)
  PROVE  FlattenSeq(texts) = g[n]
<1>1. \A k \in 1 .. n : texts[k] \in Seq(Alphabet)
  BY DEF JSON
<1>2. DOMAIN texts = 1 .. n
  OBVIOUS
<1>3. Len(texts) = n
  <2>1. texts \in Seq(JSON)
    OBVIOUS
  <2> QED BY <1>2, <2>1, LenProperties
<1> QED BY <1>1, <1>2, <1>3, FlattenIs

LEMMA TableWrites ==
  ASSUME NEW n \in Nat, NEW texts, texts = [k \in 1 .. n |-> texts[k]],
         \A k \in 1 .. n : texts[k] \in JSON,
         NEW after, TextWriter(after[0]), WritesEach(after, n, texts)
  PROVE  Writes(after[0], after[n], FlattenSeq(texts))
<1>1. \A k \in 1 .. n : texts[k] \in Seq(Alphabet)
  BY DEF JSON
<1>2. PICK g : Concatenates(g, n, texts, Alphabet)
  BY <1>1, Concatenations, Zenon
<1>3. FlattenSeq(texts) = g[n]
  BY <1>2, FlattenTexts
<1>4. Writes(after[0], after[n], g[n])
  BY <1>2, WritesAlong
<1> QED BY <1>3, <1>4

LEMMA LiteralsTyped ==
  /\ Comma \in JSON /\ LeftBracket \in JSON /\ RightBracket \in JSON
  /\ Chars("null") \in JSON /\ Chars("true") \in JSON /\ Chars("false") \in JSON
  /\ Chars(NativeLiteral.null) = Chars("null")
  /\ Chars(NativeLiteral.true) = Chars("true")
  /\ Chars(NativeLiteral.false) = Chars("false")
<1>1. Comma \in JSON /\ LeftBracket \in JSON /\ RightBracket \in JSON
  BY AlphabetAssumption, Zenon DEF Comma, LeftBracket, RightBracket, Literals
<1>2. /\ NativeLiteral.null = "null" /\ NativeLiteral.true = "true"
      /\ NativeLiteral.false = "false"
  BY DEF NativeLiteral
<1>3. {"null", "true", "false"} \subseteq Literals
  <2>1. {"null", "true", "false"} \subseteq DOMAIN NativeLiteral
    BY DEF NativeLiteral
  <2>2. /\ NativeLiteral["null"] = "null" /\ NativeLiteral["true"] = "true"
        /\ NativeLiteral["false"] = "false"
    BY <1>2
  <2>3. \A name \in DOMAIN NativeLiteral : NativeLiteral[name] \in Literals
    BY Zenon DEF Literals
  <2> QED BY <2>1, <2>2, <2>3
<1>4. Chars("null") \in JSON /\ Chars("true") \in JSON /\ Chars("false") \in JSON
  BY <1>3, AlphabetAssumption
<1> QED BY <1>1, <1>2, <1>4

(* An element of a list, with the comma in front of it.                    *)
Separator(i) == IF i > 1 THEN Comma ELSE <<>>
Elements(parts, n) == [i \in 1 .. n |-> Separator(i) \o parts[i]]

LEMMA ElementTyped ==
  ASSUME NEW i \in Nat, NEW t \in JSON
  PROVE  Separator(i) \in JSON /\ Separator(i) \o t \in JSON
<1>1. Separator(i) \in JSON
  BY LiteralsTyped, NoText DEF Separator
<1> QED BY <1>1, TextsJoin

LEMMA ElementWrites ==
  ASSUME NEW x, TextWriter(x), NEW i \in Nat, NEW t \in JSON, NEW y, NEW z,
         NEW a, a = IF i > 1 THEN Literal(x, Comma) ELSE x,
         TextWriter(a) => Writes(a, z, t),
         y = IF Stopped(x) THEN x ELSE z
  PROVE  Writes(x, y, Separator(i) \o t)
<1>1. CASE Stopped(x)
  <2>1. Separator(i) \o t \in JSON
    BY ElementTyped
  <2> QED BY <1>1, <2>1, StoppedWrites
<1>2. CASE ~Stopped(x)
  <2>1. Writes(x, a, Separator(i))
    BY LiteralsTyped, LiteralWrites, NothingWritten DEF Separator
  <2>2. Writes(a, z, t)
    BY <2>1 DEF Writes
  <2>3. Writes(x, z, Separator(i) \o t)
    BY <2>1, <2>2, WritesOn
  <2> QED BY <1>2, <2>3
<1> QED BY <1>1, <1>2

(* A list: its brackets and, in between, its elements.                     *)
ListWrites(after, n, parts) ==
  \A i \in 1 .. n :
    TextWriter(after[i - 1]) => Writes(after[i - 1], after[i], Separator(i) \o parts[i])

LEMMA BracketsWrite ==
  ASSUME NEW n \in Nat, NEW parts, parts = [i \in 1 .. n |-> parts[i]],
         \A i \in 1 .. n : parts[i] \in JSON,
         NEW x, TextWriter(x), NEW after, after[0] = Literal(x, LeftBracket),
         ListWrites(after, n, parts)
  PROVE  Writes(x, Literal(after[n], RightBracket), Bracketed(parts))
<1>1. PICK texts : texts = Elements(parts, n)
  BY Zenon
<1>2. texts = [i \in 1 .. n |-> texts[i]]
  BY <1>1 DEF Elements
<1>3. \A i \in 1 .. n : texts[i] = Separator(i) \o parts[i]
  BY <1>1 DEF Elements
<1>4. \A i \in 1 .. n : texts[i] \in JSON
  <2> SUFFICES ASSUME NEW i \in 1 .. n
               PROVE  texts[i] \in JSON
    OBVIOUS
  <2>1. i \in Nat /\ parts[i] \in JSON
    OBVIOUS
  <2> QED BY <1>3, <2>1, ElementTyped, Zenon
<1>5. WritesEach(after, n, texts)
  BY <1>3, Zenon DEF WritesEach, ListWrites
<1>6. Writes(x, after[0], LeftBracket)
  BY LiteralsTyped, LiteralWrites
<1>7. Writes(after[0], after[n], FlattenSeq(texts))
  <2>1. TextWriter(after[0])
    BY <1>6 DEF Writes
  <2> QED BY <1>2, <1>4, <1>5, <2>1, TableWrites
<1>8. PICK z : z = Literal(after[n], RightBracket)
  OBVIOUS
<1>9. Writes(after[n], z, RightBracket)
  <2>1. TextWriter(after[n])
    BY <1>7 DEF Writes
  <2> QED BY <1>8, <2>1, LiteralsTyped, LiteralWrites
<1>10. Writes(x, z, (LeftBracket \o FlattenSeq(texts)) \o RightBracket)
  <2>1. Writes(x, after[n], LeftBracket \o FlattenSeq(texts))
    BY <1>6, <1>7, WritesOn
  <2> QED BY <1>9, <2>1, WritesOn
<1>11. Bracketed(parts) = (LeftBracket \o FlattenSeq(texts)) \o RightBracket
  <2>1. Len(parts) = n
    <3>1. parts \in Seq(JSON) /\ DOMAIN parts = 1 .. n
      OBVIOUS
    <3> QED BY <3>1, LenProperties
  <2>2. texts = [i \in 1 .. Len(parts) |-> (IF i > 1 THEN Comma ELSE <<>>) \o parts[i]]
    BY <1>1, <2>1 DEF Elements, Separator
  <2> QED BY <2>2 DEF Bracketed
<1> QED BY <1>8, <1>10, <1>11, Zenon
-----------------------------------------------------------------------------
(* The steps.  What a row has to hold for a step to write what the         *)
(* reference encoder appends.                                              *)
TextHeld(v, ref, value) ==
  ref \in RowRef /\ value \in Seq(Bytes) /\ Holds(v.strings, ref, value)

StepHeld(v, step, row, from) ==
  \/ step.kind = "literal" /\ step.arg \in JSON
  \/ step.kind = "string" /\ TextHeld(v, row[step.arg], from[step.arg])
  \/ /\ step.kind = "bool"
     /\ from[step.arg] \in BOOLEAN
     /\ row[step.arg] = IF from[step.arg] THEN 1 ELSE 0
  \/ step.kind = "int" /\ row[step.arg] = from[step.arg] /\ from[step.arg] \in Ints
  \/ /\ step.kind = "nullable"
     /\ \/ from[step.arg] = Nil /\ row.hasTrackingNo = 0
        \/ /\ from[step.arg] # Nil
           /\ row.hasTrackingNo = 1
           /\ TextHeld(v, row[step.arg], from[step.arg])

LEMMA StepWrites ==
  ASSUME NEW x, TextWriter(x), NEW v \in BatchView, PlainArena(v), NEW step, NEW row,
         NEW from, StepHeld(v, step, row, from)
  PROVE  Writes(x, WriteStep(x, v, step, row), ReferenceStep(step, from))
<1>1. CASE step.kind = "literal" /\ step.arg \in JSON
  <2>1. WriteStep(x, v, step, row) = Literal(x, step.arg) /\ ReferenceStep(step, from) = step.arg
    BY <1>1 DEF WriteStep, ReferenceStep
  <2> QED BY <1>1, <2>1, LiteralWrites
<1>2. CASE step.kind = "string" /\ TextHeld(v, row[step.arg], from[step.arg])
  <2>1. /\ WriteStep(x, v, step, row) = WriteString(x, v, row[step.arg])
        /\ ReferenceStep(step, from) = JSONString(from[step.arg])
    BY <1>2 DEF WriteStep, ReferenceStep
  <2> QED BY <1>2, <2>1, WriteStringWrites DEF TextHeld
<1>3. CASE /\ step.kind = "bool" /\ from[step.arg] \in BOOLEAN
           /\ row[step.arg] = IF from[step.arg] THEN 1 ELSE 0
  <2>1. PICK t \in JSON : t = IF from[step.arg] THEN Chars("true") ELSE Chars("false")
    BY LiteralsTyped
  <2>2. row[step.arg] # 0 <=> from[step.arg]
    BY <1>3
  <2>3. WriteStep(x, v, step, row)
          = Literal(x, IF row[step.arg] # 0 THEN Chars(NativeLiteral.true)
                                            ELSE Chars(NativeLiteral.false))
    BY <1>3 DEF WriteStep
  <2>4. WriteStep(x, v, step, row) = Literal(x, t)
    BY <2>1, <2>2, <2>3, LiteralsTyped
  <2>5. ReferenceStep(step, from) = Chars(IF from[step.arg] THEN "true" ELSE "false")
    BY <1>3 DEF ReferenceStep
  <2>6. ReferenceStep(step, from) = t
    BY <2>1, <2>5
  <2> QED BY <2>4, <2>6, LiteralWrites
<1>4. CASE step.kind = "int" /\ row[step.arg] = from[step.arg] /\ from[step.arg] \in Ints
  <2>1. /\ WriteStep(x, v, step, row) = Literal(x, Int64Bytes(from[step.arg]))
        /\ ReferenceStep(step, from) = Decimal(from[step.arg])
    BY <1>4 DEF WriteStep, ReferenceStep
  <2> QED BY <1>4, <2>1, IntegerTextIs, LiteralWrites
<1>5. CASE step.kind = "nullable" /\ from[step.arg] = Nil /\ row.hasTrackingNo = 0
  <2>1. /\ WriteStep(x, v, step, row) = Literal(x, Chars(NativeLiteral.null))
        /\ ReferenceStep(step, from) = Chars("null")
    BY <1>5 DEF WriteStep, ReferenceStep
  <2> QED BY <2>1, LiteralsTyped, LiteralWrites
<1>6. CASE /\ step.kind = "nullable" /\ from[step.arg] # Nil /\ row.hasTrackingNo = 1
           /\ TextHeld(v, row[step.arg], from[step.arg])
  <2>1. /\ WriteStep(x, v, step, row) = WriteString(x, v, row[step.arg])
        /\ ReferenceStep(step, from) = JSONString(from[step.arg])
    BY <1>6 DEF WriteStep, ReferenceStep
  <2> QED BY <1>6, <2>1, WriteStringWrites DEF TextHeld
<1> QED BY <1>1, <1>2, <1>3, <1>4, <1>5, <1>6 DEF StepHeld

LEMMA StepTyped ==
  ASSUME NEW v \in BatchView, PlainArena(v), NEW step, NEW row,
         NEW from, StepHeld(v, step, row, from)
  PROVE  ReferenceStep(step, from) \in JSON
<1>1. PICK x : x = Writer(<<>>, 0, "OK")
  OBVIOUS
<1>2. TextWriter(x)
  <2>1. IsWriter(x) /\ x.cap = 0 /\ x.text = <<>>
    BY <1>1, WriterIs, Zenon DEF Writer, Statuses
  <2> QED BY <2>1, NoText DEF TextWriter
<1> QED BY <1>2, StepWrites DEF Writes

-----------------------------------------------------------------------------
(* Items.                                                                  *)
LEMMA NativeLiteralTyped ==
  ASSUME NEW name \in DOMAIN NativeLiteral
  PROVE  Chars(NativeLiteral[name]) \in JSON
BY AlphabetAssumption, Zenon DEF Literals

LEMMA ItemTablesAre ==
  /\ Len(ReferenceItemTable) = 9
  /\ \A k \in 1 .. 9 : ReferenceItemTable[k] = NativeItemTable[k]
<1>1. Len(ReferenceItemTable) = 9
  BY DEF ReferenceItemTable
<1>2. ReferenceItemTable = NativeItemTable
  BY DEF ReferenceItemTable, NativeItemTable, GoLiteral, NativeLiteral
<1> QED BY <1>1, <1>2

LEMMA ItemStepHeld ==
  ASSUME NEW v, NEW row \in ItemRow, NEW item \in Item, ItemHeld(v.strings, row, item),
         NEW k \in 1 .. 9
  PROVE  StepHeld(v, NativeItemTable[k], row, item)
<1>1. CASE k \in {1, 3, 5, 7, 9}
  <2>1. PICK name \in DOMAIN NativeLiteral : NativeItemTable[k] = Lit(NativeLiteral[name])
    <3>1. {"item_sku", "item_title", "item_qty", "item_price", "item_end"}
            \subseteq DOMAIN NativeLiteral
      BY DEF NativeLiteral
    <3>2. /\ NativeItemTable[1] = Lit(NativeLiteral["item_sku"])
          /\ NativeItemTable[3] = Lit(NativeLiteral["item_title"])
          /\ NativeItemTable[5] = Lit(NativeLiteral["item_qty"])
          /\ NativeItemTable[7] = Lit(NativeLiteral["item_price"])
          /\ NativeItemTable[9] = Lit(NativeLiteral["item_end"])
      BY DEF NativeItemTable
    <3> QED BY <1>1, <3>1, <3>2
  <2>2. NativeItemTable[k].kind = "literal" /\ NativeItemTable[k].arg \in JSON
    BY <2>1, NativeLiteralTyped DEF Lit
  <2> QED BY <2>2 DEF StepHeld
<1>2. CASE k \in {2, 4}
  <2>1. PICK field \in {"sku", "title"} : NativeItemTable[k] = Str(field)
    <3>1. NativeItemTable[2] = Str("sku") /\ NativeItemTable[4] = Str("title")
      BY DEF NativeItemTable
    <3> QED BY <1>2, <3>1
  <2>2. NativeItemTable[k].kind = "string" /\ NativeItemTable[k].arg = field
    BY <2>1 DEF Str
  <2>3. TextHeld(v, row[field], item[field])
    <3>1. row["sku"] \in RowRef /\ row["title"] \in RowRef
      BY ItemRowIs
    <3>2. item["sku"] \in Seq(Bytes) /\ item["title"] \in Seq(Bytes)
      BY ItemIs
    <3>3. /\ Holds(v.strings, row["sku"], item["sku"])
          /\ Holds(v.strings, row["title"], item["title"])
      BY DEF ItemHeld
    <3> QED BY <3>1, <3>2, <3>3 DEF TextHeld
  <2> QED BY <2>2, <2>3 DEF StepHeld
<1>3. CASE k \in {6, 8}
  <2>1. PICK field \in {"qty", "price"} : NativeItemTable[k] = Num(field)
    <3>1. NativeItemTable[6] = Num("qty") /\ NativeItemTable[8] = Num("price")
      BY DEF NativeItemTable
    <3> QED BY <1>3, <3>1
  <2>2. NativeItemTable[k].kind = "int" /\ NativeItemTable[k].arg = field
    BY <2>1 DEF Num
  <2>3. row[field] = item[field] /\ item[field] \in Ints
    BY ItemIs DEF ItemHeld
  <2> QED BY <2>2, <2>3 DEF StepHeld
<1> QED BY <1>1, <1>2, <1>3

ItemTexts(item) == [k \in 1 .. 9 |-> ReferenceStep(ReferenceItemTable[k], item)]

LEMMA ItemWrites ==
  ASSUME NEW x, TextWriter(x), NEW v \in BatchView, PlainArena(v),
         NEW row \in ItemRow, NEW item \in Item, ItemHeld(v.strings, row, item)
  PROVE  Writes(x, WriteItem(x, v, row), ReferenceItem(item))
<1>1. PICK n \in Nat : n = 9 /\ n = Len(NativeItemTable)
  BY ItemTable, Zenon
<1>2. PICK after : ItemSteps(after, n, x, v, row) /\ WriteItem(x, v, row) = after[n]
  BY <1>1, WriteItemSteps
<1>3. PICK texts : texts = ItemTexts(item)
  OBVIOUS
<1>4. ASSUME NEW k \in 1 .. n
      PROVE  /\ texts[k] = ReferenceStep(NativeItemTable[k], item)
             /\ StepHeld(v, NativeItemTable[k], row, item)
  <2>1. k \in 1 .. 9
    BY <1>1
  <2>2. texts[k] = ReferenceStep(ReferenceItemTable[k], item)
    BY <1>3, <2>1 DEF ItemTexts
  <2> QED BY <2>1, <2>2, ItemTablesAre, ItemStepHeld
<1>5. \A k \in 1 .. n : texts[k] \in JSON
  BY <1>4, StepTyped
<1>6. WritesEach(after, n, texts)
  <2> SUFFICES ASSUME NEW k \in 1 .. n, TextWriter(after[k - 1])
               PROVE  Writes(after[k - 1], after[k], texts[k])
    BY DEF WritesEach
  <2>1. after[k] = WriteStep(after[k - 1], v, NativeItemTable[k], row)
    BY <1>2, Zenon DEF ItemSteps
  <2> QED BY <1>4, <2>1, StepWrites
<1>7. after[0] = x
  BY <1>2 DEF ItemSteps
<1>8. texts = [k \in 1 .. n |-> texts[k]]
  BY <1>1, <1>3 DEF ItemTexts
<1>9. Writes(x, after[n], FlattenSeq(texts))
  BY <1>5, <1>6, <1>7, <1>8, TableWrites
<1>10. ReferenceItem(item) = FlattenSeq(texts)
  BY <1>3, ItemTablesAre DEF ReferenceItem, ItemTexts
<1> QED BY <1>2, <1>9, <1>10

LEMMA ItemTyped ==
  ASSUME NEW v \in BatchView, PlainArena(v),
         NEW row \in ItemRow, NEW item \in Item, ItemHeld(v.strings, row, item)
  PROVE  ReferenceItem(item) \in JSON
<1>1. PICK x : x = Writer(<<>>, 0, "OK")
  OBVIOUS
<1>2. TextWriter(x)
  <2>1. IsWriter(x) /\ x.cap = 0 /\ x.text = <<>>
    BY <1>1, WriterIs, Zenon DEF Writer, Statuses
  <2> QED BY <2>1, NoText DEF TextWriter
<1> QED BY <1>2, ItemWrites DEF Writes

(* The items of an order.                                                  *)
LEMMA ListOfItemsWrites ==
  ASSUME NEW x, TextWriter(x), NEW v \in BatchView, PlainArena(v), NEW row \in OrderRow,
         NEW items \in Seq(Item), row.itemCount = Len(items),
         row.itemStart + row.itemCount <= Len(v.items),
         \A i \in 1 .. row.itemCount :
           ItemHeld(v.strings, v.items[row.itemStart + i], items[i])
  PROVE  Writes(x, WriteList(x, v, row),
                Bracketed([i \in 1 .. Len(items) |-> ReferenceItem(items[i])]))
<1>1. PICK n \in Nat : n = Len(items)
  BY LenProperties
<1>2. PICK after : /\ ListTurns(after, n, x, v, row)
                   /\ WriteList(x, v, row) = Literal(after[n], RightBracket)
  BY <1>1, WriteListTurns
<1>3. PICK parts : parts = [i \in 1 .. n |-> ReferenceItem(items[i])]
  BY Zenon
<1>4. PICK a \in Nat, m \in Nat, rows \in Seq(ItemRow) :
        a = row.itemStart /\ m = Len(rows) /\ rows = v.items /\ a + n <= m
  <2>1. v.items \in Seq(ItemRow) /\ row.itemStart \in Nat
    BY DEF BatchView, OrderRow
  <2> QED BY <1>1, <2>1, LenProperties
<1>5. ASSUME NEW i \in 1 .. n
      PROVE  /\ v.items[row.itemStart + i] \in ItemRow
             /\ items[i] \in Item
             /\ ItemHeld(v.strings, v.items[row.itemStart + i], items[i])
             /\ parts[i] = ReferenceItem(items[i])
  <2>1. a + i \in 1 .. m
    BY <1>4
  <2>2. rows[a + i] \in ItemRow
    BY <1>4, <2>1, ElementOfSeq, Zenon
  <2>3. items[i] \in Item
    BY <1>1, ElementOfSeq
  <2> QED BY <1>1, <1>3, <1>4, <2>2, <2>3
<1>6. \A i \in 1 .. n : parts[i] \in JSON
  BY <1>5, ItemTyped
<1>7. ListWrites(after, n, parts)
  <2> SUFFICES ASSUME NEW i \in 1 .. n, TextWriter(after[i - 1])
               PROVE  Writes(after[i - 1], after[i], Separator(i) \o parts[i])
    BY DEF ListWrites
  <2>1. PICK y, r : y = after[i - 1] /\ r = v.items[row.itemStart + i]
    OBVIOUS
  <2>2. PICK b : b = IF i > 1 THEN Literal(y, Comma) ELSE y
    OBVIOUS
  <2>3. PICK z : z = WriteItem(b, v, r)
    OBVIOUS
  <2>4. after[i] = IF Stopped(y) THEN y ELSE z
    <3>1. after[i] = NextItem(y, v, row, i)
      BY <1>2, <2>1, Zenon DEF ListTurns
    <3> QED BY <2>1, <2>2, <2>3, <3>1 DEF NextItem
  <2>5. TextWriter(b) => Writes(b, z, parts[i])
    BY <1>5, <2>1, <2>3, ItemWrites
  <2>6. i \in Nat /\ parts[i] \in JSON /\ TextWriter(y)
    BY <1>6, <2>1
  <2>7. Writes(y, after[i], Separator(i) \o parts[i])
    BY <2>2, <2>4, <2>5, <2>6, ElementWrites, Zenon
  <2> QED BY <2>1, <2>7
<1>8. after[0] = Literal(x, LeftBracket)
  BY <1>2 DEF ListTurns
<1>9. parts = [i \in 1 .. n |-> parts[i]]
  BY <1>3
<1>10. Writes(x, Literal(after[n], RightBracket), Bracketed(parts))
  BY <1>6, <1>7, <1>8, <1>9, BracketsWrite, Zenon
<1> QED BY <1>1, <1>2, <1>3, <1>10

LEMMA ItemsWrite ==
  ASSUME NEW x, TextWriter(x), NEW v \in BatchView, PlainArena(v), NEW row \in OrderRow,
         NEW order \in Order, RowHeld(row, v.items, v.strings, order)
  PROVE  Writes(x, WriteItems(x, v, row), ReferenceItems(order.items))
<1>1. PICK items : items = order.items /\ items = order["items"]
  OBVIOUS
<1>2. /\ items = Nil => row.itemsNull = 1 /\ row.itemCount = 0
      /\ items # Nil =>
           /\ row.itemsNull = 0
           /\ row.itemCount = Len(items)
           /\ row.itemStart + row.itemCount <= Len(v.items)
           /\ \A i \in 1 .. row.itemCount :
                ItemHeld(v.strings, v.items[row.itemStart + i], items[i])
  BY <1>1 DEF RowHeld, OrderHeld, ItemsDone, Snapshot
<1>3. CASE items = Nil
  <2>1. row.itemsNull # 0 /\ row.itemCount = 0
    BY <1>2, <1>3
  <2>2. WriteItems(x, v, row) = Literal(x, Chars(NativeLiteral.null))
    BY <2>1 DEF WriteItems
  <2>3. ReferenceItems(order.items) = Chars("null")
    BY <1>1, <1>3 DEF ReferenceItems
  <2> QED BY <2>2, <2>3, LiteralsTyped, LiteralWrites
<1>4. CASE items # Nil
  <2>1. items \in Seq(Item)
    BY <1>1, <1>4, OrderIs
  <2>2. WriteItems(x, v, row) = WriteList(x, v, row)
    <3>1. PICK m \in Nat, a \in Nat, n \in Nat :
            m = Len(v.items) /\ a = row.itemStart /\ n = row.itemCount
      <4>1. v.items \in Seq(ItemRow) /\ row.itemStart \in Nat /\ row.itemCount \in Nat
        BY DEF BatchView, OrderRow
      <4> QED BY <4>1, LenProperties
    <3>2. a + n <= m
      BY <1>2, <1>4, <3>1
    <3>3. ~(a > m \/ n > m - a)
      BY <3>1, <3>2
    <3> QED BY <1>2, <1>4, <3>1, <3>3 DEF WriteItems
  <2>3. ReferenceItems(order.items)
          = Bracketed([i \in 1 .. Len(items) |-> ReferenceItem(items[i])])
    BY <1>1, <1>4 DEF ReferenceItems
  <2>4. Writes(x, WriteList(x, v, row),
               Bracketed([i \in 1 .. Len(items) |-> ReferenceItem(items[i])]))
    BY <1>2, <1>4, <2>1, ListOfItemsWrites
  <2> QED BY <2>2, <2>3, <2>4
<1> QED BY <1>3, <1>4

-----------------------------------------------------------------------------
(* Orders.  What a row that holds an order lets a step of the table write. *)
LEMMA StaticLiterals ==
  ASSUME NEW k \in {1, 3, 5, 7, 9, 11, 13, 15, 17, 19, 21, 23, 25}
  PROVE  StaticTable[k].kind = "literal" /\ StaticTable[k].arg \in JSON
<1>1. {"order_id", "created_at", "status", "payment_method", "paid", "buyer_id",
       "buyer_name", "shipping_city", "address", "tracking_no", "items", "remark",
       "order_end"} \subseteq DOMAIN NativeLiteral
  BY DEF NativeLiteral
<1>2. /\ StaticTable[1] = Lit(NativeLiteral["order_id"])
      /\ StaticTable[3] = Lit(NativeLiteral["created_at"])
      /\ StaticTable[5] = Lit(NativeLiteral["status"])
      /\ StaticTable[7] = Lit(NativeLiteral["payment_method"])
      /\ StaticTable[9] = Lit(NativeLiteral["paid"])
      /\ StaticTable[11] = Lit(NativeLiteral["buyer_id"])
      /\ StaticTable[13] = Lit(NativeLiteral["buyer_name"])
  BY DEF StaticTable
<1>3. /\ StaticTable[15] = Lit(NativeLiteral["shipping_city"])
      /\ StaticTable[17] = Lit(NativeLiteral["address"])
      /\ StaticTable[19] = Lit(NativeLiteral["tracking_no"])
      /\ StaticTable[21] = Lit(NativeLiteral["items"])
      /\ StaticTable[23] = Lit(NativeLiteral["remark"])
      /\ StaticTable[25] = Lit(NativeLiteral["order_end"])
  BY DEF StaticTable
<1>4. PICK name \in DOMAIN NativeLiteral : StaticTable[k] = Lit(NativeLiteral[name])
  <2>1. CASE k \in {1, 3, 5, 7, 9, 11, 13}
    BY <1>1, <1>2, <2>1
  <2>2. CASE k \in {15, 17, 19, 21, 23, 25}
    BY <1>1, <1>3, <2>2
  <2> QED BY <2>1, <2>2
<1> QED BY <1>4, NativeLiteralTyped DEF Lit

LEMMA StaticOthers ==
  /\ StaticTable[10] = Bool("paid") /\ StaticTable[12] = Num("buyerID")
  /\ StaticTable[20] = Nullable("trackingNo") /\ StaticTable[22] = ItemList
  /\ \A k \in {2, 4, 6, 8, 14, 16, 18, 24} :
       \E field \in OrderStrings : StaticTable[k] = Str(field)
<1>1. /\ StaticTable[10] = Bool("paid") /\ StaticTable[12] = Num("buyerID")
      /\ StaticTable[20] = Nullable("trackingNo") /\ StaticTable[22] = ItemList
  BY DEF StaticTable
<1>2. /\ StaticTable[2] = Str("orderID") /\ StaticTable[4] = Str("createdAt")
      /\ StaticTable[6] = Str("status") /\ StaticTable[8] = Str("paymentMethod")
      /\ StaticTable[14] = Str("buyerName") /\ StaticTable[16] = Str("city")
      /\ StaticTable[18] = Str("address") /\ StaticTable[24] = Str("remark")
  BY DEF StaticTable
<1>3. \A k \in {2, 4, 6, 8, 14, 16, 18, 24} :
        \E field \in OrderStrings : StaticTable[k] = Str(field)
  BY <1>2 DEF OrderStrings
<1> QED BY <1>1, <1>3

LEMMA OrderFieldHeld ==
  ASSUME NEW v, NEW row \in OrderRow, NEW order \in Order,
         RowHeld(row, v.items, v.strings, order)
  PROVE  /\ \A field \in OrderStrings : TextHeld(v, row[field], order[field])
         /\ order["paid"] \in BOOLEAN
         /\ row["paid"] = IF order["paid"] THEN 1 ELSE 0
         /\ row["buyerID"] = order["buyerID"] /\ order["buyerID"] \in Ints
         /\ order["trackingNo"] = Nil => row.hasTrackingNo = 0
         /\ order["trackingNo"] # Nil =>
              /\ row.hasTrackingNo = 1
              /\ TextHeld(v, row["trackingNo"], order["trackingNo"])
<1>1. PICK b : b = Snapshot(row, v.items, v.strings)
  OBVIOUS
<1>2. b.row = row /\ b.strings = v.strings /\ OrderHeld(b, order)
  BY <1>1 DEF Snapshot, RowHeld
<1>3. ASSUME NEW field \in OrderStrings
      PROVE  TextHeld(v, row[field], order[field])
  <2>1. field \in OrderRefs
    BY DEF OrderStrings, OrderRefs
  <2>2. row[field] \in RowRef /\ order[field] \in Seq(Bytes)
    BY <2>1, OrderRefField, OrderIs
  <2>3. Holds(v.strings, row[field], order[field])
    BY <1>2 DEF OrderHeld, StringDone
  <2> QED BY <2>2, <2>3 DEF TextHeld
<1>4. /\ row["paid"] = IF order["paid"] THEN 1 ELSE 0
      /\ row["buyerID"] = order["buyerID"]
  BY <1>2 DEF OrderHeld, ItemsDone
<1>5. order["trackingNo"] = Nil => row.hasTrackingNo = 0
  BY <1>2 DEF OrderHeld, TrackingDone
<1>6. ASSUME order["trackingNo"] # Nil
      PROVE  /\ row.hasTrackingNo = 1
             /\ TextHeld(v, row["trackingNo"], order["trackingNo"])
  <2>1. row["trackingNo"] \in RowRef /\ order["trackingNo"] \in Seq(Bytes)
    BY <1>6, OrderRefField, OrderIs DEF OrderRefs
  <2>2. row.hasTrackingNo = 1 /\ Holds(v.strings, row["trackingNo"], order["trackingNo"])
    BY <1>2, <1>6 DEF OrderHeld, TrackingDone, StringDone
  <2> QED BY <2>1, <2>2 DEF TextHeld
<1>7. order["paid"] \in BOOLEAN /\ order["buyerID"] \in Ints
  BY OrderIs
<1> QED BY <1>3, <1>4, <1>5, <1>6, <1>7

LEMMA StaticStepHeld ==
  ASSUME NEW v, NEW row \in OrderRow, NEW order \in Order,
         RowHeld(row, v.items, v.strings, order), NEW k \in 1 .. 25, k # 22
  PROVE  StepHeld(v, StaticTable[k], row, order)
<1>1. CASE k \in {1, 3, 5, 7, 9, 11, 13, 15, 17, 19, 21, 23, 25}
  BY <1>1, StaticLiterals DEF StepHeld
<1>2. CASE k \in {2, 4, 6, 8, 14, 16, 18, 24}
  <2>1. PICK field \in OrderStrings : StaticTable[k] = Str(field)
    BY <1>2, StaticOthers
  <2>2. StaticTable[k].kind = "string" /\ StaticTable[k].arg = field
    BY <2>1 DEF Str
  <2>3. TextHeld(v, row[field], order[field])
    BY OrderFieldHeld
  <2> QED BY <2>2, <2>3 DEF StepHeld
<1>3. CASE k = 10
  <2>1. StaticTable[k].kind = "bool" /\ StaticTable[k].arg = "paid"
    BY <1>3, StaticOthers DEF Bool
  <2> QED BY <2>1, OrderFieldHeld DEF StepHeld
<1>4. CASE k = 12
  <2>1. StaticTable[k].kind = "int" /\ StaticTable[k].arg = "buyerID"
    BY <1>4, StaticOthers DEF Num
  <2> QED BY <2>1, OrderFieldHeld DEF StepHeld
<1>5. CASE k = 20
  <2>1. StaticTable[k].kind = "nullable" /\ StaticTable[k].arg = "trackingNo"
    BY <1>5, StaticOthers DEF Nullable
  <2> QED BY <2>1, OrderFieldHeld DEF StepHeld
<1> QED BY <1>1, <1>2, <1>3, <1>4, <1>5

LEMMA RowStepWrites ==
  ASSUME NEW x, TextWriter(x), NEW v \in BatchView, PlainArena(v), NEW row \in OrderRow,
         NEW order \in Order, RowHeld(row, v.items, v.strings, order), NEW k \in 1 .. 25
  PROVE  Writes(x, RowStep(x, v, StaticTable[k], row),
                ReferenceRowStep(StaticTable[k], order))
<1>1. CASE k = 22
  <2>1. StaticTable[k].kind = "items"
    BY <1>1, StaticOthers DEF ItemList
  <2>2. /\ RowStep(x, v, StaticTable[k], row) = WriteItems(x, v, row)
        /\ ReferenceRowStep(StaticTable[k], order) = ReferenceItems(order.items)
    BY <2>1 DEF RowStep, ReferenceRowStep
  <2> QED BY <2>2, ItemsWrite
<1>2. CASE k # 22
  <2>1. StepHeld(v, StaticTable[k], row, order)
    BY <1>2, StaticStepHeld
  <2>2. StaticTable[k].kind # "items"
    BY <2>1 DEF StepHeld
  <2>3. /\ RowStep(x, v, StaticTable[k], row) = WriteStep(x, v, StaticTable[k], row)
        /\ ReferenceRowStep(StaticTable[k], order) = ReferenceStep(StaticTable[k], order)
    BY <2>2 DEF RowStep, ReferenceRowStep
  <2> QED BY <2>1, <2>3, StepWrites
<1> QED BY <1>1, <1>2

StaticTexts(order) == [k \in 1 .. 25 |-> ReferenceRowStep(StaticTable[k], order)]

LEMMA RowWrites ==
  ASSUME NEW x, TextWriter(x), NEW v \in BatchView, PlainArena(v), NEW row \in OrderRow,
         NEW order \in Order, RowHeld(row, v.items, v.strings, order)
  PROVE  /\ Writes(x, WriteTable(x, v, StaticTable, row), FlattenSeq(StaticTexts(order)))
         /\ \A k \in 1 .. 25 : StaticTexts(order)[k] \in JSON
<1>1. PICK n \in Nat : n = 25 /\ n = Len(StaticTable)
  BY StaticLength
<1>2. PICK after : /\ RowSteps(after, n, x, v, StaticTable, row)
                   /\ WriteTable(x, v, StaticTable, row) = after[n]
  <2>1. n \in Nat /\ n = Len(StaticTable)
    BY <1>1
  <2> QED BY <2>1, WriteTableSteps
<1>3. PICK texts : texts = StaticTexts(order)
  OBVIOUS
<1>4. \A k \in 1 .. n : texts[k] = ReferenceRowStep(StaticTable[k], order)
  BY <1>1, <1>3 DEF StaticTexts
<1>5. ASSUME NEW k \in 1 .. n
      PROVE  texts[k] \in JSON
  <2>1. k \in 1 .. 25
    BY <1>1
  <2>2. Writes(x, RowStep(x, v, StaticTable[k], row), texts[k])
    BY <1>4, <2>1, RowStepWrites
  <2> QED BY <2>2 DEF Writes
<1>6. WritesEach(after, n, texts)
  <2> SUFFICES ASSUME NEW k \in 1 .. n, TextWriter(after[k - 1])
               PROVE  Writes(after[k - 1], after[k], texts[k])
    BY DEF WritesEach
  <2>1. after[k] = RowStep(after[k - 1], v, StaticTable[k], row)
    BY <1>2, Zenon DEF RowSteps
  <2>2. k \in 1 .. 25
    BY <1>1
  <2> QED BY <1>4, <2>1, <2>2, RowStepWrites
<1>7. after[0] = x
  BY <1>2 DEF RowSteps
<1>8. texts = [k \in 1 .. n |-> texts[k]]
  BY <1>1, <1>3 DEF StaticTexts
<1>9. Writes(x, after[n], FlattenSeq(texts))
  BY <1>5, <1>6, <1>7, <1>8, TableWrites
<1> QED BY <1>1, <1>2, <1>3, <1>5, <1>9

(* The reference encoder has three pairs of literals where C has one, and  *)
(* otherwise the same steps.                                               *)
LEMMA GoLiteralTyped ==
  ASSUME NEW name \in DOMAIN GoLiteral
  PROVE  Chars(GoLiteral[name]) \in JSON
BY AlphabetAssumption, Zenon DEF Literals

LEMMA StaticIsPacked == StaticTable = PackTable
BY JoinsAssumption, Zenon DEF StaticTable, PackTable, GoLiteral, NativeLiteral

SameFrom(s, r, a, b, n) == \A k \in 1 .. n : s[a + k] = r[b + k]

LEMMA StepsInCommon ==
  /\ Len(ReferenceTable) = 28
  /\ SameFrom(StaticTable, ReferenceTable, 0, 0, 10)
  /\ SameFrom(StaticTable, ReferenceTable, 11, 12, 3)
  /\ SameFrom(StaticTable, ReferenceTable, 15, 17, 5)
  /\ SameFrom(StaticTable, ReferenceTable, 21, 24, 4)
<1>1. Len(ReferenceTable) = 28
  BY DEF ReferenceTable
<1>2. ASSUME NEW k \in 1 .. 10
      PROVE  ReferenceTable[0 + k] = PackTable[0 + k]
  <2>1. /\ ReferenceTable[1] = PackTable[1] /\ ReferenceTable[2] = PackTable[2]
        /\ ReferenceTable[3] = PackTable[3] /\ ReferenceTable[4] = PackTable[4]
        /\ ReferenceTable[5] = PackTable[5] /\ ReferenceTable[6] = PackTable[6]
        /\ ReferenceTable[7] = PackTable[7] /\ ReferenceTable[8] = PackTable[8]
        /\ ReferenceTable[9] = PackTable[9] /\ ReferenceTable[10] = PackTable[10]
    BY DEF ReferenceTable, PackTable
  <2>2. /\ 0 + k = k
        /\ k \in {1, 2, 3, 4, 5, 6, 7, 8, 9, 10}
    OBVIOUS
  <2> QED BY <2>1, <2>2
<1>3. ASSUME NEW k \in 1 .. 3
      PROVE  ReferenceTable[12 + k] = PackTable[11 + k]
  <2>1. /\ ReferenceTable[13] = PackTable[12] /\ ReferenceTable[14] = PackTable[13]
        /\ ReferenceTable[15] = PackTable[14]
    BY DEF ReferenceTable, PackTable
  <2>2. k = 1 \/ k = 2 \/ k = 3
    OBVIOUS
  <2> QED BY <2>1, <2>2
<1>4. ASSUME NEW k \in 1 .. 5
      PROVE  ReferenceTable[17 + k] = PackTable[15 + k]
  <2>1. /\ ReferenceTable[18] = PackTable[16] /\ ReferenceTable[19] = PackTable[17]
        /\ ReferenceTable[20] = PackTable[18] /\ ReferenceTable[21] = PackTable[19]
        /\ ReferenceTable[22] = PackTable[20]
    BY DEF ReferenceTable, PackTable
  <2>2. k = 1 \/ k = 2 \/ k = 3 \/ k = 4 \/ k = 5
    OBVIOUS
  <2> QED BY <2>1, <2>2
<1>5. ASSUME NEW k \in 1 .. 4
      PROVE  ReferenceTable[24 + k] = PackTable[21 + k]
  <2>1. /\ ReferenceTable[25] = PackTable[22] /\ ReferenceTable[26] = PackTable[23]
        /\ ReferenceTable[27] = PackTable[24] /\ ReferenceTable[28] = PackTable[25]
    BY DEF ReferenceTable, PackTable
  <2>2. k = 1 \/ k = 2 \/ k = 3 \/ k = 4
    OBVIOUS
  <2> QED BY <2>1, <2>2
<1>6. /\ SameFrom(PackTable, ReferenceTable, 0, 0, 10)
      /\ SameFrom(PackTable, ReferenceTable, 11, 12, 3)
      /\ SameFrom(PackTable, ReferenceTable, 15, 17, 5)
      /\ SameFrom(PackTable, ReferenceTable, 21, 24, 4)
  BY <1>2, <1>3, <1>4, <1>5 DEF SameFrom
<1> QED BY <1>1, <1>6, StaticIsPacked

(* The step after a of one table is the two steps after b of the other.    *)
SplitStep(a, b) ==
  \E s, t \in JSON :
    /\ StaticTable[a + 1].kind = "literal" /\ StaticTable[a + 1].arg = s \o t
    /\ ReferenceTable[b + 1].kind = "literal" /\ ReferenceTable[b + 1].arg = s
    /\ ReferenceTable[b + 2].kind = "literal" /\ ReferenceTable[b + 2].arg = t

LEMMA PairsJoined ==
  ASSUME NEW a \in Nat, NEW b \in Nat,
         NEW s \in {GoLiteral.paymentEnd, GoLiteral.buyerEnd, GoLiteral.shippingEnd},
         NEW t \in {GoLiteral.buyerID, GoLiteral.shippingCity, GoLiteral.items},
         PackTable[a + 1] = Lit(s \o t),
         ReferenceTable[b + 1] = Lit(s), ReferenceTable[b + 2] = Lit(t)
  PROVE  SplitStep(a, b)
<1>1. Chars(s \o t) = Chars(s) \o Chars(t)
  BY JoinsAssumption, Zenon
<1>2. Chars(s) \in JSON /\ Chars(t) \in JSON
  <2>1. {"paymentEnd", "buyerEnd", "shippingEnd", "buyerID", "shippingCity", "items"}
          \subseteq DOMAIN GoLiteral
    BY Zenon DEF GoLiteral
  <2>2. /\ s \in {GoLiteral["paymentEnd"], GoLiteral["buyerEnd"], GoLiteral["shippingEnd"]}
        /\ t \in {GoLiteral["buyerID"], GoLiteral["shippingCity"], GoLiteral["items"]}
    OBVIOUS
  <2> QED BY <2>1, <2>2, GoLiteralTyped
<1>3. /\ StaticTable[a + 1].kind = "literal" /\ StaticTable[a + 1].arg = Chars(s) \o Chars(t)
      /\ ReferenceTable[b + 1].kind = "literal" /\ ReferenceTable[b + 1].arg = Chars(s)
      /\ ReferenceTable[b + 2].kind = "literal" /\ ReferenceTable[b + 2].arg = Chars(t)
  BY <1>1, StaticIsPacked DEF Lit
<1> QED BY <1>2, <1>3 DEF SplitStep

LEMMA StepsSplit == SplitStep(10, 10) /\ SplitStep(14, 15) /\ SplitStep(20, 22)
<1>1. /\ PackTable[11] = Lit(GoLiteral.paymentEnd \o GoLiteral.buyerID)
      /\ PackTable[15] = Lit(GoLiteral.buyerEnd \o GoLiteral.shippingCity)
      /\ PackTable[21] = Lit(GoLiteral.shippingEnd \o GoLiteral.items)
  BY DEF PackTable
<1>2. /\ ReferenceTable[11] = Lit(GoLiteral.paymentEnd)
      /\ ReferenceTable[12] = Lit(GoLiteral.buyerID)
      /\ ReferenceTable[16] = Lit(GoLiteral.buyerEnd)
      /\ ReferenceTable[17] = Lit(GoLiteral.shippingCity)
      /\ ReferenceTable[23] = Lit(GoLiteral.shippingEnd)
      /\ ReferenceTable[24] = Lit(GoLiteral.items)
  BY DEF ReferenceTable
<1>3. SplitStep(10, 10)
  <2>1. 10 + 1 = 11 /\ 10 + 2 = 12
    OBVIOUS
  <2> QED BY <1>1, <1>2, <2>1, PairsJoined
<1>4. SplitStep(14, 15)
  <2>1. 14 + 1 = 15 /\ 15 + 1 = 16 /\ 15 + 2 = 17
    OBVIOUS
  <2> QED BY <1>1, <1>2, <2>1, PairsJoined
<1>5. SplitStep(20, 22)
  <2>1. 20 + 1 = 21 /\ 22 + 1 = 23 /\ 22 + 2 = 24
    OBVIOUS
  <2> QED BY <1>1, <1>2, <2>1, PairsJoined
<1> QED BY <1>3, <1>4, <1>5

(* Two concatenations that agree so far and go on with the same n texts.   *)
Agree(f, g, a, b) == f[a] = g[b]

LEMMA SameRun ==
  ASSUME NEW p \in Nat, NEW q \in Nat, NEW f, NEW g, NEW s, NEW r,
         Concatenates(f, p, s, Alphabet), Concatenates(g, q, r, Alphabet),
         NEW a \in Nat, NEW b \in Nat, NEW n \in Nat, a + n <= p, b + n <= q,
         Agree(f, g, a, b), SameFrom(s, r, a, b, n)
  PROVE  Agree(f, g, a + n, b + n)
<1> DEFINE T == {k \in Nat : k <= n => f[a + k] = g[b + k]}
<1>1. 0 \in T
  <2>1. a + 0 = a /\ b + 0 = b
    OBVIOUS
  <2> QED BY <2>1 DEF Agree
<1>2. ASSUME NEW k \in Nat, k \in T
      PROVE  k + 1 \in T
  <2> SUFFICES ASSUME k + 1 <= n
               PROVE  f[a + (k + 1)] = g[b + (k + 1)]
    OBVIOUS
  <2>1. f[a + k] = g[b + k]
    BY <1>2
  <2>2. s[a + (k + 1)] = r[b + (k + 1)]
    <3>1. k + 1 \in 1 .. n
      OBVIOUS
    <3> QED BY <3>1 DEF SameFrom
  <2>3. PICK i \in 1 .. p : i = a + (k + 1) /\ i - 1 = a + k
    OBVIOUS
  <2>4. PICK j \in 1 .. q : j = b + (k + 1) /\ j - 1 = b + k
    OBVIOUS
  <2>5. f[i] = f[i - 1] \o s[i] /\ g[j] = g[j - 1] \o r[j]
    BY Zenon DEF Concatenates
  <2> QED BY <2>1, <2>2, <2>3, <2>4, <2>5, Zenon
<1> HIDE DEF T
<1>3. Nat \subseteq T
  BY <1>1, <1>2, Induction
<1>4. n \in T
  BY <1>3
<1> QED BY <1>4 DEF T, Agree

(* Here one goes on with a text and the other with its two parts.          *)
SplitAt(s, r, a, b) ==
  r[b + 1] \in JSON /\ r[b + 2] \in JSON /\ s[a + 1] = r[b + 1] \o r[b + 2]

LEMMA SplitRun ==
  ASSUME NEW p \in Nat, NEW q \in Nat, NEW f, NEW g, NEW s, NEW r,
         Concatenates(f, p, s, Alphabet), Concatenates(g, q, r, Alphabet),
         NEW a \in Nat, NEW b \in Nat, a + 1 <= p, b + 2 <= q,
         Agree(f, g, a, b), SplitAt(s, r, a, b)
  PROVE  Agree(f, g, a + 1, b + 2)
<1>1. PICK i \in 1 .. p : i = a + 1 /\ i - 1 = a
  OBVIOUS
<1>2. PICK j \in 1 .. q : j = b + 1 /\ j - 1 = b
  OBVIOUS
<1>3. PICK k \in 1 .. q : k = b + 2 /\ k - 1 = b + 1
  OBVIOUS
<1>4. f[i] = f[i - 1] \o s[i]
  BY Zenon DEF Concatenates
<1>5. g[j] = g[j - 1] \o r[j]
  BY Zenon DEF Concatenates
<1>6. g[k] = g[k - 1] \o r[k]
  BY Zenon DEF Concatenates
<1>7. g[b] \in JSON
  <2>1. b \in 0 .. q
    OBVIOUS
  <2> QED BY <2>1 DEF Concatenates, JSON
<1>8. g[k] = (g[b] \o r[b + 1]) \o r[b + 2]
  BY <1>2, <1>3, <1>5, <1>6, Zenon
<1>9. (g[b] \o r[b + 1]) \o r[b + 2] = g[b] \o (r[b + 1] \o r[b + 2])
  BY <1>7, TextsRegroup, Zenon DEF SplitAt
<1> QED BY <1>1, <1>3, <1>4, <1>8, <1>9, Zenon DEF Agree, SplitAt

ReferenceTexts(order) == [k \in 1 .. 28 |-> ReferenceRowStep(ReferenceTable[k], order)]

(* The texts of the two tables, step by step.                              *)
TextsMatch(s, r) ==
  /\ SameFrom(s, r, 0, 0, 10) /\ SplitAt(s, r, 10, 10)
  /\ SameFrom(s, r, 11, 12, 3) /\ SplitAt(s, r, 14, 15)
  /\ SameFrom(s, r, 15, 17, 5) /\ SplitAt(s, r, 20, 22)
  /\ SameFrom(s, r, 21, 24, 4)

LEMMA SplitTexts ==
  ASSUME NEW order, NEW a \in 0 .. 24, NEW b \in 0 .. 26, SplitStep(a, b)
  PROVE  SplitAt(StaticTexts(order), ReferenceTexts(order), a, b)
<1>1. PICK s \in JSON, t \in JSON :
        /\ StaticTable[a + 1].kind = "literal" /\ StaticTable[a + 1].arg = s \o t
        /\ ReferenceTable[b + 1].kind = "literal" /\ ReferenceTable[b + 1].arg = s
        /\ ReferenceTable[b + 2].kind = "literal" /\ ReferenceTable[b + 2].arg = t
  BY Zenon DEF SplitStep
<1>2. /\ ReferenceRowStep(StaticTable[a + 1], order) = s \o t
      /\ ReferenceRowStep(ReferenceTable[b + 1], order) = s
      /\ ReferenceRowStep(ReferenceTable[b + 2], order) = t
  BY <1>1 DEF ReferenceRowStep, ReferenceStep
<1>3. a + 1 \in 1 .. 25 /\ b + 1 \in 1 .. 28 /\ b + 2 \in 1 .. 28
  OBVIOUS
<1>4. StaticTexts(order)[a + 1] = s \o t
  BY <1>2, <1>3, Zenon DEF StaticTexts
<1>5. ReferenceTexts(order)[b + 1] = s /\ ReferenceTexts(order)[b + 2] = t
  BY <1>2, <1>3 DEF ReferenceTexts
<1> QED BY <1>4, <1>5 DEF SplitAt

LEMMA SameTexts ==
  ASSUME NEW order, NEW a \in Nat, NEW b \in Nat, NEW n \in Nat, a + n <= 25, b + n <= 28,
         SameFrom(StaticTable, ReferenceTable, a, b, n)
  PROVE  SameFrom(StaticTexts(order), ReferenceTexts(order), a, b, n)
<1> SUFFICES ASSUME NEW k \in 1 .. n
             PROVE  StaticTexts(order)[a + k] = ReferenceTexts(order)[b + k]
  BY DEF SameFrom
<1>1. a + k \in 1 .. 25 /\ b + k \in 1 .. 28
  OBVIOUS
<1>2. ReferenceTable[b + k] = StaticTable[a + k]
  BY DEF SameFrom
<1>3. StaticTexts(order)[a + k] = ReferenceRowStep(StaticTable[a + k], order)
  BY <1>1 DEF StaticTexts
<1>4. ReferenceTexts(order)[b + k] = ReferenceRowStep(ReferenceTable[b + k], order)
  BY <1>1 DEF ReferenceTexts
<1> QED BY <1>2, <1>3, <1>4

LEMMA TextsMatching ==
  ASSUME NEW order
  PROVE  TextsMatch(StaticTexts(order), ReferenceTexts(order))
<1>1. PICK s, r : s = StaticTexts(order) /\ r = ReferenceTexts(order)
  OBVIOUS
<1>2. /\ SameFrom(StaticTable, ReferenceTable, 0, 0, 10)
      /\ SameFrom(StaticTable, ReferenceTable, 11, 12, 3)
      /\ SameFrom(StaticTable, ReferenceTable, 15, 17, 5)
      /\ SameFrom(StaticTable, ReferenceTable, 21, 24, 4)
  BY StepsInCommon
<1>3. SameFrom(s, r, 0, 0, 10)
  BY <1>1, <1>2, SameTexts
<1>4. SameFrom(s, r, 11, 12, 3)
  BY <1>1, <1>2, SameTexts
<1>5. SameFrom(s, r, 15, 17, 5)
  BY <1>1, <1>2, SameTexts
<1>6. SameFrom(s, r, 21, 24, 4)
  BY <1>1, <1>2, SameTexts
<1>7. SplitAt(s, r, 10, 10) /\ SplitAt(s, r, 14, 15) /\ SplitAt(s, r, 20, 22)
  BY <1>1, StepsSplit, SplitTexts
<1> QED BY <1>1, <1>3, <1>4, <1>5, <1>6, <1>7 DEF TextsMatch

(* If the texts match, so do the concatenations.                           *)
LEMMA MatchingJoined ==
  ASSUME NEW s, NEW r, TextsMatch(s, r), NEW f, NEW g,
         Concatenates(f, 25, s, Alphabet), Concatenates(g, 28, r, Alphabet)
  PROVE  f[25] = g[28]
<1>0. Agree(f, g, 0, 0)
  BY DEF Concatenates, Agree
<1>1. Agree(f, g, 0 + 10, 0 + 10)
  BY <1>0, SameRun DEF TextsMatch
<1>2. Agree(f, g, 10 + 1, 10 + 2)
  BY <1>1, SplitRun DEF TextsMatch
<1>3. Agree(f, g, 11 + 3, 12 + 3)
  BY <1>2, SameRun DEF TextsMatch
<1>4. Agree(f, g, 14 + 1, 15 + 2)
  BY <1>3, SplitRun DEF TextsMatch
<1>5. Agree(f, g, 15 + 5, 17 + 5)
  BY <1>4, SameRun DEF TextsMatch
<1>6. Agree(f, g, 20 + 1, 22 + 2)
  BY <1>5, SplitRun DEF TextsMatch
<1>7. Agree(f, g, 21 + 4, 24 + 4)
  BY <1>6, SameRun DEF TextsMatch
<1> QED BY <1>7 DEF Agree

LEMMA MatchingTyped ==
  ASSUME NEW s, NEW r, TextsMatch(s, r), \A k \in 1 .. 25 : s[k] \in JSON
  PROVE  \A k \in 1 .. 28 : r[k] \in JSON
<1> SUFFICES ASSUME NEW k \in 1 .. 28
             PROVE  r[k] \in JSON
  OBVIOUS
<1>1. CASE k \in 1 .. 10
  <2>1. 0 + k = k /\ k \in 1 .. 25
    BY <1>1
  <2>2. s[0 + k] = r[0 + k]
    BY <1>1 DEF TextsMatch, SameFrom
  <2> QED BY <2>1, <2>2
<1>2. CASE k \in {11, 12, 16, 17, 23, 24}
  <2>1. r[11] \in JSON /\ r[12] \in JSON
    <3>1. SplitAt(s, r, 10, 10) /\ 10 + 1 = 11 /\ 10 + 2 = 12
      BY DEF TextsMatch
    <3> QED BY <3>1, Zenon DEF SplitAt
  <2>2. r[16] \in JSON /\ r[17] \in JSON
    <3>1. SplitAt(s, r, 14, 15) /\ 15 + 1 = 16 /\ 15 + 2 = 17
      BY DEF TextsMatch
    <3> QED BY <3>1, Zenon DEF SplitAt
  <2>3. r[23] \in JSON /\ r[24] \in JSON
    <3>1. SplitAt(s, r, 20, 22) /\ 22 + 1 = 23 /\ 22 + 2 = 24
      BY DEF TextsMatch
    <3> QED BY <3>1, Zenon DEF SplitAt
  <2> QED BY <1>2, <2>1, <2>2, <2>3, Zenon
<1>3. CASE k \in 13 .. 15
  <2>1. PICK j \in 1 .. 3 : k = 12 + j /\ 11 + j \in 1 .. 25
    BY <1>3
  <2>2. s[11 + j] = r[12 + j]
    BY <2>1 DEF TextsMatch, SameFrom
  <2> QED BY <2>1, <2>2
<1>4. CASE k \in 18 .. 22
  <2>1. PICK j \in 1 .. 5 : k = 17 + j /\ 15 + j \in 1 .. 25
    <3>1. k - 17 \in 1 .. 5 /\ k = 17 + (k - 17) /\ 15 + (k - 17) \in 1 .. 25
      BY <1>4
    <3> QED BY <3>1
  <2>2. s[15 + j] = r[17 + j]
    BY <2>1 DEF TextsMatch, SameFrom
  <2> QED BY <2>1, <2>2
<1>5. CASE k \in 25 .. 28
  <2>1. PICK j \in 1 .. 4 : k = 24 + j /\ 21 + j \in 1 .. 25
    <3>1. k - 24 \in 1 .. 4 /\ k = 24 + (k - 24) /\ 21 + (k - 24) \in 1 .. 25
      BY <1>5
    <3> QED BY <3>1
  <2>2. s[21 + j] = r[24 + j]
    BY <2>1 DEF TextsMatch, SameFrom
  <2> QED BY <2>1, <2>2
<1>6. k \in 1 .. 10 \/ k \in {11, 12, 16, 17, 23, 24} \/ k \in 13 .. 15 \/ k \in 18 .. 22
        \/ k \in 25 .. 28
  OBVIOUS
<1> QED BY <1>1, <1>2, <1>3, <1>4, <1>5, <1>6

(* The text of an order is the texts of the steps of C.                    *)
LEMMA OrderTextIs ==
  ASSUME NEW order, \A k \in 1 .. 25 : StaticTexts(order)[k] \in JSON
  PROVE  ReferenceOrder(order) = FlattenSeq(StaticTexts(order))
<1>1. PICK s, r : s = StaticTexts(order) /\ r = ReferenceTexts(order)
  OBVIOUS
<1>2. TextsMatch(s, r)
  BY <1>1, TextsMatching
<1>3. /\ \A k \in 1 .. 25 : s[k] \in Seq(Alphabet)
      /\ \A k \in 1 .. 28 : r[k] \in Seq(Alphabet)
  <2>1. \A k \in 1 .. 25 : s[k] \in JSON
    BY <1>1
  <2>2. \A k \in 1 .. 28 : r[k] \in JSON
    BY <1>2, <2>1, MatchingTyped
  <2> QED BY <2>1, <2>2 DEF JSON
<1>4. PICK f : Concatenates(f, 25, s, Alphabet)
  <2>1. 25 \in Nat
    OBVIOUS
  <2> QED BY <1>3, <2>1, Concatenations, Zenon
<1>5. PICK g : Concatenates(g, 28, r, Alphabet)
  <2>1. 28 \in Nat
    OBVIOUS
  <2> QED BY <1>3, <2>1, Concatenations, Zenon
<1>6. f[25] = g[28]
  BY <1>2, <1>4, <1>5, MatchingJoined
<1>7. FlattenSeq(s) = f[25]
  <2>1. PICK n \in Nat : n = 25
    OBVIOUS
  <2>2. s = [k \in 1 .. n |-> s[k]]
    BY <1>1, <2>1 DEF StaticTexts
  <2>3. \A k \in 1 .. n : s[k] \in JSON
    BY <1>3, <2>1, Zenon DEF JSON
  <2>4. Concatenates(f, n, s, Alphabet)
    BY <1>4, <2>1
  <2>5. FlattenSeq(s) = f[n]
    BY <2>2, <2>3, <2>4, FlattenTexts, Zenon
  <2> QED BY <2>1, <2>5
<1>8. FlattenSeq(r) = g[28]
  <2>1. PICK n \in Nat : n = 28
    OBVIOUS
  <2>2. r = [k \in 1 .. n |-> r[k]]
    BY <1>1, <2>1 DEF ReferenceTexts
  <2>3. \A k \in 1 .. n : r[k] \in JSON
    BY <1>3, <2>1, Zenon DEF JSON
  <2>4. Concatenates(g, n, r, Alphabet)
    BY <1>5, <2>1
  <2>5. FlattenSeq(r) = g[n]
    BY <2>2, <2>3, <2>4, FlattenTexts, Zenon
  <2> QED BY <2>1, <2>5
<1>9. ReferenceOrder(order) = FlattenSeq(r)
  BY <1>1, StepsInCommon DEF ReferenceOrder, ReferenceTexts
<1> QED BY <1>1, <1>6, <1>7, <1>8, <1>9

-----------------------------------------------------------------------------
(* The batch.  The static function, given a row that holds an order,       *)
(* writes the text that the reference encoder has for the order.           *)
LEMMA OrderWrites ==
  ASSUME NEW x, TextWriter(x), NEW v \in BatchView, PlainArena(v), NEW row \in OrderRow,
         NEW order \in Order, RowHeld(row, v.items, v.strings, order)
  PROVE  Writes(x, WriteTable(x, v, StaticTable, row), ReferenceOrder(order))
<1>1. /\ Writes(x, WriteTable(x, v, StaticTable, row), FlattenSeq(StaticTexts(order)))
      /\ \A k \in 1 .. 25 : StaticTexts(order)[k] \in JSON
  BY RowWrites
<1>2. ReferenceOrder(order) = FlattenSeq(StaticTexts(order))
  BY <1>1, OrderTextIs
<1> QED BY <1>1, <1>2

(* The rows of a view hold the orders of a batch.                          *)
ViewHolds(v, b) ==
  /\ v.ordersNull = (b = Nil)
  /\ Len(v.orders) = Count(b)
  /\ \A i \in 1 .. Count(b) : RowHeld(v.orders[i], v.items, v.strings, b[i])

LEMMA EmptyWriter ==
  ASSUME NEW cap \in Nat
  PROVE  /\ TextWriter(Writer(<<>>, cap, "OK"))
         /\ ~Stopped(Writer(<<>>, cap, "OK"))
         /\ Writer(<<>>, cap, "OK").text = <<>>
         /\ Writer(<<>>, cap, "OK").cap = cap
<1>1. PICK x : x = Writer(<<>>, cap, "OK")
  OBVIOUS
<1>2. x = [text |-> <<>>, cap |-> cap, status |-> "OK"]
  BY <1>1 DEF Writer
<1>3. x.text = <<>> /\ x.cap = cap /\ x.status = "OK"
  BY <1>2
<1>4. IsWriter(x)
  BY <1>2, <1>3 DEF IsWriter, Statuses
<1>5. TextWriter(x)
  BY <1>3, <1>4, NoText DEF TextWriter
<1> QED BY <1>1, <1>3, <1>5 DEF Stopped

LEMMA FrameTyped ==
  /\ Chars("{\"orders\":") \in JSON /\ Chars("}") \in JSON
  /\ Chars(GoLiteral.batch) = Chars("{\"orders\":")
  /\ Chars(GoLiteral.batchEnd) = Chars("}")
<1>1. GoLiteral.batch = "{\"orders\":" /\ GoLiteral.batchEnd = "}"
  BY DEF GoLiteral
<1>2. "batch" \in DOMAIN GoLiteral /\ "batchEnd" \in DOMAIN GoLiteral
  BY DEF GoLiteral
<1>3. Chars(GoLiteral["batch"]) \in JSON /\ Chars(GoLiteral["batchEnd"]) \in JSON
  BY <1>2, GoLiteralTyped
<1> QED BY <1>1, <1>3, Zenon

(* What stands between the frame of a batch.                               *)
BatchBody(b) ==
  IF b = Nil THEN Chars("null")
  ELSE Bracketed([i \in 1 .. Len(b) |-> ReferenceOrder(b[i])])

LEMMA NullBody ==
  ASSUME NEW x, TextWriter(x), NEW v \in BatchView, NEW b, b = Nil, ViewHolds(v, b),
         NEW after, after[0] = Literal(x, IF v.ordersNull THEN Chars("null") ELSE LeftBracket)
  PROVE  Writes(x, IF v.ordersNull THEN after[0] ELSE Literal(after[0], RightBracket),
                BatchBody(b))
<1>1. v.ordersNull
  BY Zenon DEF ViewHolds
<1>2. Writes(x, Literal(x, Chars("null")), Chars("null"))
  BY LiteralsTyped, LiteralWrites
<1> QED BY <1>1, <1>2 DEF BatchBody

LEMMA OrdersBody ==
  ASSUME NEW x, TextWriter(x), NEW v \in BatchView, PlainArena(v),
         NEW b \in Seq(Order), b # Nil, ViewHolds(v, b), NEW n \in Nat, n = Len(b),
         NEW after, after[0] = Literal(x, IF v.ordersNull THEN Chars("null") ELSE LeftBracket),
         \A i \in 1 .. n : after[i] = StaticOrder(after[i - 1], v, i)
  PROVE  Writes(x, IF v.ordersNull THEN after[n] ELSE Literal(after[n], RightBracket),
                BatchBody(b))
<1>1. /\ ~v.ordersNull /\ Len(v.orders) = n
      /\ \A i \in 1 .. n : RowHeld(v.orders[i], v.items, v.strings, b[i])
  BY Zenon DEF ViewHolds, Count
<1>2. PICK parts : parts = [i \in 1 .. n |-> ReferenceOrder(b[i])]
  BY Zenon
<1>3. PICK rows \in Seq(OrderRow) : rows = v.orders
  BY DEF BatchView
<1>4. ASSUME NEW i \in 1 .. n
      PROVE  /\ v.orders[i] \in OrderRow
             /\ b[i] \in Order
             /\ RowHeld(v.orders[i], v.items, v.strings, b[i])
             /\ parts[i] = ReferenceOrder(b[i])
  <2>1. rows[i] \in OrderRow
    BY <1>1, <1>3, ElementOfSeq
  <2>2. b[i] \in Order
    BY ElementOfSeq
  <2> QED BY <1>1, <1>2, <1>3, <2>1, <2>2
<1>5. \A i \in 1 .. n : parts[i] \in JSON
  <2> TAKE i \in 1 .. n
  <2>1. Writes(x, WriteTable(x, v, StaticTable, v.orders[i]), ReferenceOrder(b[i]))
    BY <1>4, OrderWrites
  <2> QED BY <1>4, <2>1 DEF Writes
<1>6. ListWrites(after, n, parts)
  <2> SUFFICES ASSUME NEW i \in 1 .. n, TextWriter(after[i - 1])
               PROVE  Writes(after[i - 1], after[i], Separator(i) \o parts[i])
    BY DEF ListWrites
  <2>1. PICK y, r : y = after[i - 1] /\ r = v.orders[i]
    OBVIOUS
  <2>2. PICK a : a = IF i > 1 THEN Literal(y, Comma) ELSE y
    OBVIOUS
  <2>3. PICK z : z = WriteTable(a, v, StaticTable, r)
    OBVIOUS
  <2>4. after[i] = IF Stopped(y) THEN y ELSE z
    <3>1. after[i] = StaticOrder(y, v, i)
      BY <2>1
    <3> QED BY <2>1, <2>2, <2>3, <3>1 DEF StaticOrder
  <2>5. TextWriter(a) => Writes(a, z, parts[i])
    BY <1>4, <2>1, <2>3, OrderWrites
  <2>6. i \in Nat /\ parts[i] \in JSON /\ TextWriter(y)
    BY <1>5, <2>1
  <2>7. Writes(y, after[i], Separator(i) \o parts[i])
    BY <2>2, <2>4, <2>5, <2>6, ElementWrites, Zenon
  <2> QED BY <2>1, <2>7
<1>7. after[0] = Literal(x, LeftBracket)
  BY <1>1
<1>8. parts = [i \in 1 .. n |-> parts[i]]
  BY <1>2
<1>9. Writes(x, Literal(after[n], RightBracket), Bracketed(parts))
  BY <1>5, <1>6, <1>7, <1>8, BracketsWrite
<1> QED BY <1>1, <1>2, <1>9, Zenon DEF BatchBody

(* The static function writes the text of the batch.                       *)
LEMMA StaticRunWrites ==
  ASSUME NEW v \in BatchView, PlainArena(v), NEW b \in Batch, ViewHolds(v, b),
         NEW cap \in Nat
  PROVE  Writes(Writer(<<>>, cap, "OK"), StaticRun(v, cap), ReferenceText(b))
<1>1. PICK w0 : w0 = Writer(<<>>, cap, "OK")
  OBVIOUS
<1>2. TextWriter(w0)
  BY <1>1, EmptyWriter
<1>3. PICK x : x = Literal(w0, Chars("{\"orders\":"))
  BY Zenon
<1>4. Writes(w0, x, Chars("{\"orders\":"))
  BY <1>2, <1>3, FrameTyped, LiteralWrites, Zenon
<1>5. TextWriter(x)
  BY <1>4, Zenon DEF Writes
<1>6. PICK n \in Nat : n = Count(b)
  BY CountIs
<1>7. n = Len(v.orders)
  BY <1>6 DEF ViewHolds
<1>8. PICK after : OrderTurns(after, n, v, cap)
  BY OrderTurnsExist
<1>9. StaticRun(v, cap) = Closed(after[n], v)
  BY <1>7, <1>8, StaticRunTurns
<1>10. after[0] = Literal(x, IF v.ordersNull THEN Chars("null") ELSE LeftBracket)
  BY <1>1, <1>3, <1>8, Zenon DEF OrderTurns, Started
<1>11. \A i \in 1 .. n : after[i] = StaticOrder(after[i - 1], v, i)
  BY <1>8, Zenon DEF OrderTurns
<1>12. PICK z : z = IF v.ordersNull THEN after[n] ELSE Literal(after[n], RightBracket)
  OBVIOUS
<1>13. Writes(x, z, BatchBody(b))
  <2>1. CASE b = Nil
    <3>1. n = 0
      BY <1>6, <2>1 DEF Count
    <3> QED BY <1>5, <1>10, <1>12, <2>1, <3>1, NullBody
  <2>2. CASE b # Nil
    <3>1. b \in Seq(Order) /\ n = Len(b)
      BY <1>6, <2>2 DEF Batch, Count
    <3> QED BY <1>5, <1>10, <1>11, <1>12, <2>2, <3>1, OrdersBody
  <2> QED BY <2>1, <2>2
<1>14. TextWriter(z)
  BY <1>13 DEF Writes
<1>15. PICK y : y = Literal(z, Chars("}"))
  BY Zenon
<1>16. Writes(z, y, Chars("}"))
  BY <1>14, <1>15, FrameTyped, LiteralWrites, Zenon
<1>17. Writes(w0, z, Chars("{\"orders\":") \o BatchBody(b))
  BY <1>4, <1>13, WritesOn, Zenon
<1>18. Writes(w0, y, (Chars("{\"orders\":") \o BatchBody(b)) \o Chars("}"))
  BY <1>16, <1>17, WritesOn, Zenon
<1>19. ReferenceText(b) = (Chars("{\"orders\":") \o BatchBody(b)) \o Chars("}")
  BY FrameTyped, Zenon DEF ReferenceText, BatchBody
<1>20. StaticRun(v, cap) = y
  BY <1>9, <1>12, <1>15, Zenon DEF Closed
<1> QED BY <1>1, <1>18, <1>19, <1>20, Zenon

LEMMA BatchTextTyped ==
  ASSUME NEW v \in BatchView, PlainArena(v), NEW b \in Batch, ViewHolds(v, b)
  PROVE  ReferenceText(b) \in JSON
BY StaticRunWrites DEF Writes

-----------------------------------------------------------------------------
(* What was written into an empty buffer is a beginning of the text.       *)
LEMMA BeginningIs ==
  ASSUME NEW s \in JSON, NEW rest \in JSON, NEW t, t = s \o rest
  PROVE  IsPrefix(s, t)
<1>1. /\ t \in JSON /\ Len(t) = Len(s) + Len(rest)
      /\ Len(s) \in Nat /\ Len(rest) \in Nat
  BY TextsJoin
<1>2. PICK n \in Nat : n = Len(s)
  BY <1>1
<1>3. n <= Len(s) /\ n <= Len(t)
  BY <1>1, <1>2
<1>4. PICK x, y : x = SubSeq(s, 0 + 1, 0 + n) /\ y = SubSeq(t, 0 + 1, 0 + n)
  BY Zenon
<1>5. x \in Seq(Alphabet) /\ Len(x) = n /\ \A i \in 1 .. n : x[i] = s[0 + i]
  <2>1. s \in Seq(Alphabet) /\ 0 + n <= Len(s) /\ 0 \in Nat
    BY <1>3 DEF JSON
  <2> QED BY <1>4, <2>1, SubSeqIs
<1>6. y \in Seq(Alphabet) /\ Len(y) = n /\ \A i \in 1 .. n : y[i] = t[0 + i]
  <2>1. t \in Seq(Alphabet) /\ 0 + n <= Len(t) /\ 0 \in Nat
    BY <1>1, <1>3 DEF JSON
  <2> QED BY <1>4, <2>1, SubSeqIs
<1>7. ASSUME NEW i \in 1 .. n PROVE x[i] = y[i]
  <2>1. s \in Seq(Alphabet) /\ rest \in Seq(Alphabet)
    BY DEF JSON
  <2>2. (s \o rest)[i] = s[i]
    BY <1>2, <2>1, ConcatProperties
  <2>3. 0 + i = i
    OBVIOUS
  <2> QED BY <1>5, <1>6, <2>2, <2>3, Zenon
<1>8. x = y
  BY <1>5, <1>6, <1>7, SeqEqual
<1>9. SubSeq(s, 1, Len(s)) = SubSeq(t, 1, Len(s))
  <2>1. 0 + 1 = 1 /\ 0 + n = n
    OBVIOUS
  <2> QED BY <1>2, <1>4, <1>8, <2>1
<1> QED BY <1>2, <1>3, <1>9 DEF IsPrefix

LEMMA PrefixWritten ==
  ASSUME NEW x, ~Stopped(x), x.text = <<>>, NEW y, NEW t, Writes(x, y, t)
  PROVE  /\ Len(y.text) <= y.cap
         /\ IsPrefix(y.text, t)
         /\ y.status = "OK" <=> y.text = t
<1>1. /\ t \in JSON /\ y.text \in JSON /\ y.cap \in Nat /\ Len(y.text) <= y.cap
      /\ x.cap = y.cap
      /\ IF Len(x.text) + Len(t) <= x.cap THEN Appends(x, y, t) ELSE CutsOff(x, y, t)
  BY DEF Writes, TextWriter
<1>2. x.text \o t = t /\ Len(x.text) = 0 /\ <<>> \in JSON
  BY <1>1, NoText
<1>3. Len(t) \in Nat /\ Len(y.text) \in Nat
  BY <1>1, <1>2, TextsJoin, Zenon
<1>4. CASE Appends(x, y, t)
  <2>1. y.text = t /\ y.status = "OK"
    BY <1>2, <1>4 DEF Appends, Stopped
  <2>2. t \o <<>> = t
    BY <1>1, NoText
  <2>3. IsPrefix(t, t)
    BY <1>1, <1>2, <2>2, BeginningIs, Zenon
  <2> QED BY <1>1, <2>1, <2>3
<1>5. CASE ~(Len(x.text) + Len(t) <= x.cap) /\ CutsOff(x, y, t)
  <2>1. y.status # "OK"
    BY <1>5 DEF CutsOff, Stopped
  <2>2. PICK rest \in JSON : t = y.text \o rest
    BY <1>2, <1>5 DEF CutsOff
  <2>3. IsPrefix(y.text, t)
    BY <1>1, <2>2, BeginningIs, Zenon
  <2>4. ~(Len(t) <= y.cap)
    BY <1>1, <1>2, <1>3, <1>5
  <2>5. y.text # t
    BY <1>1, <2>4
  <2> QED BY <1>1, <2>1, <2>3, <2>5
<1> QED BY <1>1, <1>4, <1>5

-----------------------------------------------------------------------------
(* Sizes.  What the accumulator has after the size of a text was added:    *)
(* the length of the text more, or the reason why not.                     *)
Sized(b) ==
  /\ b = [field \in DOMAIN b |-> b[field]]
  /\ {"size", "err"} \subseteq DOMAIN b
  /\ b.size \in Nat
  /\ b.size <= MaxInt

(* The strings of a workspace have no more bytes than uint32 counts, and   *)
(* when it is plain none of them needs an escape.                          *)
Tidy(b) ==
  /\ {"strings", "plain"} \subseteq DOMAIN b
  /\ Len(b.strings) <= MaxUint32
  /\ b.plain => \A i \in 1 .. Len(b.strings) : ~NeedsEscape(b.strings[i])

Counted(b, c, t, valid, big) ==
  \/ c.err = "none" /\ valid /\ c.size = b.size + Len(t)
  \/ c.err = "ErrOutputTooLarge" /\ MaxInt < b.size + Len(t)
  \/ c.err = "ErrInvalidUTF8" /\ ~valid
  \/ c.err = "ErrPackedTooLarge" /\ big

Counts(b, c, t, valid, big) ==
  /\ t \in JSON
  /\ Sized(b)
  /\ Sized(c)
  /\ DOMAIN c = DOMAIN b
  /\ Tidy(b) => Tidy(c)
  /\ b.err # "none" => c.err = b.err
  /\ b.err = "none" => Counted(b, c, t, valid, big)

LEMMA ErrorCounts ==
  ASSUME NEW b, Sized(b), b.err # "none", NEW t \in JSON, NEW valid, NEW big
  PROVE  Counts(b, b, t, valid, big)
BY DEF Counts

LEMMA NothingCounts ==
  ASSUME NEW b, Sized(b), NEW big
  PROVE  Counts(b, b, <<>>, TRUE, big)
<1>1. <<>> \in JSON /\ Len(<<>>) = 0 /\ b.size + 0 = b.size
  BY NoText DEF Sized
<1> QED BY <1>1 DEF Counts, Counted

LEMMA SameTidy ==
  ASSUME NEW b, NEW g \in {"size", "err"}, NEW y,
         NEW c, c = [f \in DOMAIN b |-> IF f = g THEN y ELSE b[f]], Tidy(b)
  PROVE  Tidy(c)
<1>1. DOMAIN c = DOMAIN b /\ {"strings", "plain"} \subseteq DOMAIN b
  BY DEF Tidy
<1>2. c.strings = b.strings /\ c.plain = b.plain
  BY <1>1
<1> QED BY <1>1, <1>2 DEF Tidy

LEMMA AddCounts ==
  ASSUME NEW b, Sized(b), NEW t \in JSON, NEW n, n = Len(t), NEW big
  PROVE  Counts(b, Add(b, n), t, TRUE, big)
<1>1. PICK d, z, e : d = DOMAIN b /\ z = b.size /\ e = b.err
  OBVIOUS
<1>2. /\ b = [f \in d |-> b[f]] /\ "size" \in d /\ "err" \in d
      /\ z \in Nat /\ z <= MaxInt /\ MaxInt \in Nat
  BY <1>1, LimitsAssumption DEF Sized
<1>3. n \in Nat
  BY NoText, TextsJoin
<1>4. PICK c : c = Add(b, n)
  OBVIOUS
<1>5. CASE e # "none"
  <2>1. c = b
    BY <1>1, <1>4, <1>5 DEF Add
  <2> QED BY <1>1, <1>4, <1>5, <2>1, ErrorCounts, Zenon
<1>6. CASE e = "none" /\ n > MaxInt - z
  <2>1. c = [b EXCEPT !.err = "ErrOutputTooLarge"]
    BY <1>1, <1>4, <1>6 DEF Add
  <2>2. c = [f \in d |-> IF f = "err" THEN "ErrOutputTooLarge" ELSE b[f]]
    BY <1>1, <1>2, <2>1
  <2>3. /\ c = [f \in d |-> c[f]] /\ DOMAIN c = d
        /\ c.err = "ErrOutputTooLarge" /\ c.size = z
    BY <1>1, <1>2, <2>2
  <2>4. MaxInt < z + n
    BY <1>2, <1>3, <1>6
  <2>5. Sized(c)
    BY <1>2, <2>3 DEF Sized
  <2>6. Tidy(b) => Tidy(c)
    BY <1>1, <1>2, <2>2, SameTidy, Zenon
  <2> QED BY <1>1, <1>4, <1>6, <2>3, <2>4, <2>5, <2>6 DEF Counts, Counted
<1>7. CASE e = "none" /\ ~(n > MaxInt - z)
  <2>1. PICK y : y = z + n
    OBVIOUS
  <2>2. c = [b EXCEPT !.size = y]
    BY <1>1, <1>4, <1>7, <2>1 DEF Add
  <2>3. c = [f \in d |-> IF f = "size" THEN y ELSE b[f]]
    BY <1>1, <1>2, <2>2
  <2>4. /\ c = [f \in d |-> c[f]] /\ DOMAIN c = d
        /\ c.err = "none" /\ c.size = y
    BY <1>1, <1>2, <1>7, <2>3
  <2>5. y \in Nat /\ y <= MaxInt
    BY <1>2, <1>3, <1>7, <2>1
  <2>6. Sized(c)
    BY <1>2, <2>4, <2>5 DEF Sized
  <2>7. Tidy(b) => Tidy(c)
    BY <1>1, <1>2, <2>3, SameTidy
  <2> QED BY <1>1, <1>4, <1>7, <2>1, <2>4, <2>6, <2>7 DEF Counts, Counted
<1> QED BY <1>5, <1>6, <1>7, Zenon

LEMMA CountsOn ==
  ASSUME NEW b, NEW c, NEW d, NEW s, NEW t, NEW u \in BOOLEAN, NEW v \in BOOLEAN, NEW big,
         Counts(b, c, s, u, big), Counts(c, d, t, v, big)
  PROVE  Counts(b, d, s \o t, u /\ v, big)
<1>1. /\ s \o t \in JSON /\ Len(s \o t) = Len(s) + Len(t)
      /\ Len(s) \in Nat /\ Len(t) \in Nat
  BY TextsJoin DEF Counts
<1>2. PICK m \in Nat, n \in Nat : m = Len(s) /\ n = Len(t) /\ Len(s \o t) = m + n
  BY <1>1
<1>3. /\ Sized(b) /\ Sized(c) /\ Sized(d) /\ DOMAIN d = DOMAIN b
      /\ b.err # "none" => c.err = b.err
      /\ b.err = "none" => Counted(b, c, s, u, big)
      /\ c.err # "none" => d.err = c.err
      /\ c.err = "none" => Counted(c, d, t, v, big)
  BY DEF Counts
<1>4. PICK x \in Nat, y \in Nat, z \in Nat, top \in Nat :
        x = b.size /\ y = c.size /\ z = d.size /\ top = MaxInt
  BY <1>3, LimitsAssumption DEF Sized
<1>5. ASSUME b.err = "none" PROVE Counted(b, d, s \o t, u /\ v, big)
  <2>1. \/ c.err = "none" /\ u /\ y = x + m
        \/ c.err = "ErrOutputTooLarge" /\ top < x + m
        \/ c.err = "ErrInvalidUTF8" /\ ~u
        \/ c.err = "ErrPackedTooLarge" /\ big
    BY <1>2, <1>3, <1>4, <1>5 DEF Counted
  <2>2. CASE c.err = "none" /\ u /\ y = x + m
    <3>1. \/ d.err = "none" /\ v /\ z = y + n
          \/ d.err = "ErrOutputTooLarge" /\ top < y + n
          \/ d.err = "ErrInvalidUTF8" /\ ~v
          \/ d.err = "ErrPackedTooLarge" /\ big
      BY <1>2, <1>3, <1>4, <2>2 DEF Counted
    <3>2. y + n = x + (m + n)
      BY <2>2
    <3>3. \/ d.err = "none" /\ (u /\ v) /\ z = x + (m + n)
          \/ d.err = "ErrOutputTooLarge" /\ top < x + (m + n)
          \/ d.err = "ErrInvalidUTF8" /\ ~(u /\ v)
          \/ d.err = "ErrPackedTooLarge" /\ big
      BY <2>2, <3>1, <3>2
    <3> QED BY <1>2, <1>4, <3>3 DEF Counted
  <2>3. CASE c.err = "ErrOutputTooLarge" /\ top < x + m
    <3>1. d.err = "ErrOutputTooLarge" /\ top < x + (m + n)
      BY <1>3, <2>3
    <3> QED BY <1>2, <1>4, <3>1 DEF Counted
  <2>4. CASE c.err = "ErrInvalidUTF8" /\ ~u
    BY <1>3, <2>4 DEF Counted
  <2>5. CASE c.err = "ErrPackedTooLarge" /\ big
    BY <1>3, <2>5 DEF Counted
  <2> QED BY <2>1, <2>2, <2>3, <2>4, <2>5
<1>6. b.err # "none" => d.err = b.err
  BY <1>3
<1>7. Tidy(b) => Tidy(d)
  BY DEF Counts
<1> QED BY <1>1, <1>3, <1>5, <1>6, <1>7 DEF Counts

LEMMA CountsLike ==
  ASSUME NEW b, NEW c, NEW s, NEW u, NEW big, Counts(b, c, s, u, big),
         NEW t \in JSON, Len(t) = Len(s)
  PROVE  Counts(b, c, t, u, big)
<1>1. Counted(b, c, s, u, big) => Counted(b, c, t, u, big)
  BY DEF Counted
<1> QED BY <1>1 DEF Counts

(* Sizes added one after the other are the size of the texts concatenated. *)
AllValid(valid, k) == \A i \in 1 .. k : valid[i]

CountsEach(after, n, texts, valid, big) ==
  \A k \in 1 .. n :
    Sized(after[k - 1]) => Counts(after[k - 1], after[k], texts[k], valid[k], big)

LEMMA OneMoreValid ==
  ASSUME NEW n \in Nat, NEW valid \in [1 .. n -> BOOLEAN], NEW k \in Nat,
         NEW j \in 1 .. n, j = k + 1
  PROVE  AllValid(valid, j) = (AllValid(valid, k) /\ valid[j])
<1>1. \A i \in 1 .. j : i \in 1 .. k \/ i = j
  OBVIOUS
<1>2. \A i \in 1 .. k : i \in 1 .. j
  OBVIOUS
<1>3. j \in 1 .. j
  OBVIOUS
<1>4. valid[j] \in BOOLEAN
  OBVIOUS
<1>5. CASE AllValid(valid, k) /\ valid[j]
  BY <1>1, <1>5, Zenon DEF AllValid
<1>6. CASE ~(AllValid(valid, k) /\ valid[j])
  BY <1>2, <1>3, <1>6, Zenon DEF AllValid
<1> QED BY <1>5, <1>6, Zenon DEF AllValid

LEMMA CountsAlong ==
  ASSUME NEW n \in Nat, NEW after, NEW texts, NEW g, NEW big,
         Concatenates(g, n, texts, Alphabet), Sized(after[0]),
         NEW valid \in [1 .. n -> BOOLEAN],
         CountsEach(after, n, texts, valid, big)
  PROVE  Counts(after[0], after[n], g[n], AllValid(valid, n), big)
<1> DEFINE T == {k \in Nat : k <= n =>
                   Counts(after[0], after[k], g[k], AllValid(valid, k), big)}
<1>1. 0 \in T
  <2>1. AllValid(valid, 0) = TRUE
    BY DEF AllValid
  <2>2. g[0] = <<>>
    BY DEF Concatenates
  <2>3. Counts(after[0], after[0], <<>>, TRUE, big)
    BY NothingCounts, Zenon
  <2> QED BY <2>1, <2>2, <2>3, Zenon
<1>2. ASSUME NEW k \in Nat, k \in T
      PROVE  k + 1 \in T
  <2> SUFFICES ASSUME k + 1 <= n
               PROVE  Counts(after[0], after[k + 1], g[k + 1], AllValid(valid, k + 1), big)
    OBVIOUS
  <2>1. Counts(after[0], after[k], g[k], AllValid(valid, k), big)
    BY <1>2
  <2>2. PICK j : j = k + 1 /\ j \in 1 .. n /\ j - 1 = k
    OBVIOUS
  <2>3. Sized(after[k])
    BY <2>1 DEF Counts
  <2>4. Counts(after[k], after[j], texts[j], valid[j], big)
    BY <2>2, <2>3 DEF CountsEach
  <2>5. g[j] = g[k] \o texts[j]
    BY <2>2, Zenon DEF Concatenates
  <2>6. AllValid(valid, k) \in BOOLEAN /\ valid[j] \in BOOLEAN
    BY <2>2 DEF AllValid
  <2>7. Counts(after[0], after[j], g[k] \o texts[j], AllValid(valid, k) /\ valid[j], big)
    BY <2>1, <2>4, <2>6, CountsOn
  <2>8. AllValid(valid, j) = (AllValid(valid, k) /\ valid[j])
    BY <2>2, OneMoreValid, Zenon
  <2> QED BY <2>2, <2>5, <2>7, <2>8
<1> HIDE DEF T
<1>3. Nat \subseteq T
  BY <1>1, <1>2, Induction, Zenon
<1>4. n \in T
  BY <1>3
<1> QED BY <1>4 DEF T

LEMMA TableCounts ==
  ASSUME NEW n \in Nat, NEW texts, texts = [k \in 1 .. n |-> texts[k]],
         \A k \in 1 .. n : texts[k] \in JSON,
         NEW after, Sized(after[0]), NEW valid \in [1 .. n -> BOOLEAN], NEW big,
         CountsEach(after, n, texts, valid, big)
  PROVE  Counts(after[0], after[n], FlattenSeq(texts), AllValid(valid, n), big)
<1>1. \A k \in 1 .. n : texts[k] \in Seq(Alphabet)
  BY DEF JSON
<1>2. PICK g : Concatenates(g, n, texts, Alphabet)
  BY <1>1, Concatenations, Zenon
<1>3. FlattenSeq(texts) = g[n]
  BY <1>2, FlattenTexts
<1>4. Counts(after[0], after[n], g[n], AllValid(valid, n), big)
  BY <1>2, CountsAlong
<1> QED BY <1>3, <1>4

-----------------------------------------------------------------------------
(* The size of a string: two quotes, and every byte as long as it is when  *)
(* it is escaped.                                                          *)
LEMMA EncodedSizeIs ==
  ASSUME NEW value \in Seq(Bytes)
  PROVE  EncodedSize(value) = Len(JSONString(value)) /\ JSONString(value) \in JSON
<1>1. PICK g : EscapesTo(g, value)
  BY EscapesExist
<1>2. /\ Len(value) \in Nat
      /\ g[0] = <<>>
      /\ \A k \in 0 .. Len(value) : g[k] \in JSON
      /\ \A k \in 1 .. Len(value) : g[k] = g[k - 1] \o Escaped(value[k])
      /\ JSONString(value) = (Quote \o g[Len(value)]) \o Quote
  BY <1>1, EscapesAre, Zenon
<1>3. PICK n \in Nat : n = Len(value)
  BY <1>2
<1> DEFINE Solves(h) ==
      h = [i \in 0 .. Len(value) |-> IF i = 0 THEN 2 ELSE h[i - 1] + EncodedByte(value[i])]
<1>4. PICK f : f = CHOOSE h : Solves(h)
  OBVIOUS
<1>5. EncodedSize(value) = f[n]
  BY <1>3, <1>4 DEF EncodedSize
<1>6. PICK l : l = [k \in 0 .. n |-> Len(g[k])]
  BY Zenon
<1>7. /\ \A k \in 0 .. n : l[k] \in Nat
      /\ l[0] = 0
      /\ \A k \in 1 .. n : l[k] = l[k - 1] + EncodedByte(value[k])
  <2>1. \A k \in 0 .. n : l[k] \in Nat
    <3> SUFFICES ASSUME NEW k \in 0 .. n PROVE l[k] \in Nat
      OBVIOUS
    <3>1. g[k] \in JSON
      BY <1>2, <1>3
    <3>2. Len(g[k]) \in Nat
      BY <3>1, TextsJoin
    <3> QED BY <1>6, <3>2
  <2>2. l[0] = 0
    BY <1>2, <1>6, NoText
  <2>3. ASSUME NEW k \in 1 .. n
        PROVE  l[k] = l[k - 1] + EncodedByte(value[k])
    <3>1. k - 1 \in 0 .. n /\ k \in 0 .. n
      OBVIOUS
    <3>2. g[k - 1] \in JSON /\ g[k] = g[k - 1] \o Escaped(value[k])
      BY <1>2, <1>3, <3>1, Zenon
    <3>3. value[k] \in Bytes
      BY <1>3
    <3>4. Escaped(value[k]) \in JSON /\ Len(Escaped(value[k])) = EncodedByte(value[k])
      BY <3>3, EscapedIs
    <3>5. Len(g[k - 1] \o Escaped(value[k])) = Len(g[k - 1]) + Len(Escaped(value[k]))
      BY <3>2, <3>4, TextsJoin, Zenon
    <3> QED BY <1>6, <3>1, <3>2, <3>4, <3>5, Zenon
  <2> QED BY <2>1, <2>2, <2>3
<1>8. Solves([k \in 0 .. n |-> 2 + l[k]])
  <2>1. PICK h : h = [k \in 0 .. n |-> 2 + l[k]]
    BY Zenon
  <2>2. ASSUME NEW i \in 0 .. n
        PROVE  2 + l[i] = IF i = 0 THEN 2 ELSE h[i - 1] + EncodedByte(value[i])
    <3>1. CASE i = 0
      BY <1>7, <3>1
    <3>2. CASE i # 0
      <4>1. i \in 1 .. n /\ i - 1 \in 0 .. n
        BY <3>2
      <4>2. h[i - 1] = 2 + l[i - 1] /\ l[i] = l[i - 1] + EncodedByte(value[i])
        BY <1>7, <2>1, <4>1
      <4>3. l[i - 1] \in Nat /\ EncodedByte(value[i]) \in Nat
        BY <1>7, <4>1 DEF EncodedByte
      <4> QED BY <3>2, <4>2, <4>3
    <3> QED BY <3>1, <3>2
  <2>3. h = [i \in 0 .. n |-> IF i = 0 THEN 2 ELSE h[i - 1] + EncodedByte(value[i])]
    BY <2>1, <2>2
  <2> QED BY <1>3, <2>1, <2>3
<1>9. Solves(f)
  <2> HIDE DEF Solves
  <2> QED BY <1>4, <1>8
<1>10. /\ f[0] = 2
       /\ \A k \in 1 .. n : f[k] = f[k - 1] + EncodedByte(value[k])
  <2>1. f = [i \in 0 .. n |-> IF i = 0 THEN 2 ELSE f[i - 1] + EncodedByte(value[i])]
    BY <1>3, <1>9
  <2>2. ASSUME NEW k \in 0 .. n
        PROVE  f[k] = IF k = 0 THEN 2 ELSE f[k - 1] + EncodedByte(value[k])
    BY <2>1
  <2> QED BY <2>2
<1> HIDE DEF Solves
<1> DEFINE T == {k \in Nat : k <= n => f[k] = 2 + l[k]}
<1>11. 0 \in T
  BY <1>7, <1>10
<1>12. ASSUME NEW k \in Nat, k \in T
       PROVE  k + 1 \in T
  <2> SUFFICES ASSUME k + 1 <= n PROVE f[k + 1] = 2 + l[k + 1]
    OBVIOUS
  <2>1. f[k] = 2 + l[k] /\ l[k] \in Nat
    BY <1>7, <1>12
  <2>2. PICK j : j = k + 1 /\ j \in 1 .. n /\ j - 1 = k
    OBVIOUS
  <2>3. f[j] = f[k] + EncodedByte(value[j]) /\ l[j] = l[k] + EncodedByte(value[j])
    BY <1>7, <1>10, <2>2
  <2>4. EncodedByte(value[j]) \in Nat
    BY DEF EncodedByte
  <2> QED BY <2>1, <2>2, <2>3, <2>4
<1> HIDE DEF T
<1>13. Nat \subseteq T
  BY <1>11, <1>12, Induction
<1>14. n \in T
  BY <1>13
<1>15. f[n] = 2 + Len(g[n]) /\ g[n] \in JSON /\ Len(g[n]) \in Nat
  <2>1. g[n] \in JSON /\ l[n] = Len(g[n]) /\ l[n] \in Nat
    BY <1>2, <1>3, <1>6, <1>7
  <2> QED BY <1>14, <2>1 DEF T
<1>16. /\ Quote \o g[n] \in JSON /\ Len(Quote \o g[n]) = 1 + Len(g[n])
  BY <1>15, QuoteTyped, TextsJoin, Zenon
<1>17. /\ (Quote \o g[n]) \o Quote \in JSON
       /\ Len((Quote \o g[n]) \o Quote) = Len(Quote \o g[n]) + 1
  BY <1>16, QuoteTyped, TextsJoin, Zenon
<1> QED BY <1>2, <1>3, <1>5, <1>15, <1>16, <1>17

-----------------------------------------------------------------------------
(* A list: two for its brackets, then its elements, each but the first     *)
(* with one for the comma in front of it.                                  *)
LEMMA CommaCounts ==
  ASSUME NEW x, Sized(x), NEW i \in Nat, NEW a, a = IF i > 1 THEN Add(x, 1) ELSE x,
         NEW t, NEW v \in BOOLEAN, NEW big, NEW y,
         Sized(a) => Counts(a, y, t, v, big)
  PROVE  Counts(x, y, Separator(i) \o t, v, big)
<1>1. Comma \in JSON /\ Len(Comma) = 1
  BY LiteralsTyped, LengthsAssumption, Zenon DEF Comma
<1>2. Counts(x, a, Separator(i), TRUE, big)
  <2>1. CASE i > 1
    <3>1. PICK n : n = 1
      OBVIOUS
    <3>2. Counts(x, Add(x, n), Comma, TRUE, big)
      BY <1>1, <3>1, AddCounts, Zenon
    <3> QED BY <2>1, <3>1, <3>2, Zenon DEF Separator
  <2>2. CASE ~(i > 1)
    BY <2>2, NothingCounts, Zenon DEF Separator
  <2> QED BY <2>1, <2>2, Zenon
<1>3. Sized(a)
  BY <1>2 DEF Counts
<1>4. Counts(a, y, t, v, big)
  BY <1>3
<1>5. Counts(x, y, Separator(i) \o t, TRUE /\ v, big)
  BY <1>2, <1>4, CountsOn, Zenon
<1>6. (TRUE /\ v) = v
  OBVIOUS
<1> QED BY <1>5, <1>6

ListCounts(after, n, parts, valid, big) ==
  \A i \in 1 .. n :
    Sized(after[i - 1]) =>
      Counts(after[i - 1], after[i], Separator(i) \o parts[i], valid[i], big)

LEMMA BracketsCount ==
  ASSUME NEW n \in Nat, NEW parts, parts = [i \in 1 .. n |-> parts[i]],
         \A i \in 1 .. n : parts[i] \in JSON,
         NEW x, Sized(x), NEW after, after[0] = Add(x, 2),
         NEW valid \in [1 .. n -> BOOLEAN], NEW big,
         ListCounts(after, n, parts, valid, big)
  PROVE  Counts(x, after[n], Bracketed(parts), AllValid(valid, n), big)
<1>1. PICK texts : texts = Elements(parts, n)
  BY Zenon
<1>2. texts = [i \in 1 .. n |-> texts[i]]
  BY <1>1 DEF Elements
<1>3. \A i \in 1 .. n : texts[i] = Separator(i) \o parts[i]
  BY <1>1 DEF Elements
<1>4. \A i \in 1 .. n : texts[i] \in JSON
  <2> SUFFICES ASSUME NEW i \in 1 .. n
               PROVE  texts[i] \in JSON
    OBVIOUS
  <2>1. i \in Nat /\ parts[i] \in JSON
    OBVIOUS
  <2> QED BY <1>3, <2>1, ElementTyped, Zenon
<1>5. CountsEach(after, n, texts, valid, big)
  BY <1>3, Zenon DEF CountsEach, ListCounts
<1>6. PICK l, r : l = LeftBracket /\ r = RightBracket
  OBVIOUS
<1>7. l \in JSON /\ r \in JSON /\ Len(l) = 1 /\ Len(r) = 1
  BY <1>6, LiteralsTyped, LengthsAssumption, Zenon DEF LeftBracket, RightBracket
<1>8. l \o r \in JSON /\ Len(l \o r) = 2
  <2>1. l \o r \in JSON /\ Len(l \o r) = Len(l) + Len(r)
    BY <1>7, TextsJoin, Zenon
  <2> QED BY <1>7, <2>1
<1>9. Counts(x, after[0], l \o r, TRUE, big)
  <2>1. PICK m : m = 2
    OBVIOUS
  <2>2. Counts(x, Add(x, m), l \o r, TRUE, big)
    BY <1>8, <2>1, AddCounts, Zenon
  <2> QED BY <2>1, <2>2, Zenon
<1>10. PICK f : f = FlattenSeq(texts)
  OBVIOUS
<1>11. Counts(after[0], after[n], f, AllValid(valid, n), big)
  <2>1. Sized(after[0])
    BY <1>9 DEF Counts
  <2> QED BY <1>2, <1>4, <1>5, <1>10, <2>1, TableCounts, Zenon
<1>12. Counts(x, after[n], (l \o r) \o f, AllValid(valid, n), big)
  <2>1. PICK v \in BOOLEAN : v = AllValid(valid, n)
    BY Zenon DEF AllValid
  <2>2. Counts(after[0], after[n], f, v, big)
    BY <1>11, <2>1
  <2>3. Counts(x, after[n], (l \o r) \o f, TRUE /\ v, big)
    <3>1. PICK s, a, z : s = l \o r /\ a = after[0] /\ z = after[n]
      BY Zenon
    <3>2. Counts(x, a, s, TRUE, big) /\ Counts(a, z, f, v, big)
      BY <1>9, <2>2, <3>1, Zenon
    <3>3. Counts(x, z, s \o f, TRUE /\ v, big)
      BY <3>2, CountsOn, Zenon
    <3> QED BY <3>1, <3>3
  <2>4. (TRUE /\ v) = v
    OBVIOUS
  <2> QED BY <2>1, <2>3, <2>4
<1>13. Bracketed(parts) = (l \o f) \o r
  <2>1. Len(parts) = n
    <3>1. parts \in Seq(JSON) /\ DOMAIN parts = 1 .. n
      OBVIOUS
    <3> QED BY <3>1, LenProperties
  <2>2. texts = [i \in 1 .. Len(parts) |-> (IF i > 1 THEN Comma ELSE <<>>) \o parts[i]]
    BY <1>1, <2>1 DEF Elements, Separator
  <2> QED BY <1>6, <1>10, <2>2 DEF Bracketed
<1>14. f \in JSON
  BY <1>11 DEF Counts
<1>15. Len((l \o r) \o f) = 2 + Len(f) /\ Len(f) \in Nat
  BY <1>8, <1>14, TextsJoin
<1>16. l \o f \in JSON /\ Len(l \o f) = 1 + Len(f)
  <2>1. l \o f \in JSON /\ Len(l \o f) = Len(l) + Len(f)
    BY <1>7, <1>14, TextsJoin, Zenon
  <2> QED BY <1>7, <2>1
<1>17. (l \o f) \o r \in JSON /\ Len((l \o f) \o r) = Len(l \o f) + 1
  BY <1>7, <1>16, TextsJoin
<1>18. Len((l \o f) \o r) = Len((l \o r) \o f)
  BY <1>15, <1>16, <1>17
<1> QED BY <1>12, <1>13, <1>17, <1>18, CountsLike, Zenon

-----------------------------------------------------------------------------
(* The steps of a table.  What they read, and whether its strings are      *)
(* valid.                                                                  *)
StepReads(step, from) ==
  \/ step.kind = "literal" /\ step.arg \in JSON
  \/ step.kind = "string" /\ from[step.arg] \in Seq(Bytes)
  \/ step.kind = "bool" /\ from[step.arg] \in BOOLEAN
  \/ step.kind = "int" /\ from[step.arg] \in Ints
  \/ step.kind = "nullable" /\ (from[step.arg] = Nil \/ from[step.arg] \in Seq(Bytes))

StringValid(value, validate) == validate => ValidUTF8(value)

StepValid(step, from, validate) ==
  /\ step.kind = "string" => StringValid(from[step.arg], validate)
  /\ step.kind = "nullable" /\ from[step.arg] # Nil => StringValid(from[step.arg], validate)

LEMMA ValidTyped ==
  ASSUME NEW value, NEW validate, NEW step, NEW from
  PROVE  /\ StringValid(value, validate) \in BOOLEAN
         /\ StepValid(step, from, validate) \in BOOLEAN
         /\ step.kind \notin {"string", "nullable"} => StepValid(step, from, validate) = TRUE
         /\ step.kind = "string" =>
              StepValid(step, from, validate) = StringValid(from[step.arg], validate)
         /\ step.kind = "nullable" /\ from[step.arg] # Nil =>
              StepValid(step, from, validate) = StringValid(from[step.arg], validate)
         /\ step.kind = "nullable" /\ from[step.arg] = Nil =>
              StepValid(step, from, validate) = TRUE
BY Zenon DEF StringValid, StepValid

(* A step that adds a number adds the length of what is written.           *)
Plainly(step) == step.kind \in {"literal", "bool", "int"}

LEMMA PlainStepCounts ==
  ASSUME NEW b, Sized(b), NEW step, NEW from, StepReads(step, from), Plainly(step),
         NEW validate, NEW big
  PROVE  /\ Counts(b, EstimateStep(b, step, from), ReferenceStep(step, from),
                   StepValid(step, from, validate), big)
         /\ PackStep(b, step, from, validate) = EstimateStep(b, step, from)
<1>1. StepValid(step, from, validate) = TRUE
  BY ValidTyped, Zenon DEF Plainly
<1>2. CASE step.kind = "literal"
  <2>1. PICK t, n : t = step.arg /\ n = Len(t)
    BY Zenon
  <2>2. t \in JSON
    BY <1>2, <2>1 DEF StepReads
  <2>3. ReferenceStep(step, from) = t
    BY <1>2, <2>1 DEF ReferenceStep
  <2>4. EstimateStep(b, step, from) = Add(b, n)
    BY <1>2, <2>1 DEF EstimateStep
  <2>5. PackStep(b, step, from, validate) = Add(b, n)
    BY <1>2, <2>1 DEF PackStep
  <2> QED BY <1>1, <2>1, <2>2, <2>3, <2>4, <2>5, AddCounts, Zenon
<1>3. CASE step.kind = "bool"
  <2>1. from[step.arg] \in BOOLEAN
    BY <1>3 DEF StepReads
  <2>2. PICK t, n : /\ t = (IF from[step.arg] THEN Chars("true") ELSE Chars("false"))
                    /\ n = (IF from[step.arg] THEN 4 ELSE 5)
    OBVIOUS
  <2>3. t \in JSON /\ n = Len(t)
    BY <2>1, <2>2, LiteralsTyped, LengthsAssumption, Zenon
  <2>4. ReferenceStep(step, from) = Chars(IF from[step.arg] THEN "true" ELSE "false")
    BY <1>3 DEF ReferenceStep
  <2>5. ReferenceStep(step, from) = t
    BY <2>2, <2>4
  <2>6. EstimateStep(b, step, from) = Add(b, n)
    BY <1>3, <2>2 DEF EstimateStep
  <2>7. PackStep(b, step, from, validate) = Add(b, n)
    BY <1>3, <2>2 DEF PackStep
  <2> QED BY <1>1, <2>3, <2>5, <2>6, <2>7, AddCounts, Zenon
<1>4. CASE step.kind = "int"
  <2>1. PICK t, n : t = Decimal(from[step.arg]) /\ n = Int64Length(from[step.arg])
    OBVIOUS
  <2>2. from[step.arg] \in Ints
    BY <1>4 DEF StepReads
  <2>3. t \in JSON /\ n = Len(t)
    BY <2>1, <2>2, IntegerTextIs
  <2>4. ReferenceStep(step, from) = t
    BY <1>4, <2>1 DEF ReferenceStep
  <2>5. EstimateStep(b, step, from) = Add(b, n)
    BY <1>4, <2>1 DEF EstimateStep
  <2>6. PackStep(b, step, from, validate) = Add(b, n)
    BY <1>4, <2>1 DEF PackStep
  <2> QED BY <1>1, <2>3, <2>4, <2>5, <2>6, AddCounts, Zenon
<1> QED BY <1>2, <1>3, <1>4 DEF Plainly

LEMMA NullCounts ==
  ASSUME NEW b, Sized(b), NEW big
  PROVE  Counts(b, Add(b, 4), Chars("null"), TRUE, big)
<1>1. PICK n : n = 4
  OBVIOUS
<1>2. Counts(b, Add(b, n), Chars("null"), TRUE, big)
  BY <1>1, LiteralsTyped, LengthsAssumption, AddCounts, Zenon
<1> QED BY <1>1, <1>2, Zenon

(* An error that stops the adding up.                                      *)
LEMMA ErrorStops ==
  ASSUME NEW b, Sized(b), NEW err, NEW c, c = [b EXCEPT !.err = err]
  PROVE  Sized(c) /\ DOMAIN c = DOMAIN b /\ (Tidy(b) => Tidy(c)) /\ c.err = err
<1>1. PICK d : d = DOMAIN b
  OBVIOUS
<1>2. b = [f \in d |-> b[f]] /\ "size" \in d /\ "err" \in d
  BY <1>1 DEF Sized
<1>3. c = [f \in d |-> IF f = "err" THEN err ELSE b[f]]
  BY <1>1, <1>2
<1>4. c = [f \in d |-> c[f]] /\ DOMAIN c = d /\ c.err = err /\ c.size = b.size
  BY <1>2, <1>3
<1>5. Sized(c)
  BY <1>2, <1>4 DEF Sized
<1>6. Tidy(b) => Tidy(c)
  BY <1>1, <1>3, SameTidy
<1> QED BY <1>1, <1>4, <1>5, <1>6

LEMMA EstimateStringCounts ==
  ASSUME NEW b, Sized(b), NEW value \in Seq(Bytes), NEW c, c = EstimateString(b, value)
  PROVE  Counts(b, c, JSONString(value), StringValid(value, TRUE), FALSE)
<1>1. PICK t, n : t = JSONString(value) /\ n = EncodedSize(value)
  OBVIOUS
<1>2. t \in JSON /\ n = Len(t)
  BY <1>1, EncodedSizeIs
<1>3. CASE b.err # "none"
  <2>1. c = b
    BY <1>3 DEF EstimateString, Add
  <2> QED BY <1>1, <1>2, <1>3, <2>1, ErrorCounts, Zenon
<1>4. CASE b.err = "none" /\ ValidUTF8(value)
  <2>1. c = Add(b, n)
    BY <1>1, <1>4 DEF EstimateString
  <2>2. StringValid(value, TRUE) = TRUE
    BY <1>4 DEF StringValid
  <2> QED BY <1>1, <1>2, <2>1, <2>2, AddCounts, Zenon
<1>5. CASE b.err = "none" /\ ~ValidUTF8(value)
  <2>1. c = [b EXCEPT !.err = "ErrInvalidUTF8"]
    BY <1>5 DEF EstimateString
  <2>2. Sized(c) /\ DOMAIN c = DOMAIN b /\ (Tidy(b) => Tidy(c)) /\ c.err = "ErrInvalidUTF8"
    BY <2>1, ErrorStops, Zenon
  <2>3. ~StringValid(value, TRUE)
    BY <1>5 DEF StringValid
  <2> QED BY <1>1, <1>2, <1>5, <2>2, <2>3, Zenon DEF Counts, Counted
<1> QED BY <1>3, <1>4, <1>5, Zenon

LEMMA EstimateStepCounts ==
  ASSUME NEW b, Sized(b), NEW step, NEW from, StepReads(step, from)
  PROVE  Counts(b, EstimateStep(b, step, from), ReferenceStep(step, from),
                StepValid(step, from, TRUE), FALSE)
<1>1. CASE Plainly(step)
  BY <1>1, PlainStepCounts, Zenon
<1>2. CASE step.kind = "string"
  <2>1. /\ EstimateStep(b, step, from) = EstimateString(b, from[step.arg])
        /\ ReferenceStep(step, from) = JSONString(from[step.arg])
    BY <1>2 DEF EstimateStep, ReferenceStep
  <2>2. from[step.arg] \in Seq(Bytes)
    BY <1>2 DEF StepReads
  <2>3. StepValid(step, from, TRUE) = StringValid(from[step.arg], TRUE)
    BY <1>2, ValidTyped, Zenon
  <2> QED BY <2>1, <2>2, <2>3, EstimateStringCounts, Zenon
<1>3. CASE step.kind = "nullable" /\ from[step.arg] = Nil
  <2>1. /\ EstimateStep(b, step, from) = Add(b, 4)
        /\ ReferenceStep(step, from) = Chars("null")
    BY <1>3 DEF EstimateStep, ReferenceStep
  <2>2. StepValid(step, from, TRUE) = TRUE
    BY <1>3, ValidTyped, Zenon
  <2> QED BY <2>1, <2>2, NullCounts, Zenon
<1>4. CASE step.kind = "nullable" /\ from[step.arg] # Nil
  <2>1. /\ EstimateStep(b, step, from) = EstimateString(b, from[step.arg])
        /\ ReferenceStep(step, from) = JSONString(from[step.arg])
    BY <1>4 DEF EstimateStep, ReferenceStep
  <2>2. from[step.arg] \in Seq(Bytes)
    BY <1>4 DEF StepReads
  <2>3. StepValid(step, from, TRUE) = StringValid(from[step.arg], TRUE)
    BY <1>4, ValidTyped, Zenon
  <2> QED BY <2>1, <2>2, <2>3, EstimateStringCounts, Zenon
<1> QED BY <1>1, <1>2, <1>3, <1>4, Zenon DEF StepReads, Plainly

-----------------------------------------------------------------------------
(* What the steps of the tables read of an item and of an order.           *)
LEMMA TablesInCommon ==
  /\ EstimateItemTable = PackItemTable
  /\ ReferenceItemTable = PackItemTable
  /\ EstimateTable = PackTable
BY DEF EstimateItemTable, PackItemTable, ReferenceItemTable, EstimateTable, PackTable

LEMMA ItemStepReads ==
  ASSUME NEW item \in Item, NEW k \in 1 .. 9
  PROVE  StepReads(PackItemTable[k], item) /\ PackItemTable[k].kind # "items"
<1>1. CASE k \in {1, 3, 5, 7, 9}
  <2>1. PICK name \in DOMAIN GoLiteral : PackItemTable[k] = Lit(GoLiteral[name])
    <3>1. {"itemSKU", "itemTitle", "itemQty", "itemPrice", "itemEnd"} \subseteq DOMAIN GoLiteral
      BY DEF GoLiteral
    <3>2. /\ PackItemTable[1] = Lit(GoLiteral["itemSKU"])
          /\ PackItemTable[3] = Lit(GoLiteral["itemTitle"])
          /\ PackItemTable[5] = Lit(GoLiteral["itemQty"])
          /\ PackItemTable[7] = Lit(GoLiteral["itemPrice"])
          /\ PackItemTable[9] = Lit(GoLiteral["itemEnd"])
      BY DEF PackItemTable
    <3> QED BY <1>1, <3>1, <3>2
  <2>2. PackItemTable[k].kind = "literal" /\ PackItemTable[k].arg \in JSON
    BY <2>1, GoLiteralTyped DEF Lit
  <2> QED BY <2>2 DEF StepReads
<1>2. CASE k \in {2, 4}
  <2>1. PICK field \in {"sku", "title"} : PackItemTable[k] = Str(field)
    BY <1>2, PackItemTableIs
  <2>2. PackItemTable[k].kind = "string" /\ PackItemTable[k].arg = field
    BY <2>1 DEF Str
  <2>3. item[field] \in Seq(Bytes)
    BY <2>1, ItemIs
  <2> QED BY <2>2, <2>3 DEF StepReads
<1>3. CASE k \in {6, 8}
  <2>1. PICK field \in {"qty", "price"} : PackItemTable[k] = Num(field)
    <3>1. PackItemTable[6] = Num("qty") /\ PackItemTable[8] = Num("price")
      BY DEF PackItemTable
    <3> QED BY <1>3, <3>1
  <2>2. PackItemTable[k].kind = "int" /\ PackItemTable[k].arg = field
    BY <2>1 DEF Num
  <2>3. item[field] \in Ints
    BY <2>1, ItemIs
  <2> QED BY <2>2, <2>3 DEF StepReads
<1> QED BY <1>1, <1>2, <1>3

LEMMA OrderStepReads ==
  ASSUME NEW order \in Order, NEW k \in 1 .. 25, k # 22
  PROVE  StepReads(PackTable[k], order) /\ PackTable[k].kind # "items"
<1>1. /\ \A field \in OrderStrings : order[field] \in Seq(Bytes)
      /\ order["buyerID"] \in Ints /\ order["paid"] \in BOOLEAN
      /\ order["trackingNo"] # Nil => order["trackingNo"] \in Seq(Bytes)
  BY OrderIs
<1>2. CASE k \in {1, 3, 5, 7, 9, 11, 13, 15, 17, 19, 21, 23, 25}
  <2>1. PackTable[k].kind = "literal" /\ PackTable[k].arg \in JSON
    BY <1>2, StaticLiterals, StaticIsPacked
  <2> QED BY <2>1 DEF StepReads
<1>3. CASE k \in {2, 4, 6, 8, 14, 16, 18, 24}
  <2>1. PICK field \in OrderStrings : PackTable[k] = Str(field)
    BY <1>3, StaticOthers, StaticIsPacked
  <2>2. PackTable[k].kind = "string" /\ PackTable[k].arg = field
    BY <2>1 DEF Str
  <2> QED BY <1>1, <2>2 DEF StepReads
<1>4. CASE k = 10
  <2>1. PackTable[k].kind = "bool" /\ PackTable[k].arg = "paid"
    BY <1>4, StaticOthers, StaticIsPacked DEF Bool
  <2> QED BY <1>1, <2>1 DEF StepReads
<1>5. CASE k = 12
  <2>1. PackTable[k].kind = "int" /\ PackTable[k].arg = "buyerID"
    BY <1>5, StaticOthers, StaticIsPacked DEF Num
  <2> QED BY <1>1, <2>1 DEF StepReads
<1>6. CASE k = 20
  <2>1. PackTable[k].kind = "nullable" /\ PackTable[k].arg = "trackingNo"
    BY <1>6, StaticOthers, StaticIsPacked DEF Nullable
  <2> QED BY <1>1, <2>1 DEF StepReads
<1> QED BY <1>2, <1>3, <1>4, <1>5, <1>6

LEMMA ItemsStepIs == PackTable[22].kind = "items" /\ StaticTable[22].kind = "items"
BY StaticOthers, StaticIsPacked DEF ItemList

(* The text of a step, and of an item, needs no row.                       *)
LEMMA StepTextTyped ==
  ASSUME NEW step, NEW from, StepReads(step, from)
  PROVE  ReferenceStep(step, from) \in JSON
<1>1. PICK b : b = [size |-> 0, err |-> "none"]
  BY Zenon
<1>2. Sized(b)
  BY <1>1, LimitsAssumption DEF Sized
<1> QED BY <1>2, EstimateStepCounts, Zenon DEF Counts

-----------------------------------------------------------------------------
(* The strings of an item, and of an order, are valid.                     *)
ItemValidity(item, validate) ==
  [k \in 1 .. 9 |-> StepValid(PackItemTable[k], item, validate)]

ItemValid(item, validate) == AllValid(ItemValidity(item, validate), 9)

ItemsValidity(items, validate) ==
  [i \in 1 .. Len(items) |-> ItemValid(items[i], validate)]

ItemsValid(items, validate) ==
  items = Nil \/ AllValid(ItemsValidity(items, validate), Len(items))

RowStepValid(step, order, validate) ==
  IF step.kind = "items" THEN ItemsValid(order.items, validate)
  ELSE StepValid(step, order, validate)

OrderValidity(order, validate) ==
  [k \in 1 .. 25 |-> RowStepValid(PackTable[k], order, validate)]

OrderValid(order, validate) == AllValid(OrderValidity(order, validate), 25)

LEMMA ValidityTyped ==
  ASSUME NEW item, NEW items, NEW order, NEW validate
  PROVE  /\ ItemValidity(item, validate) \in [1 .. 9 -> BOOLEAN]
         /\ ItemValid(item, validate) \in BOOLEAN
         /\ ItemsValidity(items, validate) \in [1 .. Len(items) -> BOOLEAN]
         /\ ItemsValid(items, validate) \in BOOLEAN
         /\ OrderValidity(order, validate) \in [1 .. 25 -> BOOLEAN]
         /\ OrderValid(order, validate) \in BOOLEAN
<1>1. \A step, from : StepValid(step, from, validate) \in BOOLEAN
  BY DEF StepValid
<1>2. ItemValidity(item, validate) \in [1 .. 9 -> BOOLEAN]
  BY <1>1 DEF ItemValidity
<1>3. \A other : ItemValid(other, validate) \in BOOLEAN
  BY DEF ItemValid, AllValid
<1>4. ItemsValidity(items, validate) \in [1 .. Len(items) -> BOOLEAN]
  BY <1>3 DEF ItemsValidity
<1>5. \A other : ItemsValid(other, validate) \in BOOLEAN
  BY DEF ItemsValid, AllValid
<1>6. \A step : RowStepValid(step, order, validate) \in BOOLEAN
  BY <1>1, <1>5 DEF RowStepValid
<1>7. OrderValidity(order, validate) \in [1 .. 25 -> BOOLEAN]
  BY <1>6 DEF OrderValidity
<1>8. OrderValid(order, validate) \in BOOLEAN
  BY DEF OrderValid, AllValid
<1> QED BY <1>2, <1>3, <1>4, <1>5, <1>7, <1>8, Zenon

-----------------------------------------------------------------------------
(* The estimate of an item.                                                *)
EstimateSteps(after, n, b, table, from) ==
  /\ after = [k \in 0 .. n |-> after[k]]
  /\ after[0] = b
  /\ \A k \in 1 .. n : after[k] = EstimateRowStep(after[k - 1], table[k], from)

LEMMA EstimateStepsExist ==
  ASSUME NEW n \in Nat, NEW b, NEW table, NEW from
  PROVE  \E after : EstimateSteps(after, n, b, table, from)
<1> DEFINE T == {m \in Nat : \E after : EstimateSteps(after, m, b, table, from)}
<1>1. 0 \in T
  <2>1. PICK z : z = b
    OBVIOUS
  <2>2. PICK g : g = [k \in 0 .. 0 |-> z]
    BY Zenon
  <2>3. EstimateSteps(g, 0, b, table, from)
    BY <2>1, <2>2 DEF EstimateSteps
  <2> QED BY <2>3
<1>2. ASSUME NEW m \in Nat, m \in T PROVE m + 1 \in T
  <2>1. PICK g : EstimateSteps(g, m, b, table, from)
    BY <1>2
  <2>2. PICK z : z = EstimateRowStep(g[m], table[m + 1], from)
    OBVIOUS
  <2>3. PICK h : Extends(h, g, m, z)
    BY OneMore
  <2>4. ASSUME NEW k \in 1 .. m + 1
        PROVE  h[k] = EstimateRowStep(h[k - 1], table[k], from)
    <3>1. CASE k \in 1 .. m
      <4>1. k \in 0 .. m /\ k - 1 \in 0 .. m
        BY <3>1
      <4> QED BY <2>1, <2>3, <3>1, <4>1, Zenon DEF EstimateSteps, Extends
    <3>2. CASE k = m + 1
      <4>1. k - 1 = m /\ m \in 0 .. m
        BY <3>2
      <4> QED BY <2>2, <2>3, <3>2, <4>1, Zenon DEF Extends
    <3>3. k \in 1 .. m \/ k = m + 1
      OBVIOUS
    <3> QED BY <3>1, <3>2, <3>3
  <2>5. 0 \in 0 .. m
    OBVIOUS
  <2>6. EstimateSteps(h, m + 1, b, table, from)
    BY <2>1, <2>3, <2>4, <2>5, Zenon DEF EstimateSteps, Extends
  <2> QED BY <2>6
<1>3. Nat \subseteq T
  <2> HIDE DEF T
  <2> QED BY <1>1, <1>2, Induction
<1> QED BY <1>3

LEMMA EstimateItemSteps ==
  ASSUME NEW b, NEW item \in Item
  PROVE  \E after :
           /\ EstimateSteps(after, 9, b, PackItemTable, item)
           /\ EstimateItem(b, item) = IF b.err # "none" THEN b ELSE after[9]
<1> DEFINE Solves(f) ==
             f = [k \in 0 .. Len(EstimateItemTable) |->
                    IF k = 0 THEN b
                    ELSE EstimateStep(f[k - 1], EstimateItemTable[k], item)]
<1>1. PICK g : EstimateSteps(g, 9, b, PackItemTable, item)
  BY EstimateStepsExist
<1>2. /\ Len(EstimateItemTable) = 9
      /\ \A k \in 1 .. 9 : EstimateItemTable[k] = PackItemTable[k]
  BY TablesInCommon, PackItemTableIs
<1>3. ASSUME NEW x, NEW k \in 1 .. 9
      PROVE  EstimateRowStep(x, PackItemTable[k], item) = EstimateStep(x, EstimateItemTable[k], item)
  BY <1>2, ItemStepReads DEF EstimateRowStep
<1>4. Solves(g)
  <2>1. ASSUME NEW k \in 0 .. 9
        PROVE  g[k] = IF k = 0 THEN b
                      ELSE EstimateStep(g[k - 1], EstimateItemTable[k], item)
    <3>1. CASE k = 0
      BY <1>1, <3>1 DEF EstimateSteps
    <3>2. CASE k # 0
      <4>1. k \in 1 .. 9
        BY <3>2
      <4> QED BY <1>1, <1>3, <3>2, <4>1 DEF EstimateSteps
    <3> QED BY <3>1, <3>2
  <2>2. g = [k \in 0 .. 9 |-> g[k]]
    BY <1>1 DEF EstimateSteps
  <2> QED BY <1>2, <2>1, <2>2
<1>5. PICK f : f = CHOOSE h : Solves(h)
  OBVIOUS
<1>6. Solves(f)
  <2> HIDE DEF Solves
  <2> QED BY <1>4, <1>5
<1>7. EstimateItem(b, item) = IF b.err # "none" THEN b ELSE f[9]
  BY <1>2, <1>5 DEF EstimateItem
<1>8. EstimateSteps(f, 9, b, PackItemTable, item)
  <2>1. /\ f = [k \in 0 .. 9 |-> f[k]]
        /\ \A k \in 0 .. 9 :
             f[k] = IF k = 0 THEN b
                    ELSE EstimateStep(f[k - 1], EstimateItemTable[k], item)
    BY <1>2, <1>6
  <2>2. f[0] = b
    BY <2>1
  <2>3. ASSUME NEW k \in 1 .. 9
        PROVE  f[k] = EstimateRowStep(f[k - 1], PackItemTable[k], item)
    <3>1. k \in 0 .. 9 /\ k # 0
      OBVIOUS
    <3> QED BY <1>3, <2>1, <3>1
  <2> QED BY <2>1, <2>2, <2>3 DEF EstimateSteps
<1> QED BY <1>7, <1>8

LEMMA EstimateItemCounts ==
  ASSUME NEW b, Sized(b), NEW item \in Item
  PROVE  /\ ReferenceItem(item) \in JSON
         /\ Counts(b, EstimateItem(b, item), ReferenceItem(item), ItemValid(item, TRUE), FALSE)
<1>1. PICK n \in Nat : n = 9
  OBVIOUS
<1>2. PICK texts : texts = ItemTexts(item)
  OBVIOUS
<1>3. PICK after : /\ EstimateSteps(after, 9, b, PackItemTable, item)
                   /\ EstimateItem(b, item) = IF b.err # "none" THEN b ELSE after[9]
  BY EstimateItemSteps
<1>4. PICK valid : valid = ItemValidity(item, TRUE)
  BY Zenon
<1>5. ASSUME NEW k \in 1 .. n
      PROVE  /\ texts[k] = ReferenceStep(PackItemTable[k], item)
             /\ valid[k] = StepValid(PackItemTable[k], item, TRUE)
             /\ StepReads(PackItemTable[k], item)
             /\ after[k] = EstimateStep(after[k - 1], PackItemTable[k], item)
  <2>1. k \in 1 .. 9
    BY <1>1
  <2>2. texts[k] = ReferenceStep(PackItemTable[k], item)
    BY <1>2, <2>1, TablesInCommon DEF ItemTexts
  <2>3. valid[k] = StepValid(PackItemTable[k], item, TRUE)
    BY <1>4, <2>1, Zenon DEF ItemValidity
  <2>4. after[k] = EstimateRowStep(after[k - 1], PackItemTable[k], item)
    BY <1>3, <2>1 DEF EstimateSteps
  <2> QED BY <2>1, <2>2, <2>3, <2>4, ItemStepReads DEF EstimateRowStep
<1>6. \A k \in 1 .. n : texts[k] \in JSON
  BY <1>5, StepTextTyped, Zenon
<1>7. CountsEach(after, n, texts, valid, FALSE)
  <2> SUFFICES ASSUME NEW k \in 1 .. n, Sized(after[k - 1])
               PROVE  Counts(after[k - 1], after[k], texts[k], valid[k], FALSE)
    BY Zenon DEF CountsEach
  <2> QED BY <1>5, EstimateStepCounts, Zenon
<1>8. after[0] = b
  BY <1>3 DEF EstimateSteps
<1>9. texts = [k \in 1 .. n |-> texts[k]]
  BY <1>1, <1>2 DEF ItemTexts
<1>10. valid \in [1 .. n -> BOOLEAN]
  BY <1>1, <1>4, ValidityTyped, Zenon
<1>11. Counts(b, after[n], FlattenSeq(texts), AllValid(valid, n), FALSE)
  BY <1>6, <1>7, <1>8, <1>9, <1>10, TableCounts, Zenon
<1>12. ReferenceItem(item) = FlattenSeq(texts)
  BY <1>2, ItemTablesAre DEF ReferenceItem, ItemTexts
<1>13. AllValid(valid, n) = ItemValid(item, TRUE)
  BY <1>1, <1>4 DEF ItemValid
<1>14. ReferenceItem(item) \in JSON
  BY <1>11, <1>12 DEF Counts
<1>15. CASE b.err # "none"
  BY <1>3, <1>14, <1>15, ErrorCounts, Zenon
<1>16. CASE b.err = "none"
  BY <1>1, <1>3, <1>11, <1>12, <1>13, <1>14, <1>16, Zenon
<1> QED BY <1>15, <1>16, Zenon

-----------------------------------------------------------------------------
(* The estimates of a list, one element after the other.                   *)
EstimateElement(b, x, kind) ==
  IF kind = "order" THEN EstimateOrder(b, x) ELSE EstimateItem(b, x)

EstimateTurns(after, n, b, list, kind) ==
  /\ after = [i \in 0 .. n |-> after[i]]
  /\ after[0] = b
  /\ \A i \in 1 .. n :
       after[i] = EstimateElement(EstimateComma(after[i - 1], i), list[i], kind)

LEMMA EstimateTurnsExist ==
  ASSUME NEW n \in Nat, NEW b, NEW list, NEW kind
  PROVE  \E after : EstimateTurns(after, n, b, list, kind)
<1> DEFINE T == {m \in Nat : \E after : EstimateTurns(after, m, b, list, kind)}
<1>1. 0 \in T
  <2>1. PICK z : z = b
    OBVIOUS
  <2>2. PICK g : g = [k \in 0 .. 0 |-> z]
    BY Zenon
  <2>3. EstimateTurns(g, 0, b, list, kind)
    BY <2>1, <2>2 DEF EstimateTurns
  <2> QED BY <2>3
<1>2. ASSUME NEW m \in Nat, m \in T PROVE m + 1 \in T
  <2>1. PICK g : EstimateTurns(g, m, b, list, kind)
    BY <1>2
  <2>2. PICK z : z = EstimateElement(EstimateComma(g[m], m + 1), list[m + 1], kind)
    OBVIOUS
  <2>3. PICK h : Extends(h, g, m, z)
    BY OneMore
  <2>4. ASSUME NEW i \in 1 .. m + 1
        PROVE  h[i] = EstimateElement(EstimateComma(h[i - 1], i), list[i], kind)
    <3>1. CASE i \in 1 .. m
      <4>1. i \in 0 .. m /\ i - 1 \in 0 .. m
        BY <3>1
      <4> QED BY <2>1, <2>3, <3>1, <4>1, Zenon DEF EstimateTurns, Extends
    <3>2. CASE i = m + 1
      <4>1. i - 1 = m /\ m \in 0 .. m
        BY <3>2
      <4> QED BY <2>2, <2>3, <3>2, <4>1, Zenon DEF Extends
    <3>3. i \in 1 .. m \/ i = m + 1
      OBVIOUS
    <3> QED BY <3>1, <3>2, <3>3
  <2>5. 0 \in 0 .. m
    OBVIOUS
  <2>6. EstimateTurns(h, m + 1, b, list, kind)
    BY <2>1, <2>3, <2>4, <2>5, Zenon DEF EstimateTurns, Extends
  <2> QED BY <2>6
<1>3. Nat \subseteq T
  <2> HIDE DEF T
  <2> QED BY <1>1, <1>2, Induction
<1> QED BY <1>3

(* If every element counts its text, a list counts its texts in brackets.  *)
ElementCounts(list, n, kind, parts, valid) ==
  \A i \in 1 .. n :
    /\ parts[i] \in JSON
    /\ \A b : Sized(b) => Counts(b, EstimateElement(b, list[i], kind), parts[i], valid[i], FALSE)

LEMMA TurnsCount ==
  ASSUME NEW x, Sized(x), NEW n \in Nat, NEW list, NEW kind, NEW parts,
         parts = [i \in 1 .. n |-> parts[i]], NEW valid \in [1 .. n -> BOOLEAN],
         ElementCounts(list, n, kind, parts, valid),
         NEW after, EstimateTurns(after, n, Add(x, 2), list, kind)
  PROVE  Counts(x, after[n], Bracketed(parts), AllValid(valid, n), FALSE)
<1>1. \A i \in 1 .. n : parts[i] \in JSON
  BY Zenon DEF ElementCounts
<1>2. after[0] = Add(x, 2)
  BY DEF EstimateTurns
<1>3. ListCounts(after, n, parts, valid, FALSE)
  <2> SUFFICES ASSUME NEW i \in 1 .. n, Sized(after[i - 1])
               PROVE  Counts(after[i - 1], after[i], Separator(i) \o parts[i], valid[i], FALSE)
    BY Zenon DEF ListCounts
  <2>1. PICK z, a, y, t, v : /\ z = after[i - 1] /\ a = EstimateComma(z, i) /\ y = after[i]
                             /\ t = parts[i] /\ v = valid[i]
    OBVIOUS
  <2>2. a = (IF i > 1 THEN Add(z, 1) ELSE z) /\ i \in Nat /\ v \in BOOLEAN
    BY <2>1 DEF EstimateComma
  <2>3. y = EstimateElement(a, list[i], kind)
    BY <2>1, Zenon DEF EstimateTurns
  <2>4. Sized(a) => Counts(a, y, t, v, FALSE)
    BY <2>1, <2>3, Zenon DEF ElementCounts
  <2>5. PICK no : no = FALSE
    BY Zenon
  <2>6. Sized(z) /\ i \in Nat /\ v \in BOOLEAN /\ a = (IF i > 1 THEN Add(z, 1) ELSE z)
    BY <2>1, <2>2
  <2>7. Sized(a) => Counts(a, y, t, v, no)
    BY <2>4, <2>5, Zenon
  <2>8. Counts(z, y, Separator(i) \o t, v, no)
    BY <2>6, <2>7, CommaCounts
  <2> QED BY <2>1, <2>5, <2>8, Zenon
<1> QED BY <1>1, <1>2, <1>3, BracketsCount, Zenon

(* The items of an order.                                                  *)
LEMMA EstimateItemsTurns ==
  ASSUME NEW b, NEW items, NEW n \in Nat, n = Len(items), items # Nil, b.err = "none"
  PROVE  \E after : /\ EstimateTurns(after, n, Add(b, 2), items, "item")
                    /\ EstimateItems(b, items) = after[n]
<1> DEFINE Solves(f) ==
             f = [i \in 0 .. Count(items) |->
                    IF i = 0 THEN Add(b, 2)
                    ELSE EstimateItem(EstimateComma(f[i - 1], i), items[i])]
<1>1. PICK z : z = Add(b, 2)
  OBVIOUS
<1>2. PICK g : EstimateTurns(g, n, z, items, "item")
  BY EstimateTurnsExist, Zenon
<1>3. Count(items) = n
  BY DEF Count
<1>4. ASSUME NEW x, NEW y PROVE EstimateElement(x, y, "item") = EstimateItem(x, y)
  BY DEF EstimateElement
<1>5. Solves(g)
  <2>1. ASSUME NEW i \in 0 .. n
        PROVE  g[i] = IF i = 0 THEN Add(b, 2)
                      ELSE EstimateItem(EstimateComma(g[i - 1], i), items[i])
    <3>1. CASE i = 0
      BY <1>1, <1>2, <3>1 DEF EstimateTurns
    <3>2. CASE i # 0
      <4>1. i \in 1 .. n
        BY <3>2
      <4> QED BY <1>2, <1>4, <3>2, <4>1, Zenon DEF EstimateTurns
    <3> QED BY <3>1, <3>2
  <2>2. g = [i \in 0 .. n |-> g[i]]
    BY <1>2 DEF EstimateTurns
  <2> QED BY <1>3, <2>1, <2>2, Zenon
<1>6. PICK f : f = CHOOSE h : Solves(h)
  OBVIOUS
<1>7. Solves(f)
  <2> HIDE DEF Solves
  <2> QED BY <1>5, <1>6
<1>8. EstimateItems(b, items) = f[n]
  BY <1>3, <1>6 DEF EstimateItems
<1>9. EstimateTurns(f, n, z, items, "item")
  <2>1. /\ f = [i \in 0 .. n |-> f[i]]
        /\ \A i \in 0 .. n :
             f[i] = IF i = 0 THEN Add(b, 2)
                    ELSE EstimateItem(EstimateComma(f[i - 1], i), items[i])
    BY <1>3, <1>7
  <2>2. f[0] = z
    BY <1>1, <2>1
  <2>3. ASSUME NEW i \in 1 .. n
        PROVE  f[i] = EstimateElement(EstimateComma(f[i - 1], i), items[i], "item")
    <3>1. i \in 0 .. n /\ i # 0
      OBVIOUS
    <3> QED BY <1>4, <2>1, <3>1
  <2> QED BY <2>1, <2>2, <2>3, Zenon DEF EstimateTurns
<1> QED BY <1>1, <1>8, <1>9

LEMMA EstimateItemsCounts ==
  ASSUME NEW b, Sized(b), NEW items, items = Nil \/ items \in Seq(Item)
  PROVE  Counts(b, EstimateItems(b, items), ReferenceItems(items), ItemsValid(items, TRUE), FALSE)
<1>1. CASE items = Nil
  <2>1. EstimateItems(b, items) = Add(b, 4) /\ ReferenceItems(items) = Chars("null")
    BY <1>1 DEF EstimateItems, ReferenceItems
  <2>2. ItemsValid(items, TRUE) = TRUE
    BY <1>1 DEF ItemsValid
  <2> QED BY <2>1, <2>2, NullCounts, Zenon
<1>2. CASE items # Nil
  <2>1. items \in Seq(Item)
    BY <1>2
  <2>2. PICK n \in Nat : n = Len(items)
    BY <2>1
  <2>3. PICK parts : parts = [i \in 1 .. n |-> ReferenceItem(items[i])]
    BY Zenon
  <2>4. PICK valid : valid = ItemsValidity(items, TRUE)
    BY Zenon
  <2>5. valid \in [1 .. n -> BOOLEAN]
    BY <2>2, <2>4, ValidityTyped, Zenon
  <2>6. ElementCounts(items, n, "item", parts, valid)
    <3> SUFFICES ASSUME NEW i \in 1 .. n
                 PROVE  /\ parts[i] \in JSON
                        /\ \A c : Sized(c) => Counts(c, EstimateElement(c, items[i], "item"),
                                                     parts[i], valid[i], FALSE)
      BY Zenon DEF ElementCounts
    <3>1. PICK item \in Item : item = items[i]
      BY <2>1, <2>2
    <3>2. parts[i] = ReferenceItem(item) /\ valid[i] = ItemValid(item, TRUE)
      BY <2>2, <2>3, <2>4, <3>1 DEF ItemsValidity
    <3>3. PICK b0 : b0 = [size |-> 0, err |-> "none"]
      BY Zenon
    <3>4. Sized(b0)
      BY <3>3, LimitsAssumption DEF Sized
    <3>5. parts[i] \in JSON
      BY <3>2, <3>4, EstimateItemCounts, Zenon
    <3>6. ASSUME NEW c, Sized(c)
          PROVE  Counts(c, EstimateElement(c, items[i], "item"), parts[i], valid[i], FALSE)
      <4>1. EstimateElement(c, items[i], "item") = EstimateItem(c, item)
        BY <3>1 DEF EstimateElement
      <4>2. Counts(c, EstimateItem(c, item), ReferenceItem(item), ItemValid(item, TRUE), FALSE)
        BY <3>6, EstimateItemCounts, Zenon
      <4> QED BY <3>2, <4>1, <4>2, Zenon
    <3> QED BY <3>5, <3>6, Zenon
  <2>7. parts = [i \in 1 .. n |-> parts[i]]
    BY <2>3
  <2>8. PICK x : x = [b EXCEPT !.err = "none"]
    BY Zenon
  <2>9. Sized(x) /\ x.err = "none"
    BY <2>8, ErrorStops, Zenon
  <2>10. ReferenceItems(items) = Bracketed(parts)
    BY <1>2, <2>2, <2>3 DEF ReferenceItems
  <2>11. ReferenceItems(items) \in JSON
    <3>1. PICK after : EstimateTurns(after, n, Add(x, 2), items, "item")
      BY EstimateTurnsExist
    <3>2. Counts(x, after[n], Bracketed(parts), AllValid(valid, n), FALSE)
      BY <2>5, <2>6, <2>7, <2>9, <3>1, TurnsCount, Zenon
    <3> QED BY <2>10, <3>2 DEF Counts
  <2>12. CASE b.err # "none"
    <3>1. EstimateItems(b, items) = b
      BY <2>12 DEF EstimateItems, Add
    <3> QED BY <2>11, <2>12, <3>1, ErrorCounts, Zenon
  <2>13. CASE b.err = "none"
    <3>1. PICK after : /\ EstimateTurns(after, n, Add(b, 2), items, "item")
                       /\ EstimateItems(b, items) = after[n]
      BY <1>2, <2>2, <2>13, EstimateItemsTurns
    <3>2. Counts(b, after[n], Bracketed(parts), AllValid(valid, n), FALSE)
      BY <2>5, <2>6, <2>7, <3>1, TurnsCount, Zenon
    <3>3. ItemsValid(items, TRUE) = AllValid(valid, n)
      <4>1. PICK v \in BOOLEAN : v = AllValid(valid, n)
        BY Zenon DEF AllValid
      <4>2. ItemsValid(items, TRUE) = (items = Nil \/ v)
        BY <2>2, <2>4, <4>1 DEF ItemsValid
      <4> QED BY <1>2, <4>1, <4>2, Zenon
    <3> QED BY <2>10, <3>1, <3>2, <3>3, Zenon
  <2> QED BY <2>12, <2>13, Zenon
<1> QED BY <1>1, <1>2, Zenon

-----------------------------------------------------------------------------
(* The estimate of an order.                                               *)
LEMMA EstimateRowStepCounts ==
  ASSUME NEW b, Sized(b), NEW order \in Order, NEW k \in 1 .. 25
  PROVE  Counts(b, EstimateRowStep(b, PackTable[k], order),
                ReferenceRowStep(PackTable[k], order),
                RowStepValid(PackTable[k], order, TRUE), FALSE)
<1>1. CASE k = 22
  <2>1. PackTable[k].kind = "items"
    BY <1>1, ItemsStepIs
  <2>2. /\ EstimateRowStep(b, PackTable[k], order) = EstimateItems(b, order.items)
        /\ ReferenceRowStep(PackTable[k], order) = ReferenceItems(order.items)
        /\ RowStepValid(PackTable[k], order, TRUE) = ItemsValid(order.items, TRUE)
    BY <2>1 DEF EstimateRowStep, ReferenceRowStep, RowStepValid
  <2>3. PICK items : items = order.items
    OBVIOUS
  <2>4. items = Nil \/ items \in Seq(Item)
    BY <2>3, OrderIs
  <2>5. Counts(b, EstimateItems(b, items), ReferenceItems(items), ItemsValid(items, TRUE), FALSE)
    BY <2>4, EstimateItemsCounts, Zenon
  <2> QED BY <2>2, <2>3, <2>5, Zenon
<1>2. CASE k # 22
  <2>1. StepReads(PackTable[k], order) /\ PackTable[k].kind # "items"
    BY <1>2, OrderStepReads
  <2>2. /\ EstimateRowStep(b, PackTable[k], order) = EstimateStep(b, PackTable[k], order)
        /\ ReferenceRowStep(PackTable[k], order) = ReferenceStep(PackTable[k], order)
        /\ RowStepValid(PackTable[k], order, TRUE) = StepValid(PackTable[k], order, TRUE)
    BY <2>1 DEF EstimateRowStep, ReferenceRowStep, RowStepValid
  <2>3. Counts(b, EstimateStep(b, PackTable[k], order), ReferenceStep(PackTable[k], order),
               StepValid(PackTable[k], order, TRUE), FALSE)
    BY <2>1, EstimateStepCounts, Zenon
  <2> QED BY <2>2, <2>3, Zenon
<1> QED BY <1>1, <1>2, Zenon

LEMMA EstimateOrderSteps ==
  ASSUME NEW b, NEW order
  PROVE  \E after :
           /\ EstimateSteps(after, 25, b, PackTable, order)
           /\ EstimateOrder(b, order) = IF b.err # "none" THEN b ELSE after[25]
<1> DEFINE Solves(f) ==
             f = [k \in 0 .. Len(EstimateTable) |->
                    IF k = 0 THEN b
                    ELSE EstimateRowStep(f[k - 1], EstimateTable[k], order)]
<1>1. PICK g : EstimateSteps(g, 25, b, PackTable, order)
  BY EstimateStepsExist
<1>2. Len(EstimateTable) = 25 /\ EstimateTable = PackTable
  BY TablesInCommon, PackTableLength
<1>3. Solves(g)
  <2>1. ASSUME NEW k \in 0 .. 25
        PROVE  g[k] = IF k = 0 THEN b
                      ELSE EstimateRowStep(g[k - 1], EstimateTable[k], order)
    <3>1. CASE k = 0
      BY <1>1, <3>1 DEF EstimateSteps
    <3>2. CASE k # 0
      <4>1. k \in 1 .. 25
        BY <3>2
      <4> QED BY <1>1, <1>2, <3>2, <4>1 DEF EstimateSteps
    <3> QED BY <3>1, <3>2
  <2>2. g = [k \in 0 .. 25 |-> g[k]]
    BY <1>1 DEF EstimateSteps
  <2> QED BY <1>2, <2>1, <2>2
<1>4. PICK f : f = CHOOSE h : Solves(h)
  OBVIOUS
<1>5. Solves(f)
  <2> HIDE DEF Solves
  <2> QED BY <1>3, <1>4
<1>6. EstimateOrder(b, order) = IF b.err # "none" THEN b ELSE f[25]
  <2>1. EstimateOrder(b, order) = IF b.err # "none" THEN b ELSE f[Len(EstimateTable)]
    BY <1>4 DEF EstimateOrder
  <2> QED BY <1>2, <2>1, Zenon
<1>7. EstimateSteps(f, 25, b, PackTable, order)
  <2>1. /\ f = [k \in 0 .. 25 |-> f[k]]
        /\ \A k \in 0 .. 25 :
             f[k] = IF k = 0 THEN b ELSE EstimateRowStep(f[k - 1], PackTable[k], order)
    BY <1>2, <1>5, Zenon
  <2>2. f[0] = b
    BY <2>1
  <2>3. ASSUME NEW k \in 1 .. 25
        PROVE  f[k] = EstimateRowStep(f[k - 1], PackTable[k], order)
    <3>1. k \in 0 .. 25 /\ k # 0
      OBVIOUS
    <3> QED BY <2>1, <3>1
  <2> QED BY <2>1, <2>2, <2>3 DEF EstimateSteps
<1> QED BY <1>6, <1>7

(* The text of an order needs no row either.                               *)
LEMMA OrderTexts ==
  ASSUME NEW order \in Order
  PROVE  /\ \A k \in 1 .. 25 : StaticTexts(order)[k] \in JSON
         /\ \A k \in 1 .. 25 : StaticTexts(order)[k] = ReferenceRowStep(PackTable[k], order)
         /\ ReferenceOrder(order) = FlattenSeq(StaticTexts(order))
<1>1. \A k \in 1 .. 25 : StaticTexts(order)[k] = ReferenceRowStep(PackTable[k], order)
  BY StaticIsPacked DEF StaticTexts
<1>2. \A k \in 1 .. 25 : StaticTexts(order)[k] \in JSON
  <2>1. PICK b : b = [size |-> 0, err |-> "none"]
    BY Zenon
  <2>2. Sized(b)
    BY <2>1, LimitsAssumption DEF Sized
  <2>3. ASSUME NEW k \in 1 .. 25
        PROVE  StaticTexts(order)[k] \in JSON
    <3>1. Counts(b, EstimateRowStep(b, PackTable[k], order),
                 ReferenceRowStep(PackTable[k], order),
                 RowStepValid(PackTable[k], order, TRUE), FALSE)
      BY <2>2, EstimateRowStepCounts, Zenon
    <3>2. ReferenceRowStep(PackTable[k], order) \in JSON
      BY <3>1 DEF Counts
    <3> QED BY <1>1, <3>2
  <2> QED BY <2>3
<1> QED BY <1>1, <1>2, OrderTextIs

LEMMA EstimateOrderCounts ==
  ASSUME NEW b, Sized(b), NEW order \in Order
  PROVE  /\ ReferenceOrder(order) \in JSON
         /\ Counts(b, EstimateOrder(b, order), ReferenceOrder(order), OrderValid(order, TRUE), FALSE)
<1>1. PICK n \in Nat : n = 25
  OBVIOUS
<1>2. PICK texts : texts = StaticTexts(order)
  OBVIOUS
<1>3. PICK after : /\ EstimateSteps(after, 25, b, PackTable, order)
                   /\ EstimateOrder(b, order) = IF b.err # "none" THEN b ELSE after[25]
  BY EstimateOrderSteps
<1>4. PICK valid : valid = OrderValidity(order, TRUE)
  BY Zenon
<1>5. ASSUME NEW k \in 1 .. n
      PROVE  /\ texts[k] = ReferenceRowStep(PackTable[k], order)
             /\ texts[k] \in JSON
             /\ valid[k] = RowStepValid(PackTable[k], order, TRUE)
             /\ after[k] = EstimateRowStep(after[k - 1], PackTable[k], order)
  <2>1. k \in 1 .. 25
    BY <1>1
  <2>2. texts[k] = ReferenceRowStep(PackTable[k], order) /\ texts[k] \in JSON
    BY <1>2, <2>1, OrderTexts
  <2>3. valid[k] = RowStepValid(PackTable[k], order, TRUE)
    BY <1>4, <2>1, Zenon DEF OrderValidity
  <2>4. after[k] = EstimateRowStep(after[k - 1], PackTable[k], order)
    BY <1>3, <2>1 DEF EstimateSteps
  <2> QED BY <2>2, <2>3, <2>4
<1>6. \A k \in 1 .. n : texts[k] \in JSON
  BY <1>5, Zenon
<1>7. CountsEach(after, n, texts, valid, FALSE)
  <2> SUFFICES ASSUME NEW k \in 1 .. n, Sized(after[k - 1])
               PROVE  Counts(after[k - 1], after[k], texts[k], valid[k], FALSE)
    BY Zenon DEF CountsEach
  <2>1. k \in 1 .. 25
    BY <1>1
  <2> QED BY <1>5, <2>1, EstimateRowStepCounts, Zenon
<1>8. after[0] = b
  BY <1>3 DEF EstimateSteps
<1>9. texts = [k \in 1 .. n |-> texts[k]]
  BY <1>1, <1>2 DEF StaticTexts
<1>10. valid \in [1 .. n -> BOOLEAN]
  BY <1>1, <1>4, ValidityTyped, Zenon
<1>11. Counts(b, after[n], FlattenSeq(texts), AllValid(valid, n), FALSE)
  BY <1>6, <1>7, <1>8, <1>9, <1>10, TableCounts, Zenon
<1>12. ReferenceOrder(order) = FlattenSeq(texts)
  BY <1>2, OrderTexts
<1>13. AllValid(valid, n) = OrderValid(order, TRUE)
  BY <1>1, <1>4 DEF OrderValid
<1>14. ReferenceOrder(order) \in JSON
  BY <1>11, <1>12 DEF Counts
<1>15. CASE b.err # "none"
  BY <1>3, <1>14, <1>15, ErrorCounts, Zenon
<1>16. CASE b.err = "none"
  BY <1>1, <1>3, <1>11, <1>12, <1>13, <1>14, <1>16, Zenon
<1> QED BY <1>15, <1>16, Zenon

-----------------------------------------------------------------------------
(* The batch.                                                              *)
OrdersValidity(b, validate) == [i \in 1 .. Len(b) |-> OrderValid(b[i], validate)]

BatchValid(b, validate) == b = Nil \/ AllValid(OrdersValidity(b, validate), Len(b))

OrderParts(b) == [i \in 1 .. Len(b) |-> ReferenceOrder(b[i])]

NothingYet == [size |-> 0, err |-> "none"]

LEMMA NothingYetSized == Sized(NothingYet) /\ NothingYet.err = "none" /\ NothingYet.size = 0
BY LimitsAssumption DEF Sized, NothingYet

(* The text in front of the orders, and the text behind them.              *)
LEMMA FrameCounts ==
  ASSUME NEW x, Sized(x), NEW big, NEW s \in {GoLiteral.batch, GoLiteral.batchEnd}
  PROVE  Counts(x, Add(x, Len(Chars(s))), Chars(s), TRUE, big)
<1>1. PICK t, n : t = Chars(s) /\ n = Len(t)
  BY Zenon
<1>2. t \in JSON
  <2>1. Chars(GoLiteral.batch) \in JSON /\ Chars(GoLiteral.batchEnd) \in JSON
    BY FrameTyped, Zenon
  <2> QED BY <1>1, <2>1
<1>3. Counts(x, Add(x, n), t, TRUE, big)
  BY <1>1, <1>2, AddCounts, Zenon
<1> QED BY <1>1, <1>3, Zenon

LEMMA ReferenceTextIs ==
  ASSUME NEW b
  PROVE  ReferenceText(b)
           = (Chars(GoLiteral.batch) \o BatchBody(b)) \o Chars(GoLiteral.batchEnd)
BY DEF ReferenceText, BatchBody

LEMMA EstimateTurnsOfBatch ==
  ASSUME NEW b, NEW n \in Nat, n = Count(b),
         NEW start, start = Add(NothingYet, Len(Chars(GoLiteral.batch))),
         NEW z, z = Add(start, IF b = Nil THEN 4 ELSE 2)
  PROVE  \E after : /\ EstimateTurns(after, n, z, b, "order")
                    /\ Estimate(b) = Add(after[n], Len(Chars(GoLiteral.batchEnd)))
<1> DEFINE Solves(f) ==
             f = [i \in 0 .. Count(b) |->
                    IF i = 0
                    THEN Add(Add([size |-> 0, err |-> "none"], Len(Chars(GoLiteral.batch))),
                             IF b = Nil THEN 4 ELSE 2)
                    ELSE EstimateOrder(EstimateComma(f[i - 1], i), b[i])]
<1>1. z = Add(Add([size |-> 0, err |-> "none"], Len(Chars(GoLiteral.batch))),
              IF b = Nil THEN 4 ELSE 2)
  BY DEF NothingYet
<1>2. PICK g : EstimateTurns(g, n, z, b, "order")
  BY EstimateTurnsExist, Zenon
<1>3. ASSUME NEW x, NEW y PROVE EstimateElement(x, y, "order") = EstimateOrder(x, y)
  BY DEF EstimateElement
<1>4. ASSUME NEW h
      PROVE  Solves(h) <=>
               h = [i \in 0 .. n |-> IF i = 0 THEN z
                                     ELSE EstimateOrder(EstimateComma(h[i - 1], i), b[i])]
  BY <1>1
<1>5. PICK f : f = CHOOSE h : Solves(h)
  OBVIOUS
<1>6. Estimate(b) = Add(f[n], Len(Chars(GoLiteral.batchEnd)))
  BY <1>5 DEF Estimate
<1> HIDE DEF Solves
<1>7. Solves(g)
  <2>1. ASSUME NEW i \in 0 .. n
        PROVE  g[i] = IF i = 0 THEN z ELSE EstimateOrder(EstimateComma(g[i - 1], i), b[i])
    <3>1. CASE i = 0
      BY <1>2, <3>1 DEF EstimateTurns
    <3>2. CASE i # 0
      <4>1. i \in 1 .. n
        BY <3>2
      <4> QED BY <1>2, <1>3, <3>2, <4>1, Zenon DEF EstimateTurns
    <3> QED BY <3>1, <3>2
  <2>2. g = [i \in 0 .. n |-> g[i]]
    BY <1>2 DEF EstimateTurns
  <2>3. g = [i \in 0 .. n |-> IF i = 0 THEN z
                              ELSE EstimateOrder(EstimateComma(g[i - 1], i), b[i])]
    BY <2>1, <2>2, Zenon
  <2> QED BY <1>4, <2>3, Zenon
<1>8. Solves(f)
  BY <1>5, <1>7
<1>9. EstimateTurns(f, n, z, b, "order")
  <2>1. f = [i \in 0 .. n |-> IF i = 0 THEN z
                              ELSE EstimateOrder(EstimateComma(f[i - 1], i), b[i])]
    BY <1>4, <1>8
  <2>2. /\ f = [i \in 0 .. n |-> f[i]]
        /\ \A i \in 0 .. n :
             f[i] = IF i = 0 THEN z ELSE EstimateOrder(EstimateComma(f[i - 1], i), b[i])
    BY <2>1, Zenon
  <2>3. f[0] = z
    <3>1. 0 \in 0 .. n
      OBVIOUS
    <3> QED BY <2>2, <3>1, Zenon
  <2>4. ASSUME NEW i \in 1 .. n
        PROVE  f[i] = EstimateElement(EstimateComma(f[i - 1], i), b[i], "order")
    <3>1. i \in 0 .. n /\ i # 0
      OBVIOUS
    <3> QED BY <1>3, <2>2, <3>1
  <2> QED BY <2>2, <2>3, <2>4, Zenon DEF EstimateTurns
<1> QED BY <1>6, <1>9

LEMMA OrderPartsTyped ==
  ASSUME NEW b \in Batch, b # Nil, NEW n \in Nat, n = Len(b),
         NEW parts, parts = OrderParts(b)
  PROVE  /\ parts = [i \in 1 .. n |-> parts[i]]
         /\ \A i \in 1 .. n : b[i] \in Order /\ parts[i] = ReferenceOrder(b[i])
         /\ \A i \in 1 .. n : parts[i] \in JSON
         /\ BatchBody(b) = Bracketed(parts)
<1>1. parts = [i \in 1 .. n |-> ReferenceOrder(b[i])]
  BY DEF OrderParts
<1>2. BatchBody(b) = Bracketed(parts)
  BY <1>1 DEF BatchBody
<1>3. b \in Seq(Order)
  BY DEF Batch
<1>4. ASSUME NEW i \in 1 .. n
      PROVE  b[i] \in Order /\ parts[i] = ReferenceOrder(b[i]) /\ parts[i] \in JSON
  <2>1. b[i] \in Order /\ parts[i] = ReferenceOrder(b[i])
    BY <1>1, <1>3
  <2>2. ReferenceOrder(b[i]) \in JSON
    BY <2>1, NothingYetSized, EstimateOrderCounts, Zenon
  <2> QED BY <2>1, <2>2
<1> QED BY <1>1, <1>2, <1>4

(* The estimate of a batch adds up the length of its text.                 *)
LEMMA EstimateCounts ==
  ASSUME NEW b \in Batch
  PROVE  Counts(NothingYet, Estimate(b), ReferenceText(b), BatchValid(b, TRUE), FALSE)
<1>1. PICK n \in Nat : n = Count(b)
  BY CountIs
<1>2. PICK start, z : /\ start = Add(NothingYet, Len(Chars(GoLiteral.batch)))
                      /\ z = Add(start, IF b = Nil THEN 4 ELSE 2)
  OBVIOUS
<1>3. PICK after : /\ EstimateTurns(after, n, z, b, "order")
                   /\ Estimate(b) = Add(after[n], Len(Chars(GoLiteral.batchEnd)))
  BY <1>1, <1>2, EstimateTurnsOfBatch
<1>4. PICK no : no = FALSE
  BY Zenon
<1>5. Counts(NothingYet, start, Chars(GoLiteral.batch), TRUE, no)
  BY <1>2, NothingYetSized, FrameCounts, Zenon
<1>6. Sized(start)
  BY <1>5 DEF Counts
<1>7. PICK v \in BOOLEAN : v = BatchValid(b, TRUE)
  BY Zenon DEF BatchValid, AllValid
<1>8. Counts(start, after[n], BatchBody(b), v, no)
  <2>1. CASE b = Nil
    <3>1. z = Add(start, 4)
      BY <1>2, <2>1
    <3>2. n = 0 /\ after[0] = z
      BY <1>1, <1>3, <2>1 DEF Count, EstimateTurns
    <3>3. BatchBody(b) = Chars("null") /\ v = TRUE
      BY <1>7, <2>1, Zenon DEF BatchBody, BatchValid
    <3> QED BY <1>6, <3>1, <3>2, <3>3, NullCounts, Zenon
  <2>2. CASE b # Nil
    <3>1. n = Len(b)
      BY <1>1, <2>2 DEF Count
    <3>2. z = Add(start, 2)
      BY <1>2, <2>2
    <3>3. PICK parts, valid : parts = OrderParts(b) /\ valid = OrdersValidity(b, TRUE)
      BY Zenon
    <3>4. /\ parts = [i \in 1 .. n |-> parts[i]]
          /\ \A i \in 1 .. n : b[i] \in Order /\ parts[i] = ReferenceOrder(b[i])
          /\ \A i \in 1 .. n : parts[i] \in JSON
          /\ BatchBody(b) = Bracketed(parts)
      BY <2>2, <3>1, <3>3, OrderPartsTyped
    <3>5. valid \in [1 .. n -> BOOLEAN] /\ \A i \in 1 .. n : valid[i] = OrderValid(b[i], TRUE)
      <4>1. valid = [i \in 1 .. n |-> OrderValid(b[i], TRUE)]
        BY <3>1, <3>3 DEF OrdersValidity
      <4>2. \A i \in 1 .. n : OrderValid(b[i], TRUE) \in BOOLEAN
        BY ValidityTyped, Zenon
      <4> QED BY <4>1, <4>2, Zenon
    <3>6. ElementCounts(b, n, "order", parts, valid)
      <4> SUFFICES ASSUME NEW i \in 1 .. n
                   PROVE  /\ parts[i] \in JSON
                          /\ \A c : Sized(c) => Counts(c, EstimateElement(c, b[i], "order"),
                                                       parts[i], valid[i], FALSE)
        BY Zenon DEF ElementCounts
      <4>1. ASSUME NEW c, Sized(c)
            PROVE  Counts(c, EstimateElement(c, b[i], "order"), parts[i], valid[i], FALSE)
        <5>1. EstimateElement(c, b[i], "order") = EstimateOrder(c, b[i])
          BY DEF EstimateElement
        <5>2. b[i] \in Order
          BY <3>4
        <5>3. Counts(c, EstimateOrder(c, b[i]), ReferenceOrder(b[i]), OrderValid(b[i], TRUE), FALSE)
          BY <4>1, <5>2, EstimateOrderCounts, Zenon
        <5> QED BY <3>4, <3>5, <5>1, <5>3, Zenon
      <4> QED BY <3>4, <4>1, Zenon
    <3>7. Counts(start, after[n], Bracketed(parts), AllValid(valid, n), FALSE)
      <4>1. EstimateTurns(after, n, Add(start, 2), b, "order")
        BY <1>3, <3>2
      <4> QED BY <1>6, <3>4, <3>5, <3>6, <4>1, TurnsCount, Zenon
    <3>8. v = AllValid(valid, n)
      <4>1. PICK u \in BOOLEAN : u = AllValid(valid, n)
        BY Zenon DEF AllValid
      <4>2. BatchValid(b, TRUE) = (b = Nil \/ u)
        BY <3>1, <3>3, <4>1 DEF BatchValid
      <4> QED BY <1>7, <2>2, <4>1, <4>2, Zenon
    <3> QED BY <1>4, <3>4, <3>7, <3>8, Zenon
  <2> QED BY <2>1, <2>2
<1>9. PICK s, t, u : s = Chars(GoLiteral.batch) /\ t = BatchBody(b) /\ u = Chars(GoLiteral.batchEnd)
  OBVIOUS
<1>10. PICK x : x = after[n]
  OBVIOUS
<1>11. Counts(NothingYet, x, s \o t, v, no)
  <2>1. Counts(NothingYet, start, s, TRUE, no) /\ Counts(start, x, t, v, no)
    BY <1>5, <1>8, <1>9, <1>10, Zenon
  <2>2. Counts(NothingYet, x, s \o t, TRUE /\ v, no)
    BY <2>1, CountsOn, Zenon
  <2>3. (TRUE /\ v) = v
    OBVIOUS
  <2> QED BY <2>2, <2>3
<1>12. Counts(x, Estimate(b), u, TRUE, no)
  <2>1. Sized(x)
    BY <1>11 DEF Counts
  <2> QED BY <1>3, <1>9, <1>10, <2>1, FrameCounts, Zenon
<1>13. Counts(NothingYet, Estimate(b), (s \o t) \o u, v, no)
  <2>1. PICK y, st : y = Estimate(b) /\ st = s \o t
    BY Zenon
  <2>2. Counts(NothingYet, x, st, v, no) /\ Counts(x, y, u, TRUE, no)
    BY <1>11, <1>12, <2>1, Zenon
  <2>3. Counts(NothingYet, y, st \o u, v /\ TRUE, no)
    BY <2>2, CountsOn, Zenon
  <2>4. (v /\ TRUE) = v
    OBVIOUS
  <2> QED BY <2>1, <2>3, <2>4
<1>14. ReferenceText(b) = (s \o t) \o u
  BY <1>9, ReferenceTextIs, Zenon
<1> QED BY <1>4, <1>7, <1>13, <1>14, Zenon

(* Hence the text of every batch is a text.                                *)
LEMMA ReferenceTextTyped ==
  ASSUME NEW b \in Batch
  PROVE  ReferenceText(b) \in JSON /\ Len(ReferenceText(b)) \in Nat
<1>1. ReferenceText(b) \in JSON
  BY EstimateCounts, Zenon DEF Counts
<1> QED BY <1>1, TextsJoin

(* A batch with valid strings and a text that is not too long is estimated *)
(* exactly.                                                                *)
LEMMA EstimateIs ==
  ASSUME NEW b \in Batch
  PROVE  /\ BatchValid(b, TRUE) /\ Len(ReferenceText(b)) <= MaxInt =>
              Estimate(b) = [size |-> Len(ReferenceText(b)), err |-> "none"]
         /\ Estimate(b).err = "none" =>
              BatchValid(b, TRUE) /\ Len(ReferenceText(b)) <= MaxInt
         /\ Estimate(b).err = "ErrInvalidUTF8" => ~BatchValid(b, TRUE)
         /\ Estimate(b).err = "ErrOutputTooLarge" => MaxInt < Len(ReferenceText(b))
         /\ Estimate(b).err \in {"none", "ErrInvalidUTF8", "ErrOutputTooLarge"}
<1>1. PICK x, n, v : x = Estimate(b) /\ n = Len(ReferenceText(b)) /\ v = BatchValid(b, TRUE)
  BY Zenon
<1>2. n \in Nat
  BY <1>1, ReferenceTextTyped
<1>3. v \in BOOLEAN
  BY <1>1 DEF BatchValid, AllValid
<1>4. Counts(NothingYet, x, ReferenceText(b), v, FALSE)
  BY <1>1, EstimateCounts, Zenon
<1>5. /\ Sized(x) /\ DOMAIN x = DOMAIN NothingYet
      /\ Counted(NothingYet, x, ReferenceText(b), v, FALSE)
  BY <1>4, NothingYetSized, Zenon DEF Counts
<1>6. \/ x.err = "none" /\ v /\ x.size = 0 + n
      \/ x.err = "ErrOutputTooLarge" /\ MaxInt < 0 + n
      \/ x.err = "ErrInvalidUTF8" /\ ~v
  BY <1>1, <1>5, NothingYetSized, Zenon DEF Counted
<1>7. MaxInt \in Nat /\ 0 + n = n
  BY <1>2, LimitsAssumption
<1>8. x.err = "none" => v /\ n <= MaxInt
  <2>1. x.size <= MaxInt
    BY <1>5 DEF Sized
  <2> QED BY <1>6, <1>7, <2>1
<1>9. v /\ n <= MaxInt => x.err = "none" /\ x.size = n
  <2>1. PICK m \in Nat : m = MaxInt
    BY <1>7
  <2>2. n <= m => ~(m < n)
    BY <1>2
  <2>3. x.err = "none" => x.size = n
    BY <1>6, <1>7
  <2>4. v => x.err = "none" \/ MaxInt < n
    BY <1>6, <1>7
  <2> QED BY <2>1, <2>2, <2>3, <2>4
<1>10. x.err = "none" /\ x.size = n => x = [size |-> n, err |-> "none"]
  <2>1. DOMAIN NothingYet = {"size", "err"}
    BY DEF NothingYet
  <2>2. x = [f \in {"size", "err"} |-> x[f]]
    BY <1>5, <2>1 DEF Sized
  <2> QED BY <2>2
<1> QED BY <1>1, <1>6, <1>7, <1>8, <1>9, <1>10, Zenon

-----------------------------------------------------------------------------
(* The sizes that packing adds up.  What counts of its state; the row, the *)
(* items and the capacities are of no account.                             *)
BuilderFields ==
  {"row", "items", "itemCap", "strings", "stringCap", "plain", "size", "err"}

Made(b, s, p, z, e) ==
  /\ b = [field \in BuilderFields |-> b[field]]
  /\ b.strings = s
  /\ b.plain = p
  /\ b.size = z
  /\ b.err = e

LEMMA MadeOf ==
  ASSUME NEW b, NEW r, NEW i, NEW ic, NEW s, NEW sc, NEW p, NEW z, NEW e,
         b = [row |-> r, items |-> i, itemCap |-> ic, strings |-> s,
              stringCap |-> sc, plain |-> p, size |-> z, err |-> e]
  PROVE  Made(b, s, p, z, e)
BY DEF Made, BuilderFields

LEMMA BuilderMade ==
  ASSUME NEW R, NEW b, Builder(b, R)
  PROVE  Made(b, b.strings, b.plain, b.size, b.err)
<1>1. PICK r, i, ic, s, sc, p, z, e :
        b = [row |-> r, items |-> i, itemCap |-> ic, strings |-> s,
             stringCap |-> sc, plain |-> p, size |-> z, err |-> e]
  BY DEF Builder
<1>2. b.strings = s /\ b.plain = p /\ b.size = z /\ b.err = e
  BY <1>1
<1> QED BY <1>1, <1>2, MadeOf

LEMMA MadeSized ==
  ASSUME NEW b, NEW s, NEW p, NEW z \in Nat, z <= MaxInt, NEW e, Made(b, s, p, z, e)
  PROVE  Sized(b) /\ DOMAIN b = BuilderFields
<1>1. DOMAIN b = BuilderFields
  BY DEF Made
<1>2. {"size", "err"} \subseteq BuilderFields
  BY DEF BuilderFields
<1>3. b = [field \in DOMAIN b |-> b[field]]
  BY <1>1 DEF Made
<1>4. b.size \in Nat /\ b.size <= MaxInt
  BY DEF Made
<1> QED BY <1>1, <1>2, <1>3, <1>4 DEF Sized

LEMMA MadeTidy ==
  ASSUME NEW b, NEW s, NEW p, NEW z, NEW e, Made(b, s, p, z, e)
  PROVE  Tidy(b) <=> /\ Len(s) <= MaxUint32
                     /\ p => \A i \in 1 .. Len(s) : ~NeedsEscape(s[i])
<1>1. DOMAIN b = BuilderFields
  BY DEF Made
<1>2. {"strings", "plain"} \subseteq DOMAIN b
  BY <1>1 DEF BuilderFields
<1>3. b.strings = s /\ b.plain = p
  BY DEF Made
<1> QED BY <1>2, <1>3 DEF Tidy

(* Where only the row, the items or a capacity differ, nothing counts.     *)
Alike(b, c) == \E s, p, z, e : Made(b, s, p, z, e) /\ Made(c, s, p, z, e)

LEMMA AlikeIs ==
  ASSUME NEW b, NEW c, Alike(b, c), Sized(b)
  PROVE  /\ Sized(c) /\ DOMAIN c = DOMAIN b /\ c.err = b.err /\ c.size = b.size
         /\ Tidy(b) <=> Tidy(c)
<1>1. PICK s, p, z, e : Made(b, s, p, z, e) /\ Made(c, s, p, z, e)
  BY DEF Alike
<1>2. /\ DOMAIN b = BuilderFields /\ DOMAIN c = BuilderFields
      /\ b.err = e /\ c.err = e /\ b.size = z /\ c.size = z
  BY <1>1 DEF Made
<1>3. z \in Nat /\ z <= MaxInt
  BY <1>2 DEF Sized
<1>4. Sized(c)
  BY <1>1, <1>3, MadeSized
<1>5. Tidy(b) <=> Tidy(c)
  BY <1>1, MadeTidy
<1> QED BY <1>2, <1>4, <1>5

LEMMA AlikeBehind ==
  ASSUME NEW b, NEW c, NEW d, NEW t, NEW v, NEW big,
         Counts(b, c, t, v, big), Alike(c, d)
  PROVE  Counts(b, d, t, v, big)
<1>1. Sized(c)
  BY DEF Counts
<1>2. /\ Sized(d) /\ DOMAIN d = DOMAIN c /\ d.err = c.err /\ d.size = c.size
      /\ Tidy(c) <=> Tidy(d)
  BY <1>1, AlikeIs
<1>3. Counted(b, c, t, v, big) => Counted(b, d, t, v, big)
  BY <1>2 DEF Counted
<1> QED BY <1>2, <1>3 DEF Counts

LEMMA AlikeInFront ==
  ASSUME NEW b, Sized(b), NEW c, NEW d, NEW t, NEW v, NEW big,
         Alike(b, c), Counts(c, d, t, v, big)
  PROVE  Counts(b, d, t, v, big)
<1>1. /\ Sized(c) /\ DOMAIN c = DOMAIN b /\ c.err = b.err /\ c.size = b.size
      /\ Tidy(b) <=> Tidy(c)
  BY AlikeIs
<1>2. Counted(c, d, t, v, big) => Counted(b, d, t, v, big)
  BY <1>1 DEF Counted
<1> QED BY <1>1, <1>2 DEF Counts

LEMMA AlikeRow ==
  ASSUME NEW R, NEW b, Builder(b, R), NEW row, NEW c, c = [b EXCEPT !.row = row]
  PROVE  Alike(b, c)
<1>1. PICK r, i, ic, s, sc, p, z, e :
        b = [row |-> r, items |-> i, itemCap |-> ic, strings |-> s,
             stringCap |-> sc, plain |-> p, size |-> z, err |-> e]
  BY DEF Builder
<1>2. c = [row |-> row, items |-> i, itemCap |-> ic, strings |-> s,
           stringCap |-> sc, plain |-> p, size |-> z, err |-> e]
  BY <1>1
<1>3. Made(b, s, p, z, e) /\ Made(c, s, p, z, e)
  BY <1>1, <1>2, MadeOf
<1> QED BY <1>3 DEF Alike
-----------------------------------------------------------------------------
(* Plain bytes behind plain bytes.                                         *)
LEMMA PlainJoins ==
  ASSUME NEW s \in Seq(Bytes), NEW value \in Seq(Bytes), Plain(value),
         \A i \in 1 .. Len(s) : ~NeedsEscape(s[i]),
         NEW t, t = s \o value, NEW i \in 1 .. Len(t)
  PROVE  ~NeedsEscape(t[i])
<1>1. PICK m \in Nat, n \in Nat : m = Len(s) /\ n = Len(value)
  OBVIOUS
<1>2. Len(t) = m + n
  BY <1>1
<1>3. CASE i <= m
  <2>1. t[i] = s[i] /\ i \in 1 .. Len(s)
    BY <1>1, <1>2, <1>3
  <2> QED BY <2>1
<1>4. CASE ~(i <= m)
  <2>1. PICK j \in 1 .. n : i = m + j
    <3>1. i - m \in 1 .. n /\ i = m + (i - m)
      BY <1>1, <1>2, <1>4
    <3> QED BY <3>1
  <2>2. t[i] = value[j] /\ j \in 1 .. Len(value)
    BY <1>1, <2>1
  <2> QED BY <2>2 DEF Plain
<1> QED BY <1>3, <1>4

(* A string packed counts its text, and is refused for a reason.           *)
LEMMA PackStringCounts ==
  ASSUME NEW R, NEW b, Builder(b, R), Sized(b), NEW field, NEW value \in Seq(Bytes),
         NEW validate, NEW c, c = PackString(b, field, value, validate)
  PROVE  Counts(b, c, JSONString(value), StringValid(value, validate), TRUE)
<1>1. PICK r, i, ic, s, sc, p, z, e :
        b = [row |-> r, items |-> i, itemCap |-> ic, strings |-> s,
             stringCap |-> sc, plain |-> p, size |-> z, err |-> e]
  BY DEF Builder
<1>2. /\ b.row = r /\ b.items = i /\ b.itemCap = ic /\ b.strings = s
      /\ b.stringCap = sc /\ b.plain = p /\ b.size = z /\ b.err = e
  BY <1>1
<1>3. /\ s \in Seq(Bytes) /\ Len(s) \in Nat /\ Len(value) \in Nat
      /\ z \in Nat /\ z <= MaxInt
  BY <1>2 DEF Builder, Sized
<1>4. PICK err : err = StringError(b, value, validate)
  OBVIOUS
<1>5. PICK t, n : t = JSONString(value) /\ n = EncodedSize(value)
  OBVIOUS
<1>6. t \in JSON /\ n = Len(t) /\ n \in Nat
  BY <1>5, EncodedSizeIs, NoText, TextsJoin
<1>7. Made(b, s, p, z, e)
  BY <1>1, MadeOf
<1>8. DOMAIN b = BuilderFields
  BY <1>3, <1>7, MadeSized
<1>9. MaxInt \in Nat /\ MaxUint32 \in Nat
  BY LimitsAssumption
<1>10. CASE e # "none"
  <2>1. c = b
    BY <1>2, <1>10 DEF PackString
  <2> QED BY <1>2, <1>5, <1>6, <1>10, <2>1, ErrorCounts, Zenon
<1>11. CASE e = "none" /\ err # "none"
  <2>1. PICK q : q = [r EXCEPT ![field] = NoRef]
    BY Zenon
  <2>2. c = [b EXCEPT !.err = err, !.row[field] = NoRef]
    BY <1>2, <1>4, <1>11 DEF PackString
  <2>3. c = [row |-> q, items |-> i, itemCap |-> ic, strings |-> s,
             stringCap |-> sc, plain |-> p, size |-> z, err |-> err]
    BY <1>1, <2>1, <2>2, Zenon
  <2>4. Made(c, s, p, z, err)
    BY <2>3, MadeOf
  <2>5. Sized(c) /\ DOMAIN c = BuilderFields /\ c.err = err
    BY <1>3, <2>3, <2>4, MadeSized
  <2>6. Tidy(b) <=> Tidy(c)
    BY <1>7, <2>4, MadeTidy
  <2>7. \/ err = "ErrPackedTooLarge"
        \/ err = "ErrInvalidUTF8" /\ ~StringValid(value, validate)
        \/ err = "ErrOutputTooLarge" /\ n > MaxInt - z
    BY <1>2, <1>4, <1>5, <1>11 DEF StringError, StringValid
  <2>8. n > MaxInt - z => MaxInt < z + n
    BY <1>3, <1>6, <1>9
  <2>9. Counted(b, c, t, StringValid(value, validate), TRUE)
    BY <1>2, <1>6, <2>5, <2>7, <2>8 DEF Counted
  <2>10. DOMAIN c = DOMAIN b
    BY <1>8, <2>5
  <2> QED BY <1>2, <1>5, <1>6, <1>11, <2>5, <2>6, <2>9, <2>10, Zenon DEF Counts
<1>12. CASE e = "none" /\ err = "none"
  <2>1. PICK u : u = s \o value /\ u \in Seq(Bytes)
    BY <1>3, GrowsWith, Zenon
  <2>2. PICK cap, plain, sum, ref, q :
          /\ cap = Grown(sc, Len(s) + Len(value))
          /\ plain = (p /\ Plain(value))
          /\ sum = z + n
          /\ ref = Ref(Uint32(Len(s)), Uint32(Len(value)))
          /\ q = [r EXCEPT ![field] = ref]
    BY Zenon
  <2>3. c = [b EXCEPT
              !.row[field] = ref,
              !.strings    = @ \o value,
              !.stringCap  = Grown(@, Len(s) + Len(value)),
              !.plain      = @ /\ Plain(value),
              !.size       = @ + n]
    BY <1>2, <1>4, <1>5, <1>12, <2>2 DEF PackString
  <2>4. c = [row |-> q, items |-> i, itemCap |-> ic, strings |-> u,
             stringCap |-> cap, plain |-> plain, size |-> sum, err |-> e]
    BY <1>1, <1>2, <2>1, <2>2, <2>3, ZenonT(40)
  <2>5. Made(c, u, plain, sum, e)
    BY <2>4, MadeOf
  <2>6. /\ ~(Len(s) > MaxUint32) /\ ~(Len(value) > MaxUint32 - Len(s))
        /\ StringValid(value, validate)
        /\ ~(n > MaxInt - z)
    BY <1>2, <1>4, <1>5, <1>12 DEF StringError, StringValid
  <2>7. sum \in Nat /\ sum <= MaxInt
    BY <1>3, <1>6, <1>9, <2>2, <2>6
  <2>8. Sized(c) /\ DOMAIN c = BuilderFields /\ c.err = e /\ c.size = sum
    BY <2>4, <2>5, <2>7, MadeSized
  <2>9. Len(u) <= MaxUint32
    <3>1. Len(u) = Len(s) + Len(value)
      BY <1>3, <2>1
    <3> QED BY <1>3, <1>9, <2>6, <3>1
  <2>10. Tidy(b) => Tidy(c)
    <3> SUFFICES ASSUME Tidy(b), plain
                 PROVE  \A j \in 1 .. Len(u) : ~NeedsEscape(u[j])
      BY <2>5, <2>9, MadeTidy
    <3>1. p => \A j \in 1 .. Len(s) : ~NeedsEscape(s[j])
      BY <1>7, MadeTidy, Zenon
    <3>2. p /\ Plain(value)
      BY <2>2, Zenon
    <3> QED BY <1>3, <2>1, <3>1, <3>2, PlainJoins, Zenon
  <2>11. Counted(b, c, t, StringValid(value, validate), TRUE)
    BY <1>2, <1>6, <1>12, <2>2, <2>6, <2>8 DEF Counted
  <2>12. DOMAIN c = DOMAIN b
    BY <1>8, <2>8
  <2> QED BY <1>2, <1>5, <1>6, <1>12, <2>8, <2>10, <2>11, <2>12, Zenon DEF Counts
<1> QED BY <1>10, <1>11, <1>12, Zenon

LEMMA PackTrackingCounts ==
  ASSUME NEW R, NEW b, Builder(b, R), Sized(b), NEW value,
         value = Nil \/ value \in Seq(Bytes),
         NEW validate, NEW c, c = PackTracking(b, value, validate),
         \A row \in R : [row EXCEPT !.hasTrackingNo = 1] \in R
  PROVE  Counts(b, c, IF value = Nil THEN Chars("null") ELSE JSONString(value),
                value # Nil => StringValid(value, validate), TRUE)
<1>1. CASE value = Nil
  <2>1. c = Add(b, 4)
    BY <1>1 DEF PackTracking, Add
  <2>2. PICK v : v = (value # Nil => StringValid(value, validate)) /\ v = TRUE
    BY <1>1, Zenon
  <2> QED BY <1>1, <2>1, <2>2, NullCounts, Zenon
<1>2. CASE value # Nil /\ b.err # "none"
  <2>1. c = b
    BY <1>2 DEF PackTracking
  <2>2. JSONString(value) \in JSON
    BY <1>2, EncodedSizeIs
  <2> QED BY <1>2, <2>1, <2>2, ErrorCounts, Zenon
<1>3. CASE value # Nil /\ b.err = "none"
  <2>1. PICK q : q = [b.row EXCEPT !.hasTrackingNo = 1] /\ q \in R
    BY Zenon DEF Builder
  <2>2. PICK d : d = [b EXCEPT !.row = q]
    BY Zenon
  <2>3. c = PackString(d, "trackingNo", value, validate)
    BY <1>3, <2>1, <2>2 DEF PackTracking
  <2>4. Builder(d, R)
    BY <2>1, <2>2, NewRow
  <2>5. Alike(b, d)
    BY <2>2, AlikeRow
  <2>6. Sized(d)
    BY <2>5, AlikeIs
  <2>7. Counts(d, c, JSONString(value), StringValid(value, validate), TRUE)
    BY <1>3, <2>3, <2>4, <2>6, PackStringCounts, Zenon
  <2>8. (value # Nil => StringValid(value, validate)) = StringValid(value, validate)
    BY <1>3, ValidTyped, Zenon
  <2> QED BY <1>3, <2>5, <2>7, <2>8, AlikeInFront, Zenon
<1> QED BY <1>1, <1>2, <1>3, Zenon

-----------------------------------------------------------------------------
(* Induction up to a number.                                               *)
LEMMA UpTo ==
  ASSUME NEW n \in Nat, NEW T, 0 \in T, \A k \in 1 .. n : k - 1 \in T => k \in T
  PROVE  \A k \in 0 .. n : k \in T
<1> DEFINE S == {k \in Nat : k <= n => k \in T}
<1>1. 0 \in S
  OBVIOUS
<1>2. ASSUME NEW k \in Nat, k \in S PROVE k + 1 \in S
  <2> SUFFICES ASSUME k + 1 <= n PROVE k + 1 \in T
    OBVIOUS
  <2>1. k + 1 \in 1 .. n /\ (k + 1) - 1 = k /\ k <= n
    OBVIOUS
  <2> QED BY <1>2, <2>1
<1>3. Nat \subseteq S
  <2> HIDE DEF S
  <2> QED BY <1>1, <1>2, Induction
<1> QED BY <1>3

(* A step that packs a string, a number, a flag or a literal.              *)
LEMMA PackStepCounts ==
  ASSUME NEW R, NEW b, Builder(b, R), Sized(b), NEW step, NEW from,
         StepReads(step, from),
         step.kind = "nullable" => \A row \in R : [row EXCEPT !.hasTrackingNo = 1] \in R,
         NEW validate
  PROVE  Counts(b, PackStep(b, step, from, validate), ReferenceStep(step, from),
                StepValid(step, from, validate), TRUE)
<1>1. CASE Plainly(step)
  BY <1>1, PlainStepCounts, Zenon
<1>2. CASE step.kind = "string"
  <2>1. /\ PackStep(b, step, from, validate)
             = PackString(b, step.arg, from[step.arg], validate)
        /\ ReferenceStep(step, from) = JSONString(from[step.arg])
    BY <1>2 DEF PackStep, ReferenceStep
  <2>2. from[step.arg] \in Seq(Bytes)
    BY <1>2 DEF StepReads
  <2>3. StepValid(step, from, validate) = StringValid(from[step.arg], validate)
    BY <1>2, ValidTyped, Zenon
  <2> QED BY <2>1, <2>2, <2>3, PackStringCounts, Zenon
<1>3. CASE step.kind = "nullable"
  <2>1. PICK value : value = from[step.arg]
    OBVIOUS
  <2>2. /\ PackStep(b, step, from, validate) = PackTracking(b, value, validate)
        /\ ReferenceStep(step, from)
             = IF value = Nil THEN Chars("null") ELSE JSONString(value)
    BY <1>3, <2>1 DEF PackStep, ReferenceStep
  <2>3. value = Nil \/ value \in Seq(Bytes)
    BY <1>3, <2>1 DEF StepReads
  <2>4. (value # Nil => StringValid(value, validate)) = StepValid(step, from, validate)
    <3>1. PICK v \in BOOLEAN, u \in BOOLEAN :
            v = StringValid(value, validate) /\ u = StepValid(step, from, validate)
      BY ValidTyped, Zenon
    <3>2. CASE value = Nil
      <4>1. u = TRUE
        BY <1>3, <2>1, <3>1, <3>2, ValidTyped, Zenon
      <4> QED BY <3>1, <3>2, <4>1, Zenon
    <3>3. CASE value # Nil
      <4>1. u = v
        BY <1>3, <2>1, <3>1, <3>3, ValidTyped, Zenon
      <4> QED BY <3>1, <3>3, <4>1
    <3> QED BY <3>2, <3>3
  <2>5. \A row \in R : [row EXCEPT !.hasTrackingNo = 1] \in R
    BY <1>3, Zenon
  <2>6. Counts(b, PackTracking(b, value, validate),
               IF value = Nil THEN Chars("null") ELSE JSONString(value),
               value # Nil => StringValid(value, validate), TRUE)
    BY <2>3, <2>5, PackTrackingCounts, Zenon
  <2> QED BY <2>2, <2>4, <2>6, Zenon
<1> QED BY <1>1, <1>2, <1>3, Zenon DEF StepReads, Plainly
-----------------------------------------------------------------------------
(* Items.                                                                  *)
LEMMA ItemAddedAlike ==
  ASSUME NEW R, NEW b, NEW d, Builder(d, R), NEW item, NEW c, c = ItemAdded(b, d, item)
  PROVE  Alike(d, c)
<1>1. CASE d.err # "none"
  <2>1. PICK row : row = b.row
    OBVIOUS
  <2>2. c = [d EXCEPT !.row = row]
    BY <1>1, <2>1 DEF ItemAdded
  <2> QED BY <2>2, AlikeRow
<1>2. CASE d.err = "none"
  <2>1. PICK r, i, ic, s, sc, p, z, e :
          d = [row |-> r, items |-> i, itemCap |-> ic, strings |-> s,
               stringCap |-> sc, plain |-> p, size |-> z, err |-> e]
    BY DEF Builder
  <2>2. d.row = r /\ d.items = i /\ d.itemCap = ic
    BY <2>1
  <2>3. PICK row, q, n : row = b.row /\ q = ItemWithNumbers(r, item) /\ n = Len(b.items) + 1
    OBVIOUS
  <2>4. c = [d EXCEPT !.row     = row,
                      !.items   = Append(@, q),
                      !.itemCap = Grown(@, n)]
    BY <1>2, <2>2, <2>3 DEF ItemAdded
  <2>5. PICK t, cap : t = Append(i, q) /\ cap = Grown(ic, n)
    BY Zenon
  <2>6. c = [row |-> row, items |-> t, itemCap |-> cap, strings |-> s,
             stringCap |-> sc, plain |-> p, size |-> z, err |-> e]
    BY <2>1, <2>2, <2>4, <2>5, Zenon
  <2>7. Made(d, s, p, z, e) /\ Made(c, s, p, z, e)
    BY <2>1, <2>6, MadeOf
  <2> QED BY <2>7 DEF Alike
<1> QED BY <1>1, <1>2

(* The steps of an item keep the types of the state.                       *)
LEMMA ItemBuilders ==
  ASSUME NEW start, Builder(start, ItemRow), NEW item \in Item, NEW validate,
         NEW after, PackSteps(after, 9, start, PackItemTable, item, validate),
         NEW k \in 1 .. 9
  PROVE  /\ Builder(after[k - 1], ItemRow)
         /\ after[k] = PackStep(after[k - 1], PackItemTable[k], item, validate)
<1>1. ASSUME NEW j \in 1 .. 9
      PROVE  /\ after[j] = PackStep(after[j - 1], PackItemTable[j], item, validate)
             /\ Builder(after[j - 1], ItemRow) => Builder(after[j], ItemRow)
  <2>1. PICK step : step = PackItemTable[j]
    OBVIOUS
  <2>2. /\ step.kind \in {"literal", "string", "int"}
        /\ step.kind = "string" => j = 2 \/ j = 4
        /\ j = 2 => step = Str("sku")
        /\ j = 4 => step = Str("title")
    BY <2>1, PackItemTableIs
  <2>3. step.kind = "string" => step.arg \in ItemRefs /\ item[step.arg] \in Seq(Bytes)
    BY <2>2, ItemIs DEF ItemRefs, Str
  <2>4. after[j] = PackRowStep(after[j - 1], step, item, validate)
    BY <2>1 DEF PackSteps
  <2>5. after[j] = PackStep(after[j - 1], step, item, validate)
    BY <2>2, <2>4 DEF PackRowStep
  <2>6. ASSUME Builder(after[j - 1], ItemRow) PROVE Builder(after[j], ItemRow)
    <3>1. Fills(after[j - 1], after[j], ItemRow, ItemRefs, item, StepBytes(step, item))
      BY <2>2, <2>3, <2>5, <2>6, ItemRefFields, StepIs
    <3> QED BY <3>1 DEF Fills
  <2> QED BY <2>1, <2>5, <2>6
<1> DEFINE T == {j \in 0 .. 9 : Builder(after[j], ItemRow)}
<1>2. 0 \in T
  BY DEF PackSteps
<1>3. \A j \in 1 .. 9 : j - 1 \in T => j \in T
  BY <1>1
<1>4. \A j \in 0 .. 9 : j \in T
  <2> HIDE DEF T
  <2>1. PICK n \in Nat : n = 9
    OBVIOUS
  <2>2. \A j \in 0 .. n : j \in T
    BY <1>2, <1>3, <2>1, UpTo
  <2> QED BY <2>1, <2>2
<1> QED BY <1>1, <1>4

LEMMA PackItemCounts ==
  ASSUME NEW R, NEW b, Builder(b, R), Sized(b), NEW item \in Item, NEW validate,
         NEW c, c = PackItem(b, item, validate)
  PROVE  Counts(b, c, ReferenceItem(item), ItemValid(item, validate), TRUE)
<1>1. PICK n \in Nat : n = 9
  OBVIOUS
<1>2. PICK start : start = [b EXCEPT !.row = ZeroItemRow]
  BY Zenon
<1>3. Builder(start, ItemRow)
  BY <1>2, ZeroItemTyped, NewRow
<1>4. Alike(b, start)
  BY <1>2, AlikeRow
<1>5. PICK after : /\ PackSteps(after, 9, start, PackItemTable, item, validate)
                  /\ PackItem(b, item, validate) = ItemAdded(b, after[9], item)
  BY <1>2, PackItemSteps
<1>6. PICK texts, valid, yes : texts = ItemTexts(item) /\ valid = ItemValidity(item, validate)
                               /\ yes = TRUE
  OBVIOUS
<1>7. ASSUME NEW k \in 1 .. n
      PROVE  /\ texts[k] = ReferenceStep(PackItemTable[k], item)
             /\ valid[k] = StepValid(PackItemTable[k], item, validate)
             /\ StepReads(PackItemTable[k], item)
             /\ PackItemTable[k].kind # "nullable"
             /\ Builder(after[k - 1], ItemRow)
             /\ after[k] = PackStep(after[k - 1], PackItemTable[k], item, validate)
  <2>1. k \in 1 .. 9
    BY <1>1
  <2>2. texts[k] = ReferenceStep(PackItemTable[k], item)
    BY <1>6, <2>1, TablesInCommon DEF ItemTexts
  <2>3. valid[k] = StepValid(PackItemTable[k], item, validate)
    BY <1>6, <2>1 DEF ItemValidity
  <2>4. PackItemTable[k].kind # "nullable"
    BY <2>1, PackItemTableIs
  <2>5. /\ Builder(after[k - 1], ItemRow)
        /\ after[k] = PackStep(after[k - 1], PackItemTable[k], item, validate)
    BY <1>3, <1>5, <2>1, ItemBuilders
  <2> QED BY <2>1, <2>2, <2>3, <2>4, <2>5, ItemStepReads
<1>8. \A k \in 1 .. n : texts[k] \in JSON
  BY <1>7, StepTextTyped
<1>9. CountsEach(after, n, texts, valid, yes)
  <2> SUFFICES ASSUME NEW k \in 1 .. n, Sized(after[k - 1])
               PROVE  Counts(after[k - 1], after[k], texts[k], valid[k], TRUE)
    BY <1>6, Zenon DEF CountsEach
  <2>1. PICK x, step : x = after[k - 1] /\ step = PackItemTable[k]
    OBVIOUS
  <2>2. Counts(x, PackStep(x, step, item, validate), ReferenceStep(step, item),
               StepValid(step, item, validate), TRUE)
    BY <1>7, <2>1, PackStepCounts, Zenon
  <2> QED BY <1>7, <2>1, <2>2, Zenon
<1>10. after[0] = start /\ Sized(start)
  BY <1>4, <1>5, AlikeIs DEF PackSteps
<1>11. texts = [k \in 1 .. n |-> texts[k]]
  BY <1>1, <1>6 DEF ItemTexts
<1>12. valid \in [1 .. n -> BOOLEAN]
  BY <1>1, <1>6, ValidityTyped, Zenon
<1>13. Counts(start, after[n], FlattenSeq(texts), AllValid(valid, n), yes)
  BY <1>8, <1>9, <1>10, <1>11, <1>12, TableCounts, Zenon
<1>14. ReferenceItem(item) = FlattenSeq(texts)
  BY <1>6, ItemTablesAre DEF ReferenceItem, ItemTexts
<1>15. AllValid(valid, n) = ItemValid(item, validate)
  BY <1>1, <1>6 DEF ItemValid
<1>16. PICK d : d = after[9]
  OBVIOUS
<1>17. Builder(d, ItemRow)
  BY <1>3, <1>5, <1>16, ItemStepsFill DEF ItemStepsDone
<1>18. Alike(d, c)
  BY <1>5, <1>16, <1>17, ItemAddedAlike
<1>19. Counts(start, d, ReferenceItem(item), ItemValid(item, validate), yes)
  BY <1>1, <1>13, <1>14, <1>15, <1>16
<1>20. Counts(start, c, ReferenceItem(item), ItemValid(item, validate), yes)
  BY <1>18, <1>19, AlikeBehind
<1>21. Counts(b, c, ReferenceItem(item), ItemValid(item, validate), yes)
  BY <1>4, <1>20, AlikeInFront
<1> QED BY <1>6, <1>21, Zenon

-----------------------------------------------------------------------------
(* The list of the items of an order.                                      *)
LEMMA NextItemCounts ==
  ASSUME NEW R, NEW b, Builder(b, R), Sized(b), NEW order, NEW i \in Nat,
         NEW item \in Item, item = order.items[i], NEW validate,
         NEW c, c = PackNextItem(b, order, i, validate)
  PROVE  Counts(b, c, Separator(i) \o ReferenceItem(item), ItemValid(item, validate), TRUE)
<1>1. PICK a : a = IF i > 1 THEN Add(b, 1) ELSE b
  OBVIOUS
<1>2. Builder(a, R)
  BY <1>1, AddIs
<1>3. c = IF a.err # "none" THEN a ELSE PackItem(a, item, validate)
  BY <1>1 DEF PackNextItem
<1>4. PICK v \in BOOLEAN, yes \in BOOLEAN : v = ItemValid(item, validate) /\ yes = TRUE
  BY ValidityTyped, Zenon
<1>5. PICK t : t = ReferenceItem(item)
  OBVIOUS
<1>6. ASSUME Sized(a) PROVE Counts(a, c, t, v, yes)
  <2>1. CASE a.err # "none"
    <3>1. c = a
      BY <1>3, <2>1
    <3>2. Counts(a, PackItem(a, item, validate), ReferenceItem(item),
                 ItemValid(item, validate), TRUE)
      BY <1>2, <1>6, PackItemCounts, Zenon
    <3>3. t \in JSON
      BY <1>5, <3>2 DEF Counts
    <3> QED BY <1>6, <2>1, <3>1, <3>3, ErrorCounts
  <2>2. CASE a.err = "none"
    <3>1. c = PackItem(a, item, validate)
      BY <1>3, <2>2
    <3> QED BY <1>2, <1>4, <1>5, <1>6, <3>1, PackItemCounts, Zenon
  <2> QED BY <2>1, <2>2
<1>7. Counts(b, c, Separator(i) \o t, v, yes)
  BY <1>1, <1>6, CommaCounts
<1> QED BY <1>4, <1>5, <1>7, Zenon

(* The turns of the loop keep the types of the state.                      *)
LEMMA TurnBuilders ==
  ASSUME NEW R, NEW b, Builder(b, R), NEW order, NEW items \in Seq(Item),
         items = order.items, NEW n \in Nat, n = Len(items), NEW validate,
         NEW after, PackTurns(after, n, b, order, validate), NEW k \in 1 .. n
  PROVE  Builder(after[k - 1], R)
<1> DEFINE T == {j \in 0 .. n : Builder(after[j], R)}
<1>1. 0 \in T
  BY AddIs DEF PackTurns
<1>2. ASSUME NEW j \in 1 .. n, j - 1 \in T PROVE j \in T
  <2>1. PICK x, item : x = after[j - 1] /\ item = items[j]
    OBVIOUS
  <2>2. Builder(x, R) /\ item \in Item /\ j \in Nat /\ item = order.items[j]
    BY <1>2, <2>1
  <2>3. after[j] = PackNextItem(x, order, j, validate)
    BY <2>1, Zenon DEF PackTurns
  <2>4. NextItemFilled(x, after[j], R, item)
    BY <2>2, <2>3, NextItemFills
  <2> QED BY <2>4 DEF NextItemFilled
<1>3. \A j \in 0 .. n : j \in T
  <2> HIDE DEF T
  <2> QED BY <1>1, <1>2, UpTo, Zenon
<1>4. k - 1 \in 0 .. n
  OBVIOUS
<1> QED BY <1>3, <1>4

LEMMA PackListCounts ==
  ASSUME NEW R, NEW b, Builder(b, R), Sized(b), NEW order, NEW items \in Seq(Item),
         items = order.items, items # Nil, NEW validate,
         NEW c, c = PackList(b, order, validate)
  PROVE  Counts(b, c, ReferenceItems(items), ItemsValid(items, validate), TRUE)
<1>1. PICK n \in Nat : n = Len(items)
  OBVIOUS
<1>2. PICK after : PackTurns(after, n, b, order, validate) /\ c = after[n]
  BY <1>1, PackListTurns
<1>3. PICK parts, valid, yes : /\ parts = [i \in 1 .. n |-> ReferenceItem(items[i])]
                               /\ valid = ItemsValidity(items, validate)
                               /\ yes = TRUE
  BY Zenon
<1>4. valid \in [1 .. n -> BOOLEAN]
  BY <1>1, <1>3, ValidityTyped, Zenon
<1>5. \A i \in 1 .. n : items[i] \in Item
  BY <1>1
<1>6. \A i \in 1 .. n : /\ parts[i] = ReferenceItem(items[i])
                        /\ valid[i] = ItemValid(items[i], validate)
  BY <1>1, <1>3 DEF ItemsValidity
<1>7. \A i \in 1 .. n : parts[i] \in JSON
  BY <1>5, <1>6, EstimateItemCounts, Zenon
<1>8. ListCounts(after, n, parts, valid, yes)
  <2> SUFFICES ASSUME NEW i \in 1 .. n, Sized(after[i - 1])
               PROVE  Counts(after[i - 1], after[i], Separator(i) \o parts[i], valid[i], TRUE)
    BY <1>3, Zenon DEF ListCounts
  <2>1. PICK x, item : x = after[i - 1] /\ item = items[i] /\ item \in Item
    BY <1>5
  <2>2. Builder(x, R)
    BY <1>1, <1>2, <2>1, TurnBuilders
  <2>3. after[i] = PackNextItem(x, order, i, validate) /\ i \in Nat /\ item = order.items[i]
    BY <1>2, <2>1 DEF PackTurns
  <2>4. Counts(x, after[i], Separator(i) \o ReferenceItem(item), ItemValid(item, validate), TRUE)
    BY <2>1, <2>2, <2>3, NextItemCounts, Zenon
  <2> QED BY <1>6, <2>1, <2>4, Zenon
<1>9. after[0] = Add(b, 2) /\ parts = [i \in 1 .. n |-> parts[i]]
  BY <1>2, <1>3 DEF PackTurns
<1>10. Counts(b, after[n], Bracketed(parts), AllValid(valid, n), yes)
  BY <1>4, <1>7, <1>8, <1>9, BracketsCount, Zenon
<1>11. ReferenceItems(items) = Bracketed(parts)
  BY <1>1, <1>3 DEF ReferenceItems
<1>12. ItemsValid(items, validate) = AllValid(valid, n)
  <2>1. PICK v \in BOOLEAN : v = AllValid(valid, n)
    BY Zenon DEF AllValid
  <2>2. ItemsValid(items, validate) = (items = Nil \/ v)
    BY <1>1, <1>3, <2>1 DEF ItemsValid
  <2> QED BY <2>1, <2>2
<1> QED BY <1>2, <1>3, <1>10, <1>11, <1>12, Zenon

(* The items of an order, none or a list.                                  *)
LEMMA PackItemsCounts ==
  ASSUME NEW b, Builder(b, OrderRow), Sized(b), NEW order \in Order, Flags(b.row, order),
         NEW validate, NEW c, c = PackItems(b, order, validate)
  PROVE  Counts(b, c, ReferenceItems(order.items), ItemsValid(order.items, validate), TRUE)
<1>1. PICK items : items = order.items /\ (items = Nil \/ items \in Seq(Item))
  BY OrderIs
<1>2. ReferenceItems(items) \in JSON
  BY <1>1, EstimateItemsCounts, Zenon DEF Counts
<1>3. CASE b.err # "none"
  <2>1. c = b
    BY <1>3 DEF PackItems
  <2> QED BY <1>1, <1>2, <1>3, <2>1, ErrorCounts, Zenon
<1>4. CASE /\ b.err = "none"
           /\ Len(b.items) > MaxUint32 \/ Count(order.items) > MaxUint32 - Len(b.items)
  <2>1. c = [b EXCEPT !.err = "ErrPackedTooLarge"]
    BY <1>4 DEF PackItems
  <2>2. /\ Sized(c) /\ DOMAIN c = DOMAIN b /\ (Tidy(b) => Tidy(c))
        /\ c.err = "ErrPackedTooLarge"
    BY <2>1, ErrorStops
  <2> QED BY <1>1, <1>2, <1>4, <2>2 DEF Counts, Counted
<1>5. CASE /\ b.err = "none"
           /\ ~(Len(b.items) > MaxUint32)
           /\ ~(Count(order.items) > MaxUint32 - Len(b.items))
  <2>1. Len(b.items) <= MaxUint32 /\ Count(order.items) <= MaxUint32 - Len(b.items)
    <3>1. /\ MaxUint32 \in Nat /\ Len(b.items) \in Nat /\ Count(order.items) \in Nat
      BY LimitsAssumption, OrderIs DEF Builder, Count
    <3> QED BY <1>5, <3>1
  <2>2. PICK d : d = AssignNumbers(b, order)
    OBVIOUS
  <2>3. Builder(d, OrderRow)
    BY <2>1, <2>2, Numbered
  <2>4. Alike(b, d)
    <3>1. PICK row : row = WithNumbers(b.row, Len(b.items), order)
      OBVIOUS
    <3>2. d = [b EXCEPT !.row = row]
      BY <2>2, <3>1 DEF AssignNumbers
    <3> QED BY <3>2, AlikeRow
  <2>5. Sized(d)
    BY <2>4, AlikeIs
  <2>6. Counts(d, c, ReferenceItems(items), ItemsValid(items, validate), TRUE)
    <3>1. CASE items = Nil
      <4>1. c = Add(d, 4)
        BY <1>1, <1>5, <2>2, <3>1 DEF PackItems
      <4>2. ReferenceItems(items) = Chars("null") /\ ItemsValid(items, validate) = TRUE
        BY <3>1 DEF ReferenceItems, ItemsValid
      <4> QED BY <2>5, <4>1, <4>2, NullCounts, Zenon
    <3>2. CASE items # Nil
      <4>1. c = PackList(d, order, validate)
        BY <1>1, <1>5, <2>2, <3>2 DEF PackItems
      <4>2. items \in Seq(Item)
        BY <1>1, <3>2
      <4> QED BY <1>1, <2>3, <2>5, <3>2, <4>1, <4>2, PackListCounts, Zenon
    <3> QED BY <3>1, <3>2, Zenon
  <2> QED BY <1>1, <2>4, <2>6, AlikeInFront, Zenon
<1> QED BY <1>3, <1>4, <1>5, Zenon
-----------------------------------------------------------------------------
(* Orders.                                                                 *)
LEMMA PackRowStepCounts ==
  ASSUME NEW b, Builder(b, OrderRow), Sized(b), NEW order \in Order, Flags(b.row, order),
         NEW validate, NEW k \in 1 .. 25
  PROVE  Counts(b, PackRowStep(b, PackTable[k], order, validate),
                ReferenceRowStep(PackTable[k], order),
                RowStepValid(PackTable[k], order, validate), TRUE)
<1>1. PICK step : step = PackTable[k]
  OBVIOUS
<1>2. CASE k = 22
  <2>1. step.kind = "items"
    BY <1>1, <1>2, ItemsStepIs
  <2>2. /\ PackRowStep(b, step, order, validate) = PackItems(b, order, validate)
        /\ ReferenceRowStep(step, order) = ReferenceItems(order.items)
        /\ RowStepValid(step, order, validate) = ItemsValid(order.items, validate)
    BY <2>1 DEF PackRowStep, ReferenceRowStep, RowStepValid
  <2> QED BY <1>1, <2>2, PackItemsCounts, Zenon
<1>3. CASE k # 22
  <2>1. StepReads(step, order) /\ step.kind # "items"
    BY <1>1, <1>3, OrderStepReads
  <2>2. /\ PackRowStep(b, step, order, validate) = PackStep(b, step, order, validate)
        /\ ReferenceRowStep(step, order) = ReferenceStep(step, order)
        /\ RowStepValid(step, order, validate) = StepValid(step, order, validate)
    BY <2>1 DEF PackRowStep, ReferenceRowStep, RowStepValid
  <2>3. \A row \in OrderRow : [row EXCEPT !.hasTrackingNo = 1] \in OrderRow
    BY OrderRowFlag
  <2> QED BY <1>1, <2>1, <2>2, <2>3, PackStepCounts, Zenon
<1> QED BY <1>2, <1>3, Zenon

LEMMA OrderBuilders ==
  ASSUME NEW start, Builder(start, OrderRow), NEW order \in Order, Flags(start.row, order),
         NEW validate, NEW after, PackSteps(after, 25, start, PackTable, order, validate),
         NEW k \in 1 .. 25
  PROVE  Builder(after[k - 1], OrderRow) /\ Flags(after[k - 1].row, order)
<1>1. PICK bytes \in Nat : ItemsBytesAre(order, bytes)
  BY ItemsBytesExist
<1> DEFINE T == {j \in 0 .. 25 : Builder(after[j], OrderRow) /\ Flags(after[j].row, order)}
<1>2. 0 \in T
  BY DEF PackSteps
<1>3. ASSUME NEW j \in 1 .. 25, j - 1 \in T PROVE j \in T
  <2>1. PICK x, step : x = after[j - 1] /\ step = PackTable[j]
    OBVIOUS
  <2>2. Builder(x, OrderRow) /\ Flags(x.row, order) /\ OrderStep(step)
    BY <1>3, <2>1, PackTableIs
  <2>3. after[j] = PackRowStep(x, step, order, validate)
    BY <2>1 DEF PackSteps
  <2>4. RowStepped(x, after[j], order, step, RowStepBytes(step, order, bytes),
                   RowStepItems(step, order))
    BY <1>1, <2>2, <2>3, RowStepIs
  <2> QED BY <2>4 DEF RowStepped
<1>4. \A j \in 0 .. 25 : j \in T
  <2> HIDE DEF T
  <2>1. PICK n \in Nat : n = 25
    OBVIOUS
  <2>2. \A j \in 0 .. n : j \in T
    BY <1>2, <1>3, <2>1, UpTo
  <2> QED BY <2>1, <2>2
<1>5. k - 1 \in 0 .. 25
  OBVIOUS
<1> QED BY <1>4, <1>5

(* An order packed counts its text.                                        *)
LEMMA PackOrderCounts ==
  ASSUME NEW b, Builder(b, OrderRow), Sized(b), NEW order \in Order, NEW validate,
         NEW c, c = PackOrderInto(b, order, validate)
  PROVE  Counts(b, c, ReferenceOrder(order), OrderValid(order, validate), TRUE)
<1>1. PICK n \in Nat : n = 25
  OBVIOUS
<1>2. PICK q : q = ClearedRow(b.row)
  OBVIOUS
<1>3. PICK start : start = [b EXCEPT !.row = ClearedRow(@)] /\ start = [b EXCEPT !.row = q]
  BY <1>2, Zenon DEF Builder
<1>4. b.row \in OrderRow
  BY DEF Builder
<1>5. q \in OrderRow /\ Flags(q, order)
  BY <1>2, <1>4, ClearedIs
<1>6. Builder(start, OrderRow) /\ Flags(start.row, order)
  BY <1>3, <1>5, NewRow
<1>7. Alike(b, start)
  BY <1>3, AlikeRow
<1>8. PICK after : PackSteps(after, 25, start, PackTable, order, validate) /\ c = after[25]
  BY <1>3, PackOrderSteps
<1>9. PICK texts, valid, yes : /\ texts = StaticTexts(order)
                               /\ valid = OrderValidity(order, validate)
                               /\ yes = TRUE
  OBVIOUS
<1>10. \A k \in 1 .. n : texts[k] \in JSON
  BY <1>1, <1>9, OrderTexts
<1>11. texts = [k \in 1 .. n |-> texts[k]]
  BY <1>1, <1>9 DEF StaticTexts
<1>12. CountsEach(after, n, texts, valid, yes)
  <2> SUFFICES ASSUME NEW k \in 1 .. 25, Sized(after[k - 1])
               PROVE  Counts(after[k - 1], after[k], texts[k], valid[k], TRUE)
    BY <1>1, <1>9, Zenon DEF CountsEach
  <2>1. PICK x, step : x = after[k - 1] /\ step = PackTable[k]
    OBVIOUS
  <2>2. Builder(x, OrderRow) /\ Flags(x.row, order)
    BY <1>6, <1>8, <2>1, OrderBuilders
  <2>3. after[k] = PackRowStep(x, step, order, validate)
    BY <1>8, <2>1 DEF PackSteps
  <2>4. texts[k] = ReferenceRowStep(step, order)
    BY <1>9, <2>1, OrderTexts
  <2>5. valid[k] = RowStepValid(step, order, validate)
    BY <1>9, <2>1 DEF OrderValidity
  <2>6. Counts(x, PackRowStep(x, step, order, validate), ReferenceRowStep(step, order),
               RowStepValid(step, order, validate), TRUE)
    BY <2>1, <2>2, PackRowStepCounts, Zenon
  <2> QED BY <2>1, <2>3, <2>4, <2>5, <2>6, Zenon
<1>13. after[0] = start /\ Sized(start)
  BY <1>7, <1>8, AlikeIs DEF PackSteps
<1>14. valid \in [1 .. n -> BOOLEAN]
  BY <1>1, <1>9, ValidityTyped, Zenon
<1>15. Counts(start, after[n], FlattenSeq(texts), AllValid(valid, n), yes)
  BY <1>10, <1>11, <1>12, <1>13, <1>14, TableCounts, Zenon
<1>16. ReferenceOrder(order) = FlattenSeq(texts)
  BY <1>9, OrderTexts
<1>17. AllValid(valid, n) = OrderValid(order, validate)
  BY <1>1, <1>9 DEF OrderValid
<1>18. Counts(start, c, ReferenceOrder(order), OrderValid(order, validate), yes)
  BY <1>1, <1>8, <1>15, <1>16, <1>17
<1>19. Counts(b, c, ReferenceOrder(order), OrderValid(order, validate), yes)
  BY <1>7, <1>18, AlikeInFront
<1> QED BY <1>9, <1>19, Zenon

-----------------------------------------------------------------------------
(* What packing needs of the arrays.  c is b after m more bytes and n more *)
(* items, or it is where the first failure was; packing is refused for the *)
(* length of an array only if they do not fit into it.                     *)
Needs(b, c, m, n) ==
  /\ Len(b.strings) \in Nat /\ Len(b.items) \in Nat /\ m \in Nat /\ n \in Nat
  /\ b.err # "none" => c.err = b.err
  /\ c.err = "none" => /\ b.err = "none"
                       /\ Len(c.strings) = Len(b.strings) + m
                       /\ Len(c.items) = Len(b.items) + n
  /\ b.err = "none" /\ c.err = "ErrPackedTooLarge" =>
       MaxUint32 < Len(b.strings) + m \/ MaxUint32 < Len(b.items) + n

LEMMA NeedsNothing ==
  ASSUME NEW b, Len(b.strings) \in Nat, Len(b.items) \in Nat
  PROVE  Needs(b, b, 0, 0)
<1>1. PICK s \in Nat, i \in Nat : s = Len(b.strings) /\ i = Len(b.items)
  OBVIOUS
<1>2. s = s + 0 /\ i = i + 0
  BY <1>1
<1> QED BY <1>1, <1>2 DEF Needs

(* An error stops it all the same.                                         *)
LEMMA NeedsNot ==
  ASSUME NEW b, b.err # "none", Len(b.strings) \in Nat, Len(b.items) \in Nat,
         NEW m \in Nat, NEW n \in Nat
  PROVE  Needs(b, b, m, n)
BY DEF Needs

LEMMA NeedsOn ==
  ASSUME NEW b, NEW c, NEW d, NEW m, NEW n, NEW p, NEW q,
         Needs(b, c, m, n), Needs(c, d, p, q)
  PROVE  Needs(b, d, m + p, n + q)
<1>1. PICK s \in Nat, i \in Nat, top \in Nat :
        s = Len(b.strings) /\ i = Len(b.items) /\ top = MaxUint32
  BY LimitsAssumption DEF Needs
<1>2. PICK x \in Nat, y \in Nat : x = Len(c.strings) /\ y = Len(c.items)
  BY DEF Needs
<1>3. m \in Nat /\ n \in Nat /\ p \in Nat /\ q \in Nat
  BY DEF Needs
<1>4. m + p \in Nat /\ n + q \in Nat
  BY <1>3
<1>5. b.err # "none" => d.err = b.err
  BY DEF Needs
<1>6. ASSUME d.err = "none"
      PROVE  /\ b.err = "none"
             /\ Len(d.strings) = s + (m + p)
             /\ Len(d.items) = i + (n + q)
  <2>1. c.err = "none" /\ Len(d.strings) = x + p /\ Len(d.items) = y + q
    BY <1>2, <1>6 DEF Needs
  <2>2. b.err = "none" /\ x = s + m /\ y = i + n
    BY <1>1, <1>2, <2>1 DEF Needs
  <2>3. x + p = s + (m + p) /\ y + q = i + (n + q)
    BY <1>3, <2>2
  <2> QED BY <2>1, <2>2, <2>3
<1>7. ASSUME b.err = "none", d.err = "ErrPackedTooLarge"
      PROVE  top < s + (m + p) \/ top < i + (n + q)
  <2>1. CASE c.err = "none"
    <3>1. x = s + m /\ y = i + n
      BY <1>1, <1>2, <2>1 DEF Needs
    <3>2. top < x + p \/ top < y + q
      BY <1>1, <1>2, <1>7, <2>1 DEF Needs
    <3> QED BY <1>3, <3>1, <3>2
  <2>2. CASE c.err # "none"
    <3>1. c.err = "ErrPackedTooLarge"
      BY <1>7, <2>2 DEF Needs
    <3>2. top < s + m \/ top < i + n
      BY <1>1, <1>7, <3>1 DEF Needs
    <3> QED BY <1>3, <3>2
  <2> QED BY <2>1, <2>2
<1> QED BY <1>1, <1>4, <1>5, <1>6, <1>7, Zenon DEF Needs

(* One step after the other, their needs added up.                         *)
NeedsEach(after, n, f, l) == \A k \in 1 .. n : Needs(after[k - 1], after[k], f[k], l[k])

LEMMA NeedsAlong ==
  ASSUME NEW n \in Nat, NEW after, NEW f, NEW g, NEW l, NEW h,
         Sums(g, n, f), Sums(h, n, l), NeedsEach(after, n, f, l),
         Len(after[0].strings) \in Nat, Len(after[0].items) \in Nat, NEW k \in 0 .. n
  PROVE  Needs(after[0], after[k], g[k], h[k])
<1> DEFINE T == {j \in 0 .. n : Needs(after[0], after[j], g[j], h[j])}
<1>1. 0 \in T
  BY NeedsNothing DEF Sums
<1>2. ASSUME NEW j \in 1 .. n, j - 1 \in T PROVE j \in T
  <2>1. PICK x, y, z, p, q, m, r : /\ x = after[0] /\ y = after[j - 1] /\ z = after[j]
                                   /\ p = g[j - 1] /\ q = h[j - 1]
                                   /\ m = f[j] /\ r = l[j]
    OBVIOUS
  <2>2. Needs(x, y, p, q)
    BY <1>2, <2>1
  <2>3. Needs(y, z, m, r)
    BY <2>1 DEF NeedsEach
  <2>4. Needs(x, z, p + m, q + r)
    BY <2>2, <2>3, NeedsOn
  <2>5. g[j] = p + m /\ h[j] = q + r
    BY <2>1, Zenon DEF Sums
  <2> QED BY <2>1, <2>4, <2>5
<1>3. \A j \in 0 .. n : j \in T
  <2> HIDE DEF T
  <2> QED BY <1>1, <1>2, UpTo, Zenon
<1> QED BY <1>3

LEMMA BuilderLengths ==
  ASSUME NEW R, NEW b, Builder(b, R)
  PROVE  Len(b.strings) \in Nat /\ Len(b.items) \in Nat
BY DEF Builder

LEMMA AddNeeds ==
  ASSUME NEW R, NEW b, Builder(b, R), NEW n, NEW c, c = Add(b, n)
  PROVE  Needs(b, c, 0, 0)
<1>1. /\ c.strings = b.strings /\ c.items = b.items
      /\ c.err = "none" => b.err = "none"
  BY AddIs DEF Later
<1>2. PICK s \in Nat, i \in Nat : s = Len(b.strings) /\ i = Len(b.items)
  BY BuilderLengths
<1>3. s = s + 0 /\ i = i + 0
  BY <1>2
<1>4. b.err # "none" => c.err = b.err
  BY DEF Add
<1>5. c.err # "ErrPackedTooLarge" \/ b.err # "none"
  <2>1. PICK r, t, ic, st, sc, p, z, e :
          b = [row |-> r, items |-> t, itemCap |-> ic, strings |-> st,
               stringCap |-> sc, plain |-> p, size |-> z, err |-> e]
    BY DEF Builder
  <2>2. b.err = "none" =>
          \/ c = [b EXCEPT !.err = "ErrOutputTooLarge"]
          \/ c = [b EXCEPT !.size = @ + n]
    BY DEF Add
  <2>3. b.err = "none" => c.err = "ErrOutputTooLarge" \/ c.err = b.err
    BY <2>1, <2>2
  <2> QED BY <2>3
<1> QED BY <1>1, <1>2, <1>3, <1>4, <1>5 DEF Needs

LEMMA PackStringNeeds ==
  ASSUME NEW R, NEW b, Builder(b, R), NEW field, Takes(R, field), NEW value \in Seq(Bytes),
         NEW validate, NEW c, c = PackString(b, field, value, validate)
  PROVE  Needs(b, c, Len(value), 0)
<1>1. /\ Later(b, c) /\ c.items = b.items
      /\ c.err = "none" => Len(c.strings) = Len(b.strings) + Len(value)
  BY PackStringIs
<1>2. PICK s \in Nat, i \in Nat, n \in Nat, top \in Nat :
        s = Len(b.strings) /\ i = Len(b.items) /\ n = Len(value) /\ top = MaxUint32
  BY BuilderLengths, LimitsAssumption
<1>3. i = i + 0
  BY <1>2
<1>4. c.err = "none" => b.err = "none"
  BY <1>1 DEF Later
<1>5. b.err # "none" => c.err = b.err
  BY DEF PackString
<1>6. PICK err : err = StringError(b, value, validate)
  OBVIOUS
<1>7. ASSUME b.err = "none", c.err = "ErrPackedTooLarge" PROVE top < s + n
  <2>1. err = "ErrPackedTooLarge"
    <3>1. CASE err # "none"
      <4>1. PICK r, t, ic, st, sc, p, z, e :
              b = [row |-> r, items |-> t, itemCap |-> ic, strings |-> st,
                   stringCap |-> sc, plain |-> p, size |-> z, err |-> e]
        BY DEF Builder
      <4>2. c = [b EXCEPT !.err = err, !.row[field] = NoRef]
        BY <1>6, <1>7, <3>1 DEF PackString
      <4>3. c.err = err
        BY <4>1, <4>2, Zenon
      <4> QED BY <1>7, <4>3
    <3>2. CASE err = "none"
      <4>1. PICK r, t, ic, st, sc, p, z, e :
              b = [row |-> r, items |-> t, itemCap |-> ic, strings |-> st,
                   stringCap |-> sc, plain |-> p, size |-> z, err |-> e]
        BY DEF Builder
      <4>2. PICK ref, cap, more : /\ ref = Ref(Uint32(Len(b.strings)), Uint32(Len(value)))
                                  /\ cap = Grown(sc, Len(b.strings) + Len(value))
                                  /\ more = EncodedSize(value)
        OBVIOUS
      <4>3. c = [b EXCEPT
                   !.row[field] = ref,
                   !.strings    = @ \o value,
                   !.stringCap  = Grown(@, Len(b.strings) + Len(value)),
                   !.plain      = @ /\ Plain(value),
                   !.size       = @ + more]
        BY <1>6, <1>7, <3>2, <4>2 DEF PackString
      <4>4. c.err = b.err
        BY <4>1, <4>3, Zenon
      <4> QED BY <1>7, <4>4
    <3> QED BY <3>1, <3>2
  <2>2. s > top \/ n > top - s
    BY <1>2, <1>6, <2>1 DEF StringError
  <2> QED BY <2>2
<1> QED BY <1>1, <1>2, <1>3, <1>4, <1>5, <1>7 DEF Needs

LEMMA StepNeeds ==
  ASSUME NEW R, NEW F, RefFields(R, F), NEW b, Builder(b, R), NEW from, NEW step,
         step.kind \in {"literal", "string", "bool", "int"},
         step.kind = "string" => step.arg \in F /\ from[step.arg] \in Seq(Bytes),
         NEW validate, NEW c, c = PackStep(b, step, from, validate)
  PROVE  Needs(b, c, StepBytes(step, from), 0)
<1>1. CASE step.kind = "string"
  <2>1. c = PackString(b, step.arg, from[step.arg], validate)
    BY <1>1 DEF PackStep
  <2>2. Takes(R, step.arg) /\ from[step.arg] \in Seq(Bytes)
    BY <1>1 DEF RefFields
  <2>3. StepBytes(step, from) = Len(from[step.arg])
    BY <1>1 DEF StepBytes
  <2> QED BY <2>1, <2>2, <2>3, PackStringNeeds
<1>2. CASE step.kind # "string"
  <2>1. \E n : c = Add(b, n)
    BY <1>2 DEF PackStep
  <2>2. StepBytes(step, from) = 0
    BY <1>2 DEF StepBytes
  <2> QED BY <2>1, <2>2, AddNeeds
<1> QED BY <1>1, <1>2

LEMMA ItemBytesStep ==
  ASSUME NEW item \in Item, NEW k \in 1 .. 9
  PROVE  ItemBytesTo(item, k) = ItemBytesTo(item, k - 1) + StepBytes(PackItemTable[k], item)
<1>1. PICK x \in Nat, y \in Nat : x = Len(item["sku"]) /\ y = Len(item["title"])
  BY ItemIs
<1>2. PICK step, z : step = PackItemTable[k] /\ z = StepBytes(step, item)
  OBVIOUS
<1>3. /\ k = 2 => step.kind = "string" /\ step.arg = "sku"
      /\ k = 4 => step.kind = "string" /\ step.arg = "title"
      /\ step.kind = "string" => k = 2 \/ k = 4
  BY <1>2, PackItemTableIs DEF Str
<1>4. /\ k = 2 => z = x
      /\ k = 4 => z = y
      /\ k # 2 /\ k # 4 => z = 0
  BY <1>1, <1>2, <1>3 DEF StepBytes
<1>5. /\ ItemBytesTo(item, k) = (IF k >= 2 THEN x ELSE 0) + (IF k >= 4 THEN y ELSE 0)
      /\ ItemBytesTo(item, k - 1) = (IF k - 1 >= 2 THEN x ELSE 0) + (IF k - 1 >= 4 THEN y ELSE 0)
  BY <1>1 DEF ItemBytesTo
<1>6. CASE k = 2
  BY <1>2, <1>4, <1>5, <1>6
<1>7. CASE k = 4
  BY <1>2, <1>4, <1>5, <1>7
<1>8. CASE k # 2 /\ k # 4
  BY <1>2, <1>4, <1>5, <1>8
<1> QED BY <1>6, <1>7, <1>8

LEMMA ItemStepNeeds ==
  ASSUME NEW b, Builder(b, ItemRow), NEW item \in Item, NEW validate, NEW k \in 1 .. 9,
         NEW step, step = PackItemTable[k], NEW c, c = PackStep(b, step, item, validate)
  PROVE  Needs(b, c, StepBytes(step, item), 0)
<1>1. /\ step.kind \in {"literal", "string", "int"}
      /\ step.kind = "string" => k = 2 \/ k = 4
      /\ k = 2 => step = Str("sku")
      /\ k = 4 => step = Str("title")
  BY PackItemTableIs
<1>2. step.kind = "string" => step.arg \in ItemRefs /\ item[step.arg] \in Seq(Bytes)
  BY <1>1, ItemIs DEF ItemRefs, Str
<1> QED BY <1>1, <1>2, ItemRefFields, StepNeeds

Zeros(n) == [k \in 0 .. n |-> 0]

LEMMA ZeroSums ==
  ASSUME NEW n \in Nat
  PROVE  Sums(Zeros(n), n, Zeros(n)) /\ \A k \in 0 .. n : Zeros(n)[k] = 0
BY DEF Sums, Zeros

LEMMA PackItemNeeds ==
  ASSUME NEW R, NEW b, Builder(b, R), NEW item \in Item, NEW validate,
         NEW c, c = PackItem(b, item, validate)
  PROVE  Needs(b, c, ItemBytesTo(item, 9), 1)
<1>1. PICK start : start = [b EXCEPT !.row = ZeroItemRow]
  BY Zenon
<1>2. /\ Builder(start, ItemRow) /\ start.err = b.err
      /\ start.items = b.items /\ start.strings = b.strings
  BY <1>1, ZeroItemTyped, NewRow
<1>3. PICK after, d : /\ PackSteps(after, 9, start, PackItemTable, item, validate)
                      /\ PackItem(b, item, validate) = ItemAdded(b, after[9], item)
                      /\ d = after[9]
  BY <1>1, PackItemSteps
<1>4. PICK n \in Nat : n = 9
  OBVIOUS
<1>5. PICK f, g : /\ f = [k \in 1 .. n |-> StepBytes(PackItemTable[k], item)]
                  /\ g = [k \in 0 .. n |-> ItemBytesTo(item, k)]
  BY Zenon
<1>6. Sums(g, n, f)
  <2>1. \A k \in 0 .. n : ItemBytesTo(item, k) \in Nat
    BY ItemBytesTyped
  <2>2. g \in [0 .. n -> Nat]
    BY <1>5, <2>1
  <2>3. g[0] = 0
    <3>1. g[0] = ItemBytesTo(item, 0)
      BY <1>4, <1>5
    <3> QED BY <3>1 DEF ItemBytesTo
  <2>4. ASSUME NEW k \in 1 .. n PROVE g[k] = g[k - 1] + f[k]
    <3>1. k \in 1 .. 9 /\ k \in 0 .. n /\ k - 1 \in 0 .. n
      BY <1>4
    <3>2. g[k] = ItemBytesTo(item, k) /\ g[k - 1] = ItemBytesTo(item, k - 1)
      BY <1>5, <3>1
    <3>3. f[k] = StepBytes(PackItemTable[k], item)
      BY <1>5
    <3> QED BY <3>1, <3>2, <3>3, ItemBytesStep
  <2> QED BY <2>2, <2>3, <2>4 DEF Sums
<1>7. NeedsEach(after, n, f, Zeros(n))
  <2> SUFFICES ASSUME NEW k \in 1 .. n
               PROVE  Needs(after[k - 1], after[k], f[k], Zeros(n)[k])
    BY DEF NeedsEach
  <2>1. k \in 1 .. 9 /\ k \in 0 .. n
    BY <1>4
  <2>2. PICK x, step : x = after[k - 1] /\ step = PackItemTable[k]
    OBVIOUS
  <2>3. Builder(x, ItemRow) /\ after[k] = PackStep(x, step, item, validate)
    BY <1>2, <1>3, <2>1, <2>2, ItemBuilders
  <2>4. Needs(x, after[k], StepBytes(step, item), 0)
    BY <2>1, <2>2, <2>3, ItemStepNeeds
  <2>5. f[k] = StepBytes(step, item) /\ Zeros(n)[k] = 0
    BY <1>5, <2>1, <2>2, ZeroSums
  <2> QED BY <2>2, <2>4, <2>5
<1>8. after[0] = start
  BY <1>3 DEF PackSteps
<1>9. Needs(after[0], after[n], g[n], Zeros(n)[n])
  <2>1. Len(after[0].strings) \in Nat /\ Len(after[0].items) \in Nat
    BY <1>2, <1>8, BuilderLengths
  <2>2. Sums(Zeros(n), n, Zeros(n)) /\ n \in 0 .. n
    BY ZeroSums
  <2> QED BY <1>6, <1>7, <2>1, <2>2, NeedsAlong
<1>10. PICK m \in Nat : d = after[9] /\ m = ItemBytesTo(item, 9)
  BY <1>3, ItemBytesTyped
<1>11. Needs(start, d, m, 0)
  <2>1. g[n] = m /\ Zeros(n)[n] = 0
    BY <1>4, <1>5, <1>10, ZeroSums
  <2> QED BY <1>4, <1>8, <1>9, <1>10, <2>1
<1>12. PICK s \in Nat, i \in Nat : s = Len(b.strings) /\ i = Len(b.items)
  BY BuilderLengths
<1>13. Alike(d, c)
  <2>1. Builder(d, ItemRow)
    BY <1>2, <1>3, <1>10, ItemStepsFill DEF ItemStepsDone
  <2> QED BY <1>3, <1>10, <2>1, ItemAddedAlike
<1>14. c.err = d.err
  BY <1>13 DEF Alike, Made
<1>15. c.err = "none" => /\ b.err = "none"
                         /\ Len(c.strings) = s + m /\ Len(c.items) = i + 1
  <2>1. Later(b, c)
    BY PackItemFills
  <2>2. c.err = "none" => Len(c.strings) = Len(b.strings) + m /\ Len(c.items) = Len(b.items) + 1
    BY <1>10, PackItemFills
  <2> QED BY <1>12, <2>1, <2>2 DEF Later
<1>16. b.err # "none" => c.err = b.err
  BY <1>2, <1>11, <1>14 DEF Needs
<1>17. b.err = "none" /\ c.err = "ErrPackedTooLarge" =>
         MaxUint32 < s + m \/ MaxUint32 < i + 1
  <2>1. PICK top \in Nat : top = MaxUint32
    BY LimitsAssumption
  <2>2. b.err = "none" /\ c.err = "ErrPackedTooLarge" => top < s + m \/ top < i + 0
    BY <1>2, <1>11, <1>12, <1>14, <2>1 DEF Needs
  <2>3. top < i + 0 => top < i + 1
    BY <2>1
  <2> QED BY <2>1, <2>2, <2>3
<1> QED BY <1>10, <1>12, <1>15, <1>16, <1>17 DEF Needs

LEMMA NextItemNeeds ==
  ASSUME NEW R, NEW b, Builder(b, R), NEW order, NEW i \in Nat,
         NEW item \in Item, item = order.items[i], NEW validate,
         NEW c, c = PackNextItem(b, order, i, validate)
  PROVE  Needs(b, c, ItemBytesTo(item, 9), 1)
<1>1. PICK a : a = IF i > 1 THEN Add(b, 1) ELSE b
  OBVIOUS
<1>2. Builder(a, R)
  BY <1>1, AddIs
<1>3. Needs(b, a, 0, 0)
  BY <1>1, AddNeeds, NeedsNothing, BuilderLengths
<1>4. PICK m \in Nat : m = ItemBytesTo(item, 9)
  BY ItemBytesTyped
<1>5. c = IF a.err # "none" THEN a ELSE PackItem(a, item, validate)
  BY <1>1 DEF PackNextItem
<1>6. Needs(a, c, m, 1)
  <2>1. CASE a.err # "none"
    <3>1. Len(a.strings) \in Nat /\ Len(a.items) \in Nat
      BY <1>2, BuilderLengths
    <3> QED BY <1>5, <2>1, <3>1, NeedsNot
  <2>2. CASE a.err = "none"
    BY <1>2, <1>4, <1>5, <2>2, PackItemNeeds
  <2> QED BY <2>1, <2>2
<1>7. Needs(b, c, 0 + m, 0 + 1)
  BY <1>3, <1>6, NeedsOn
<1>8. 0 + m = m /\ 0 + 1 = 1
  BY <1>4
<1> QED BY <1>4, <1>7, <1>8

LEMMA PackListNeeds ==
  ASSUME NEW R, NEW b, Builder(b, R), NEW order, NEW items \in Seq(Item),
         items = order.items, NEW n \in Nat, n = Len(items), NEW validate,
         NEW g, NEW f, Sums(g, n, f), \A i \in 1 .. n : f[i] = ItemBytesTo(items[i], 9),
         NEW c, c = PackList(b, order, validate)
  PROVE  Needs(b, c, g[n], n)
<1>1. PICK after : PackTurns(after, n, b, order, validate) /\ c = after[n]
  BY PackListTurns
<1>2. PICK h, l : h = [k \in 0 .. n |-> k] /\ l = [k \in 1 .. n |-> 1]
  BY Zenon
<1>3. Sums(h, n, l) /\ h[n] = n
  BY <1>2 DEF Sums
<1>4. NeedsEach(after, n, f, l)
  <2> SUFFICES ASSUME NEW k \in 1 .. n PROVE Needs(after[k - 1], after[k], f[k], l[k])
    BY DEF NeedsEach
  <2>1. PICK x, item : x = after[k - 1] /\ item = items[k]
    OBVIOUS
  <2>2. Builder(x, R) /\ item \in Item /\ k \in Nat /\ item = order.items[k]
    BY <1>1, <2>1, TurnBuilders
  <2>3. after[k] = PackNextItem(x, order, k, validate)
    BY <1>1, <2>1, Zenon DEF PackTurns
  <2>4. Needs(x, after[k], ItemBytesTo(item, 9), 1)
    BY <2>2, <2>3, NextItemNeeds
  <2>5. f[k] = ItemBytesTo(item, 9) /\ l[k] = 1
    BY <1>2, <2>1
  <2> QED BY <2>1, <2>4, <2>5
<1>5. PICK z : z = after[0] /\ z = Add(b, 2)
  BY <1>1 DEF PackTurns
<1>6. Builder(z, R) /\ Needs(b, z, 0, 0)
  BY <1>5, AddIs, AddNeeds
<1>7. Len(after[0].strings) \in Nat /\ Len(after[0].items) \in Nat /\ n \in 0 .. n
  BY <1>5, <1>6, BuilderLengths
<1>8. Needs(after[0], after[n], g[n], h[n])
  BY <1>3, <1>4, <1>7, NeedsAlong
<1>9. PICK m \in Nat : m = g[n]
  BY DEF Sums
<1>10. Needs(z, c, m, n)
  BY <1>1, <1>3, <1>5, <1>8, <1>9
<1>11. Needs(b, c, 0 + m, 0 + n)
  BY <1>6, <1>10, NeedsOn
<1>12. 0 + m = m /\ 0 + n = n
  BY <1>9
<1> QED BY <1>9, <1>11, <1>12

-----------------------------------------------------------------------------
(* What an order needs of the arrays.                                      *)
LEMMA TrackingNeeds ==
  ASSUME NEW b, Builder(b, OrderRow), NEW order \in Order,
         NEW validate, NEW c, c = PackTracking(b, order["trackingNo"], validate)
  PROVE  Needs(b, c, TrackingBytes(order), 0)
<1>1. PICK value : value = order["trackingNo"]
  OBVIOUS
<1>2. Len(b.strings) \in Nat /\ Len(b.items) \in Nat
  BY BuilderLengths
<1>3. CASE b.err # "none"
  <2>1. c = b
    BY <1>3 DEF PackTracking
  <2> QED BY <1>2, <1>3, <2>1, OrderTyped, NeedsNot
<1>4. CASE b.err = "none" /\ value = Nil
  <2>1. c = Add(b, 4)
    BY <1>1, <1>4 DEF PackTracking
  <2>2. TrackingBytes(order) = 0
    BY <1>1, <1>4 DEF TrackingBytes
  <2> QED BY <2>1, <2>2, AddNeeds
<1>5. CASE b.err = "none" /\ value # Nil
  <2>1. PICK q : q = [b.row EXCEPT !.hasTrackingNo = 1] /\ q \in OrderRow
    BY OrderRowFlag, Zenon DEF Builder
  <2>2. PICK d : d = [b EXCEPT !.row = q]
    BY Zenon
  <2>3. c = PackString(d, "trackingNo", value, validate)
    BY <1>1, <1>5, <2>1, <2>2 DEF PackTracking
  <2>4. /\ Builder(d, OrderRow) /\ d.err = b.err
        /\ d.items = b.items /\ d.strings = b.strings
    BY <2>1, <2>2, NewRow
  <2>5. value \in Seq(Bytes) /\ Takes(OrderRow, "trackingNo")
    BY <1>1, <1>5, OrderIs, OrderTakes DEF OrderRefs
  <2>6. Needs(d, c, Len(value), 0)
    BY <2>3, <2>4, <2>5, PackStringNeeds
  <2>7. TrackingBytes(order) = Len(value)
    BY <1>1, <1>5 DEF TrackingBytes
  <2>8. Needs(b, c, Len(value), 0)
    BY <2>4, <2>6 DEF Needs
  <2> QED BY <2>7, <2>8
<1> QED BY <1>3, <1>4, <1>5

(* The items: all of them fit, or none is packed.                          *)
LEMMA PackItemsNeeds ==
  ASSUME NEW b, Builder(b, OrderRow), NEW order \in Order, Flags(b.row, order),
         NEW bytes \in Nat, ItemsBytesAre(order, bytes),
         NEW validate, NEW c, c = PackItems(b, order, validate)
  PROVE  /\ Needs(b, c, bytes, Count(order.items))
         /\ c.err = "none" => Len(b.items) + Count(order.items) <= MaxUint32
<1>1. PICK n \in Nat, s \in Nat, i \in Nat, top \in Nat :
        /\ n = Count(order.items) /\ s = Len(b.strings) /\ i = Len(b.items)
        /\ top = MaxUint32
  BY OrderTyped, BuilderLengths, LimitsAssumption
<1>2. CASE b.err # "none"
  <2>1. c = b
    BY <1>2 DEF PackItems
  <2> QED BY <1>1, <1>2, <2>1, NeedsNot
<1>3. CASE b.err = "none" /\ (i > top \/ n > top - i)
  <2>1. c = [b EXCEPT !.err = "ErrPackedTooLarge"]
    BY <1>1, <1>3 DEF PackItems
  <2>2. c.err = "ErrPackedTooLarge"
    BY <2>1, ErrRow
  <2>3. top < i + n
    BY <1>3
  <2> QED BY <1>1, <1>3, <2>2, <2>3 DEF Needs
<1>4. CASE b.err = "none" /\ ~(i > top) /\ ~(n > top - i)
  <2>1. i <= top /\ n <= top - i /\ i + n <= top
    BY <1>4
  <2>2. PICK d : d = AssignNumbers(b, order)
    OBVIOUS
  <2>3. /\ Builder(d, OrderRow) /\ d.err = b.err
        /\ d.items = b.items /\ d.strings = b.strings
    BY <1>1, <2>1, <2>2, Numbered
  <2>4. Needs(d, c, bytes, n)
    <3>1. CASE order["items"] = Nil
      <4>1. c = Add(d, 4)
        BY <1>1, <1>4, <2>2, <3>1 DEF PackItems
      <4>2. bytes = 0 /\ n = 0
        BY <1>1, <3>1 DEF ItemsBytesAre, Count
      <4> QED BY <2>3, <4>1, <4>2, AddNeeds
    <3>2. CASE order["items"] # Nil
      <4>1. PICK items \in Seq(Item) : items = order["items"]
        BY <3>2, OrderIs
      <4>2. n = Len(items)
        BY <1>1, <3>2, <4>1 DEF Count
      <4>3. PICK g, f : /\ Sums(g, n, f)
                        /\ \A j \in 1 .. n : f[j] = ItemBytesTo(items[j], 9)
                        /\ bytes = g[n]
        BY <3>2, <4>1, <4>2 DEF ItemsBytesAre
      <4>4. c = PackList(d, order, validate)
        BY <1>1, <1>4, <2>2, <3>2 DEF PackItems
      <4>5. items = order.items
        BY <4>1
      <4> QED BY <2>3, <4>2, <4>3, <4>4, <4>5, PackListNeeds
    <3> QED BY <3>1, <3>2
  <2>5. Needs(b, c, bytes, n)
    BY <2>3, <2>4 DEF Needs
  <2> QED BY <1>1, <2>1, <2>5
<1> QED BY <1>2, <1>3, <1>4

LEMMA RowStepNeeds ==
  ASSUME NEW b, Builder(b, OrderRow), NEW order \in Order, Flags(b.row, order),
         NEW step, OrderStep(step), NEW bytes \in Nat, ItemsBytesAre(order, bytes),
         NEW validate, NEW c, c = PackRowStep(b, step, order, validate)
  PROVE  Needs(b, c, RowStepBytes(step, order, bytes), RowStepItems(step, order))
<1>1. CASE step.kind = "items"
  <2>1. c = PackItems(b, order, validate)
    BY <1>1 DEF PackRowStep
  <2>2. /\ RowStepBytes(step, order, bytes) = bytes
        /\ RowStepItems(step, order) = Count(order.items)
    BY <1>1 DEF RowStepBytes, RowStepItems
  <2> QED BY <2>1, <2>2, PackItemsNeeds
<1>2. CASE step.kind = "nullable"
  <2>1. c = PackTracking(b, order["trackingNo"], validate)
    BY <1>2 DEF PackRowStep, PackStep, OrderStep
  <2>2. /\ RowStepBytes(step, order, bytes) = TrackingBytes(order)
        /\ RowStepItems(step, order) = 0
    BY <1>2 DEF RowStepBytes, RowStepItems
  <2> QED BY <2>1, <2>2, TrackingNeeds
<1>3. CASE step.kind \notin {"items", "nullable"}
  <2>1. step.kind \in {"literal", "string", "bool", "int"}
    BY <1>3 DEF OrderStep
  <2>2. c = PackStep(b, step, order, validate)
    BY <1>3 DEF PackRowStep
  <2>3. step.kind = "string" => step.arg \in OrderStrings /\ order[step.arg] \in Seq(Bytes)
    BY OrderIs DEF OrderStep
  <2>4. Needs(b, c, StepBytes(step, order), 0)
    BY <2>1, <2>2, <2>3, OrderRefFields, StepNeeds
  <2>5. /\ RowStepBytes(step, order, bytes) = StepBytes(step, order)
        /\ RowStepItems(step, order) = 0
    BY <1>3, <2>1 DEF RowStepBytes, RowStepItems, StepBytes
  <2> QED BY <2>4, <2>5
<1> QED BY <1>1, <1>2, <1>3

LEMMA PackOrderNeeds ==
  ASSUME NEW b, Builder(b, OrderRow), NEW order \in Order, NEW validate,
         NEW c, c = PackOrderInto(b, order, validate)
  PROVE  /\ Needs(b, c, StringBytes(order), Count(order.items))
         /\ c.err = "none" => Len(b.items) + Count(order.items) <= MaxUint32
<1>1. PICK n \in Nat : n = 25
  OBVIOUS
<1>2. PICK q : q = ClearedRow(b.row)
  OBVIOUS
<1>3. PICK start : start = [b EXCEPT !.row = ClearedRow(@)] /\ start = [b EXCEPT !.row = q]
  BY <1>2, Zenon DEF Builder
<1>4. b.row \in OrderRow
  BY DEF Builder
<1>5. q \in OrderRow /\ Flags(q, order)
  BY <1>2, <1>4, ClearedIs
<1>6. /\ Builder(start, OrderRow) /\ Flags(start.row, order)
      /\ start.err = b.err /\ start.items = b.items /\ start.strings = b.strings
  BY <1>3, <1>5, NewRow
<1>7. PICK after : PackSteps(after, 25, start, PackTable, order, validate) /\ c = after[25]
  BY <1>3, PackOrderSteps
<1>8. PICK bytes \in Nat : ItemsBytesAre(order, bytes)
  BY ItemsBytesExist
<1>9. PICK f, l : /\ f = [k \in 1 .. n |-> RowStepBytes(PackTable[k], order, bytes)]
                  /\ l = [k \in 1 .. n |-> RowStepItems(PackTable[k], order)]
  BY Zenon
<1>10. \A k \in 1 .. n : f[k] \in Nat /\ l[k] \in Nat
  BY <1>1, <1>9, PackTableIs, RowStepTyped, Zenon
<1>11. PICK g : Sums(g, n, f)
  BY <1>10, SumsExist
<1>12. PICK h : Sums(h, n, l)
  BY <1>10, SumsExist
<1>13. ASSUME NEW k \in 1 .. n
       PROVE  /\ Builder(after[k - 1], OrderRow) /\ Flags(after[k - 1].row, order)
              /\ after[k] = PackRowStep(after[k - 1], PackTable[k], order, validate)
  <2>1. k \in 1 .. 25
    BY <1>1
  <2> QED BY <1>6, <1>7, <2>1, OrderBuilders DEF PackSteps
<1>14. NeedsEach(after, n, f, l)
  <2> SUFFICES ASSUME NEW k \in 1 .. n PROVE Needs(after[k - 1], after[k], f[k], l[k])
    BY DEF NeedsEach
  <2>1. PICK x, step : x = after[k - 1] /\ step = PackTable[k]
    OBVIOUS
  <2>2. OrderStep(step)
    BY <1>1, <2>1, PackTableIs
  <2>3. Needs(x, after[k], RowStepBytes(step, order, bytes), RowStepItems(step, order))
    BY <1>8, <1>13, <2>1, <2>2, RowStepNeeds
  <2> QED BY <1>9, <2>1, <2>3
<1>15. after[0] = start
  BY <1>7 DEF PackSteps
<1>16. Len(after[0].strings) \in Nat /\ Len(after[0].items) \in Nat
  BY <1>6, <1>15, BuilderLengths
<1>17. \A k \in 0 .. n : Needs(start, after[k], g[k], h[k])
  BY <1>11, <1>12, <1>14, <1>15, <1>16, NeedsAlong
<1>18. g[n] = StringBytes(order) /\ h[n] = Count(order.items)
  <2>1. Sums(g, 25, f) /\ Sums(h, 25, l)
    BY <1>1, <1>11, <1>12
  <2>2. \A k \in 1 .. 25 : /\ f[k] = RowStepBytes(PackTable[k], order, bytes)
                           /\ l[k] = RowStepItems(PackTable[k], order)
    BY <1>1, <1>9
  <2>3. g[25] = OrderBytes(order, bytes) /\ h[25] = Count(order.items)
    BY <1>8, <2>1, <2>2, OrderSums
  <2> QED BY <1>1, <1>8, <2>3, StringBytesPacked
<1>19. Needs(start, c, StringBytes(order), Count(order.items))
  <2>1. n \in 0 .. n
    OBVIOUS
  <2> QED BY <1>1, <1>7, <1>17, <1>18, <2>1
<1>20. Needs(b, c, StringBytes(order), Count(order.items))
  BY <1>6, <1>19 DEF Needs
<1>21. ASSUME c.err = "none"
       PROVE  Len(b.items) + Count(order.items) <= MaxUint32
  <2>1. PICK x, y : x = after[21] /\ y = after[22]
    OBVIOUS
  <2>2. 21 \in 0 .. n /\ 22 \in 1 .. n /\ 22 - 1 = 21
    BY <1>1
  <2>3. /\ Builder(x, OrderRow) /\ Flags(x.row, order)
        /\ y = PackRowStep(x, PackTable[22], order, validate)
    BY <1>13, <2>1, <2>2
  <2>4. y = PackItems(x, order, validate)
    BY <2>3, ItemsStepIs DEF PackRowStep
  <2>5. y.err = "none"
    <3> DEFINE T == {j \in 0 .. n : j >= 22 /\ after[j].err = "none" => y.err = "none"}
    <3>1. 0 \in T
      OBVIOUS
    <3>2. ASSUME NEW j \in 1 .. n, j - 1 \in T PROVE j \in T
      <4>1. after[j].err = "none" => after[j - 1].err = "none"
        BY <1>14 DEF NeedsEach, Needs
      <4>2. j >= 22 => j = 22 \/ j - 1 >= 22
        OBVIOUS
      <4> QED BY <2>1, <3>2, <4>1, <4>2
    <3>3. \A j \in 0 .. n : j \in T
      <4> HIDE DEF T
      <4> QED BY <3>1, <3>2, UpTo
    <3>4. 25 \in T
      <4>1. 25 \in 0 .. n
        BY <1>1
      <4> QED BY <3>3, <4>1
    <3> QED BY <1>7, <1>21, <3>4
  <2>6. Len(x.items) + Count(order.items) <= MaxUint32
    BY <1>8, <2>3, <2>4, <2>5, PackItemsNeeds
  <2>7. x.err = "none"
    BY <2>1, <2>2, <2>5, <1>14 DEF NeedsEach, Needs
  <2>8. PICK z \in Nat : z = h[21]
    BY <1>12, <2>2 DEF Sums
  <2>9. Len(x.items) = Len(start.items) + z
    BY <1>17, <2>1, <2>2, <2>7, <2>8 DEF Needs
  <2>10. PICK i \in Nat, m \in Nat, top \in Nat :
           i = Len(b.items) /\ m = Count(order.items) /\ top = MaxUint32
    BY BuilderLengths, OrderTyped, LimitsAssumption
  <2>11. (i + z) + m <= top
    BY <1>6, <2>6, <2>9, <2>10
  <2>12. i + m <= top
    BY <2>8, <2>10, <2>11
  <2> QED BY <2>10, <2>12
<1> QED BY <1>20, <1>21

-----------------------------------------------------------------------------
(* The text of a batch, order by order.                                    *)

(* What stands in front of the first order, with the bracket that will     *)
(* stand behind the last one.                                              *)
FrameSize(b) == Len(Chars(GoLiteral.batch)) + (IF b = Nil THEN 4 ELSE 2)

OrderTextsOf(b) == Elements(OrderParts(b), Count(b))

(* z is the size once k orders of b are packed.                            *)
SizeTo(b, k, z) ==
  \E g : Concatenates(g, Count(b), OrderTextsOf(b), Alphabet) /\ z = FrameSize(b) + Len(g[k])

LEMMA OrderTextOf ==
  ASSUME NEW b \in Batch, NEW i \in 1 .. Count(b)
  PROVE  /\ OrderTextsOf(b)[i] = Separator(i) \o ReferenceOrder(b[i])
         /\ OrderTextsOf(b)[i] \in JSON
         /\ ReferenceOrder(b[i]) \in JSON
         /\ b[i] \in Order
<1>1. b # Nil /\ Count(b) = Len(b) /\ b \in Seq(Order)
  <2>1. CASE b = Nil
    <3>1. Count(b) = 0
      BY <2>1 DEF Count
    <3> QED BY <3>1
  <2>2. CASE b # Nil
    BY <2>2 DEF Count, Batch
  <2> QED BY <2>1, <2>2
<1>2. PICK n \in Nat : n = Len(b)
  BY <1>1
<1>3. PICK parts : parts = OrderParts(b)
  OBVIOUS
<1>4. b[i] \in Order /\ parts[i] = ReferenceOrder(b[i]) /\ parts[i] \in JSON
  BY <1>1, <1>2, <1>3, OrderPartsTyped
<1>5. OrderTextsOf(b)[i] = Separator(i) \o parts[i]
  BY <1>3 DEF OrderTextsOf, Elements
<1>6. i \in Nat
  BY <1>1, <1>2
<1>7. PICK t \in JSON : t = parts[i]
  BY <1>4
<1>8. Separator(i) \o t \in JSON
  BY <1>6, <1>7, ElementTyped
<1> QED BY <1>4, <1>5, <1>7, <1>8

LEMMA FrameSizeTyped ==
  ASSUME NEW b
  PROVE  FrameSize(b) \in Nat
<1>1. PICK t \in JSON : t = Chars(GoLiteral.batch)
  BY FrameTyped, Zenon
<1>2. Len(t) \in Nat
  BY NoText, TextsJoin
<1> QED BY <1>1, <1>2 DEF FrameSize

(* Nothing is packed yet.                                                  *)
LEMMA SizeAtStart ==
  ASSUME NEW b \in Batch
  PROVE  SizeTo(b, 0, FrameSize(b))
<1>1. PICK n \in Nat : n = Count(b)
  BY CountIs
<1>2. PICK texts : texts = OrderTextsOf(b)
  OBVIOUS
<1>3. \A i \in 1 .. n : texts[i] \in Seq(Alphabet)
  BY <1>1, <1>2, OrderTextOf DEF JSON
<1>4. PICK g : Concatenates(g, n, texts, Alphabet)
  BY <1>3, Concatenations, Zenon
<1>5. Len(g[0]) = 0
  BY <1>4, NoText DEF Concatenates
<1>6. PICK z \in Nat : z = FrameSize(b)
  BY FrameSizeTyped
<1>7. z = z + Len(g[0])
  BY <1>5
<1> QED BY <1>1, <1>2, <1>4, <1>6, <1>7 DEF SizeTo

(* The concatenation of the first k texts is a text, and it grows.         *)
LEMMA JoinedTyped ==
  ASSUME NEW n \in Nat, NEW texts, NEW g, Concatenates(g, n, texts, Alphabet),
         NEW k \in 0 .. n
  PROVE  g[k] \in JSON /\ Len(g[k]) \in Nat
<1>1. g[k] \in JSON
  BY DEF Concatenates, JSON
<1> QED BY <1>1, NoText, TextsJoin

LEMMA JoinedGrows ==
  ASSUME NEW n \in Nat, NEW texts, NEW g, Concatenates(g, n, texts, Alphabet),
         \A i \in 1 .. n : texts[i] \in JSON, NEW k \in 0 .. n
  PROVE  Len(g[k]) <= Len(g[n])
<1> DEFINE T == {j \in 0 .. n : k <= j => Len(g[k]) <= Len(g[j])}
<1>1. 0 \in T
  <2> SUFFICES ASSUME k <= 0 PROVE Len(g[k]) <= Len(g[0])
    OBVIOUS
  <2>1. k = 0
    OBVIOUS
  <2>2. Len(g[k]) \in Nat
    BY JoinedTyped
  <2> QED BY <2>1, <2>2
<1>2. ASSUME NEW j \in 1 .. n, j - 1 \in T PROVE j \in T
  <2> SUFFICES ASSUME k <= j PROVE Len(g[k]) <= Len(g[j])
    OBVIOUS
  <2>1. j \in 0 .. n /\ j - 1 \in 0 .. n
    OBVIOUS
  <2>2. PICK s \in JSON, t \in JSON : s = g[j - 1] /\ t = texts[j]
    BY <2>1, JoinedTyped
  <2>3. g[j] = s \o t
    BY <2>2, Zenon DEF Concatenates
  <2>8. Len(s) \in Nat /\ Len(t) \in Nat /\ Len(s \o t) = Len(s) + Len(t)
    BY TextsJoin
  <2>4. PICK x \in Nat, y \in Nat : x = Len(s) /\ y = Len(t) /\ Len(g[j]) = x + y
    BY <2>3, <2>8
  <2>5. PICK m \in Nat : m = Len(g[k])
    BY JoinedTyped
  <2>6. CASE k = j
    BY <2>5, <2>6
  <2>7. CASE k # j
    <3>1. k <= j - 1
      BY <2>7
    <3>2. m <= x
      BY <1>2, <2>2, <2>4, <2>5, <3>1
    <3> QED BY <2>4, <2>5, <3>2
  <2> QED BY <2>6, <2>7
<1> HIDE DEF T
<1>3. \A j \in 0 .. n : j \in T
  BY <1>1, <1>2, UpTo
<1>4. n \in T
  BY <1>3
<1> QED BY <1>4 DEF T

(* One order more.                                                         *)
LEMMA SizeGoesOn ==
  ASSUME NEW b \in Batch, NEW k \in Nat, k + 1 \in 1 .. Count(b), NEW z, SizeTo(b, k, z),
         NEW t, t = Separator(k + 1) \o ReferenceOrder(b[k + 1])
  PROVE  SizeTo(b, k + 1, z + Len(t))
<1>1. PICK n \in Nat : n = Count(b)
  BY CountIs
<1>2. PICK texts : texts = OrderTextsOf(b)
  OBVIOUS
<1>3. PICK g : Concatenates(g, n, texts, Alphabet) /\ z = FrameSize(b) + Len(g[k])
  BY <1>1, <1>2 DEF SizeTo
<1>4. PICK j \in 1 .. n : j = k + 1 /\ j - 1 = k
  BY <1>1
<1>5. texts[j] = t /\ t \in JSON
  BY <1>1, <1>2, <1>4, OrderTextOf, Zenon
<1>6. k \in 0 .. n
  BY <1>4
<1>7. PICK s \in JSON : s = g[k]
  BY <1>3, <1>6, JoinedTyped
<1>8. g[j] = s \o t
  BY <1>3, <1>4, <1>5, <1>7, Zenon DEF Concatenates
<1>9. PICK x \in Nat, y \in Nat : x = Len(s) /\ y = Len(t) /\ Len(g[j]) = x + y
  <2>1. Len(s) \in Nat /\ Len(t) \in Nat /\ Len(s \o t) = Len(s) + Len(t)
    BY <1>5, TextsJoin
  <2> QED BY <1>8, <2>1
<1>10. PICK f \in Nat : f = FrameSize(b)
  BY FrameSizeTyped
<1>11. z + y = f + Len(g[j])
  <2>1. z = f + x
    BY <1>3, <1>7, <1>9, <1>10
  <2>2. (f + x) + y = f + (x + y)
    BY <1>9, <1>10
  <2> QED BY <1>9, <2>1, <2>2
<1>12. SizeTo(b, j, z + y)
  BY <1>1, <1>2, <1>3, <1>10, <1>11 DEF SizeTo
<1> QED BY <1>4, <1>9, <1>12

(* The length of the whole text: when all orders are packed, the size and  *)
(* the bracket and brace behind them.                                      *)
LEMMA TextLengthIs ==
  ASSUME NEW b \in Batch, NEW n \in Nat, n = Count(b),
         NEW g, Concatenates(g, n, OrderTextsOf(b), Alphabet)
  PROVE  Len(ReferenceText(b)) = (FrameSize(b) + Len(g[n])) + Len(Chars(GoLiteral.batchEnd))
<1>1. PICK p \in JSON, q \in JSON : p = Chars(GoLiteral.batch) /\ q = Chars(GoLiteral.batchEnd)
  BY FrameTyped, Zenon
<1>2. PICK body : body = BatchBody(b)
  OBVIOUS
<1>3. PICK m \in Nat : m = Len(g[n])
  <2>1. n \in 0 .. n
    OBVIOUS
  <2> QED BY <2>1, JoinedTyped
<1>4. PICK c \in {2, 4} : c = IF b = Nil THEN 4 ELSE 2
  OBVIOUS
<1>5. body \in JSON /\ Len(body) = c + m
  <2>1. CASE b = Nil
    <3>1. n = 0
      BY <2>1 DEF Count
    <3>2. m = 0
      BY <1>3, <3>1, NoText DEF Concatenates
    <3>3. body = Chars("null")
      BY <1>2, <2>1 DEF BatchBody
    <3>4. body \in JSON /\ Len(body) = 4
      BY <3>3, LiteralsTyped, LengthsAssumption, Zenon
    <3> QED BY <1>4, <2>1, <3>2, <3>4
  <2>2. CASE b # Nil
    <3>1. n = Len(b) /\ b \in Seq(Order)
      BY <2>2 DEF Count, Batch
    <3>2. PICK parts : parts = OrderParts(b)
      OBVIOUS
    <3>3. /\ parts = [i \in 1 .. n |-> parts[i]]
          /\ \A i \in 1 .. n : parts[i] \in JSON
          /\ body = Bracketed(parts)
      BY <1>2, <2>2, <3>1, <3>2, OrderPartsTyped
    <3>4. PICK texts : texts = OrderTextsOf(b)
      OBVIOUS
    <3>5. texts = Elements(parts, n)
      BY <3>2, <3>4 DEF OrderTextsOf
    <3>6. texts = [i \in 1 .. n |-> texts[i]]
      BY <3>5, Zenon DEF Elements
    <3>7. \A i \in 1 .. n : texts[i] \in JSON
      BY <3>4, OrderTextOf
    <3>8. PICK f : f = FlattenSeq(texts)
      OBVIOUS
    <3>9. f = g[n]
      BY <3>4, <3>6, <3>7, <3>8, FlattenTexts
    <3>10. PICK l, r : l = LeftBracket /\ r = RightBracket
      OBVIOUS
    <3>11. Len(parts) = n
      <4>1. parts \in Seq(JSON) /\ DOMAIN parts = 1 .. n
        BY <3>3
      <4> QED BY <4>1, LenProperties
    <3>12. texts = [i \in 1 .. Len(parts) |-> (IF i > 1 THEN Comma ELSE <<>>) \o parts[i]]
      BY <3>5, <3>11 DEF Elements, Separator
    <3>13. body = (l \o f) \o r
      BY <3>3, <3>8, <3>10, <3>12 DEF Bracketed
    <3>14. l \in JSON /\ r \in JSON /\ Len(l) = 1 /\ Len(r) = 1
      BY <3>10, LiteralsTyped, LengthsAssumption, Zenon DEF LeftBracket, RightBracket
    <3>15. f \in JSON /\ Len(f) = m
      <4>1. n \in 0 .. n
        OBVIOUS
      <4> QED BY <1>3, <3>9, <4>1, JoinedTyped
    <3>16. l \o f \in JSON /\ Len(l \o f) = 1 + m
      <4>1. l \o f \in JSON /\ Len(l \o f) = Len(l) + Len(f)
        BY <3>14, <3>15, TextsJoin, Zenon
      <4> QED BY <3>14, <3>15, <4>1
    <3>17. (l \o f) \o r \in JSON /\ Len((l \o f) \o r) = Len(l \o f) + Len(r)
      BY <3>14, <3>16, TextsJoin, Zenon
    <3>18. Len(body) = 2 + m
      BY <3>13, <3>14, <3>16, <3>17
    <3> QED BY <1>4, <2>2, <3>13, <3>17, <3>18
  <2> QED BY <2>1, <2>2
<1>6. ReferenceText(b) = (p \o body) \o q
  BY <1>1, <1>2, ReferenceTextIs, Zenon
<1>7. p \o body \in JSON /\ Len(p \o body) = Len(p) + Len(body) /\ Len(p) \in Nat
  BY <1>5, TextsJoin, Zenon
<1>8. Len(ReferenceText(b)) = Len(p \o body) + Len(q) /\ Len(q) \in Nat
  BY <1>6, <1>7, TextsJoin
<1>9. FrameSize(b) = Len(p) + c
  BY <1>1, <1>4 DEF FrameSize
<1>10. PICK x \in Nat, y \in Nat : x = Len(p) /\ y = Len(q)
  BY <1>7, <1>8
<1>11. Len(ReferenceText(b)) = (x + (c + m)) + y
  BY <1>5, <1>7, <1>8, <1>10
<1>12. (x + (c + m)) + y = ((x + c) + m) + y
  BY <1>4
<1> QED BY <1>1, <1>3, <1>9, <1>10, <1>11, <1>12, Zenon

(* A size on the way is a number and no larger than the text.              *)
LEMMA SizeIsBelow ==
  ASSUME NEW b \in Batch, NEW k \in 0 .. Count(b), NEW z, SizeTo(b, k, z)
  PROVE  /\ z \in Nat
         /\ z + Len(Chars(GoLiteral.batchEnd)) <= Len(ReferenceText(b))
         /\ k = Count(b) => z + Len(Chars(GoLiteral.batchEnd)) = Len(ReferenceText(b))
<1>1. PICK n \in Nat : n = Count(b)
  BY CountIs
<1>2. PICK texts : texts = OrderTextsOf(b)
  OBVIOUS
<1>3. PICK g : Concatenates(g, n, texts, Alphabet) /\ z = FrameSize(b) + Len(g[k])
  BY <1>1, <1>2 DEF SizeTo
<1>4. \A i \in 1 .. n : texts[i] \in JSON
  BY <1>1, <1>2, OrderTextOf
<1>5. Len(g[k]) <= Len(g[n])
  BY <1>1, <1>3, <1>4, JoinedGrows
<1>6. PICK x \in Nat, y \in Nat : x = Len(g[k]) /\ y = Len(g[n])
  <2>1. n \in 0 .. n /\ k \in 0 .. n
    BY <1>1
  <2> QED BY <1>3, <2>1, JoinedTyped
<1>7. PICK f \in Nat : f = FrameSize(b)
  BY FrameSizeTyped
<1>8. PICK q \in JSON : q = Chars(GoLiteral.batchEnd)
  BY FrameTyped, Zenon
<1>9. PICK e \in Nat : e = Len(q)
  BY NoText, TextsJoin
<1>10. Len(ReferenceText(b)) = (f + y) + e
  BY <1>1, <1>2, <1>3, <1>6, <1>7, <1>8, <1>9, TextLengthIs, Zenon
<1>11. z = f + x /\ x <= y
  BY <1>3, <1>5, <1>6, <1>7
<1>12. k = Count(b) => x = y
  BY <1>1, <1>6
<1> QED BY <1>8, <1>9, <1>10, <1>11, <1>12

-----------------------------------------------------------------------------
(* Where packing is: k orders of b are packed, their strings and items are *)
(* in the arrays and nothing else, and their text and the frame in front   *)
(* of it are z bytes long.                                                 *)
Clean(strings, plain) ==
  /\ Len(strings) <= MaxUint32
  /\ plain => \A i \in 1 .. Len(strings) : ~NeedsEscape(strings[i])

Filled(b, k, items, strings) ==
  \E g, h : /\ SumsOf(b, Count(b), g, h)
            /\ b # Nil => ItemTotal(b) = g[Count(b)] /\ StringTotal(b) = h[Count(b)]
            /\ Len(items) = g[k]
            /\ Len(strings) = h[k]

Progress(b, k, items, strings, plain, z, validate) ==
  /\ z <= MaxInt
  /\ SizeTo(b, k, z)
  /\ Clean(strings, plain)
  /\ Filled(b, k, items, strings)
  /\ Len(items) <= MaxUint32
  /\ \A i \in 1 .. k : OrderValid(b[i], validate)

(* Packing may refuse a batch for an error only if there is a reason.      *)
RefusedFor(b, validate, err) ==
  \/ err = "ErrInvalidUTF8" /\ ~BatchValid(b, validate)
  \/ err = "ErrPackedTooLarge" /\ CapacityError(b) # "none"
  \/ err = "ErrOutputTooLarge" /\ MaxInt < Len(ReferenceText(b))

(* And a batch that it has packed has given none.                          *)
Complete(b, strings, plain, output, validate) ==
  /\ output = Len(ReferenceText(b))
  /\ output <= MaxInt
  /\ Clean(strings, plain)
  /\ BatchValid(b, validate)
  /\ CapacityError(b) = "none"

LEMMA AddSizes ==
  ASSUME NEW z \in Nat, z <= MaxInt, NEW n \in Nat,
         NEW x, x = [size |-> z, err |-> "none"]
  PROVE  Add(x, n) = IF z + n <= MaxInt THEN [size |-> z + n, err |-> "none"]
                     ELSE [size |-> z, err |-> "ErrOutputTooLarge"]
<1>1. PICK m \in Nat : m = MaxInt
  BY LimitsAssumption
<1>2. n > m - z <=> ~(z + n <= m)
  BY <1>1
<1>3. x.size = z /\ x.err = "none"
  OBVIOUS
<1>4. Add(x, n) = IF n > m - z THEN [x EXCEPT !.err = "ErrOutputTooLarge"]
                  ELSE [x EXCEPT !.size = @ + n]
  BY <1>1, <1>3 DEF Add
<1>5. [x EXCEPT !.err = "ErrOutputTooLarge"] = [size |-> z, err |-> "ErrOutputTooLarge"]
  OBVIOUS
<1>6. [x EXCEPT !.size = @ + n] = [size |-> z + n, err |-> "none"]
  OBVIOUS
<1> QED BY <1>1, <1>2, <1>4, <1>5, <1>6

(* The frame in front of the orders, and nothing packed.                   *)
LEMMA PackingStarts ==
  ASSUME NEW b \in Batch, NEW validate, NEW plain,
         NEW x, x = Add(Add(NothingYet, Len(Chars(GoLiteral.batch))), IF b = Nil THEN 4 ELSE 2)
  PROVE  /\ x.err = "none" => Progress(b, 0, <<>>, <<>>, plain, x.size, validate)
         /\ x.err # "none" => RefusedFor(b, validate, x.err)
<1>1. PICK p \in JSON : p = Chars(GoLiteral.batch)
  BY FrameTyped, Zenon
<1>2. PICK m \in Nat : m = Len(p)
  BY NoText, TextsJoin
<1>3. PICK c \in Nat : c = IF b = Nil THEN 4 ELSE 2
  OBVIOUS
<1>4. FrameSize(b) = m + c
  BY <1>1, <1>2, <1>3 DEF FrameSize
<1>5. PICK zero \in Nat : zero = 0
  OBVIOUS
<1>6. PICK big \in Nat : big = MaxInt
  BY LimitsAssumption
<1>7. PICK y : y = Add(NothingYet, m)
  OBVIOUS
<1>8. x = Add(y, c)
  BY <1>1, <1>2, <1>3, <1>7
<1>9. /\ m <= big => y = [size |-> m, err |-> "none"]
      /\ ~(m <= big) => y = [size |-> zero, err |-> "ErrOutputTooLarge"]
  <2>1. zero <= MaxInt /\ NothingYet = [size |-> zero, err |-> "none"]
    BY <1>5, <1>6 DEF NothingYet
  <2>2. zero + m = m
    BY <1>5
  <2> QED BY <1>6, <1>7, <2>1, <2>2, AddSizes
<1>10. SizeTo(b, 0, m + c)
  BY <1>4, SizeAtStart
<1>11. m + c <= Len(ReferenceText(b)) /\ Len(ReferenceText(b)) \in Nat
  <2>1. PICK q \in JSON, n \in Nat : q = Chars(GoLiteral.batchEnd) /\ n = Count(b)
    BY FrameTyped, CountIs, Zenon
  <2>2. PICK e \in Nat : e = Len(q)
    BY NoText, TextsJoin
  <2>3. 0 \in 0 .. n
    OBVIOUS
  <2>4. (m + c) + e <= Len(ReferenceText(b))
    BY <1>10, <2>1, <2>2, <2>3, SizeIsBelow
  <2>5. Len(ReferenceText(b)) \in Nat
    BY ReferenceTextTyped
  <2> QED BY <2>4, <2>5
<1>12. CASE ~(m <= big)
  <2>1. y.err = "ErrOutputTooLarge"
    BY <1>9, <1>12
  <2>2. x.err = "ErrOutputTooLarge"
    BY <1>8, <2>1, Zenon DEF Add
  <2>3. MaxInt < Len(ReferenceText(b))
    BY <1>6, <1>11, <1>12
  <2> QED BY <2>2, <2>3 DEF RefusedFor
<1>13. CASE m <= big /\ ~(m + c <= big)
  <2>1. x = [size |-> m, err |-> "ErrOutputTooLarge"]
    BY <1>6, <1>8, <1>9, <1>13, AddSizes
  <2>2. MaxInt < Len(ReferenceText(b))
    BY <1>6, <1>11, <1>13
  <2> QED BY <2>1, <2>2 DEF RefusedFor
<1>14. CASE m <= big /\ m + c <= big
  <2>1. x = [size |-> m + c, err |-> "none"]
    BY <1>6, <1>8, <1>9, <1>14, AddSizes
  <2>2. Len(<<>>) = 0 /\ 0 <= MaxUint32
    BY LimitsAssumption
  <2>3. Clean(<<>>, plain)
    BY <2>2 DEF Clean
  <2>4. Filled(b, 0, <<>>, <<>>)
    <3>1. CASE b = Nil
      <4>1. PICK g : g = [k \in 0 .. 0 |-> 0]
        BY Zenon
      <4>2. g[0] = 0 /\ SumsOf(b, 0, g, g)
        BY <4>1 DEF SumsOf, Sums
      <4>3. Count(b) = 0
        BY <3>1 DEF Count
      <4> QED BY <2>2, <3>1, <4>2, <4>3 DEF Filled
    <3>2. CASE b # Nil
      <4>1. PICK n \in Nat : n = Len(b) /\ Count(b) = n /\ b \in Seq(Order)
        BY <3>2 DEF Batch, Count
      <4>2. PICK g, h : SumsOf(b, n, g, h) /\ ItemTotal(b) = g[n] /\ StringTotal(b) = h[n]
        BY <4>1, TotalsAre
      <4>3. g[0] = 0 /\ h[0] = 0
        BY <4>2 DEF SumsOf, Sums
      <4> QED BY <2>2, <3>2, <4>1, <4>2, <4>3 DEF Filled
    <3> QED BY <3>1, <3>2
  <2>5. \A i \in 1 .. 0 : OrderValid(b[i], validate)
    OBVIOUS
  <2>6. x.err = "none" /\ x.size = m + c
    BY <2>1
  <2>7. m + c <= MaxInt
    BY <1>6, <1>14
  <2> QED BY <1>10, <2>2, <2>3, <2>4, <2>5, <2>6, <2>7 DEF Progress
<1> QED BY <1>12, <1>13, <1>14

(* All orders are packed: the size, with what stands behind them, is the   *)
(* length of the text, and the arrays have the totals of the batch.        *)
LEMMA PackingEnds ==
  ASSUME NEW b \in Batch, NEW items, NEW strings, NEW plain, NEW z, NEW validate,
         Progress(b, Count(b), items, strings, plain, z, validate),
         NEW x, x = Add([size |-> z, err |-> "none"], Len(Chars(GoLiteral.batchEnd)))
  PROVE  /\ x.err = "none" => Complete(b, strings, plain, x.size, validate)
         /\ x.err # "none" => RefusedFor(b, validate, x.err)
<1>1. PICK q \in JSON : q = Chars(GoLiteral.batchEnd)
  BY FrameTyped, Zenon
<1>2. PICK e \in Nat : e = Len(q)
  BY NoText, TextsJoin
<1>3. PICK n \in Nat : n = Count(b)
  BY CountIs
<1>4. z \in Nat /\ z + e = Len(ReferenceText(b)) /\ z <= MaxInt
  <2>1. n \in 0 .. n
    OBVIOUS
  <2>2. SizeTo(b, n, z) /\ z <= MaxInt
    BY <1>3 DEF Progress
  <2> QED BY <1>1, <1>2, <1>3, <2>1, <2>2, SizeIsBelow
<1>5. x = IF z + e <= MaxInt THEN [size |-> z + e, err |-> "none"]
          ELSE [size |-> z, err |-> "ErrOutputTooLarge"]
  BY <1>1, <1>2, <1>4, AddSizes
<1>6. CASE ~(z + e <= MaxInt)
  <2>1. x.err = "ErrOutputTooLarge"
    BY <1>5, <1>6
  <2>2. MaxInt < z + e
    BY <1>4, <1>6, LimitsAssumption
  <2> QED BY <1>4, <2>1, <2>2 DEF RefusedFor
<1>7. CASE z + e <= MaxInt
  <2>1. x.err = "none" /\ x.size = z + e
    BY <1>5, <1>7
  <2>2. BatchValid(b, validate)
    <3>1. \A i \in 1 .. n : OrderValid(b[i], validate)
      BY <1>3 DEF Progress
    <3>2. b # Nil => n = Len(b)
      BY <1>3 DEF Count
    <3> QED BY <3>1, <3>2 DEF BatchValid, AllValid, OrdersValidity
  <2>3. CapacityError(b) = "none"
    <3>1. CASE b = Nil
      BY <3>1 DEF CapacityError
    <3>2. CASE b # Nil
      <4>1. ItemTotal(b) = Len(items) /\ StringTotal(b) = Len(strings)
        BY <3>2 DEF Progress, Filled
      <4>2. Len(items) <= MaxUint32 /\ Len(strings) <= MaxUint32
        BY DEF Progress, Clean
      <4>3. ItemTotal(b) \in Nat /\ StringTotal(b) \in Nat
        BY <3>2, TotalsTyped DEF Batch
      <4>4. PICK i \in Nat, s \in Nat : i = ItemTotal(b) /\ s = StringTotal(b)
        BY <4>3
      <4>5. PICK u \in Nat, m \in Nat : u = MaxUint32 /\ m = MaxInt /\ u <= m
        BY LimitsAssumption
      <4>6. i <= u /\ s <= u
        BY <4>1, <4>2, <4>4, <4>5
      <4>7. ~(i > u) /\ ~(s > u) /\ ~(i > m) /\ ~(s > m)
        BY <4>5, <4>6
      <4> QED BY <4>4, <4>5, <4>7 DEF CapacityError
    <3> QED BY <3>1, <3>2
  <2>4. Clean(strings, plain)
    BY DEF Progress
  <2> QED BY <1>4, <1>7, <2>1, <2>2, <2>3, <2>4 DEF Complete
<1> QED BY <1>6, <1>7

(* The next order, with the comma in front of it.                          *)
StartState(row, items, ic, strings, sc, plain, z) ==
  [row |-> row, items |-> items, itemCap |-> ic, strings |-> strings,
   stringCap |-> sc, plain |-> plain, size |-> z, err |-> "none"]

NextState(b, k, start, validate) ==
  LET comma == IF k > 0 THEN Add(start, 1) ELSE start
  IN  IF comma.err # "none" THEN comma ELSE PackOrderInto(comma, b[k + 1], validate)

LEMMA StartIs ==
  ASSUME NEW row \in OrderRow, NEW items \in Seq(ItemRow), NEW ic \in Nat,
         NEW strings \in Seq(Bytes), NEW sc \in Nat, NEW plain \in BOOLEAN,
         NEW z \in Nat, z <= MaxInt, Clean(strings, plain),
         NEW start, start = StartState(row, items, ic, strings, sc, plain, z)
  PROVE  /\ Builder(start, OrderRow)
         /\ Sized(start) /\ Tidy(start) /\ start.err = "none" /\ start.size = z
         /\ start.items = items /\ start.strings = strings
<1>1. start = [row |-> row, items |-> items, itemCap |-> ic, strings |-> strings,
               stringCap |-> sc, plain |-> plain, size |-> z, err |-> "none"]
  BY DEF StartState
<1>2. PICK e : e = "none"
  OBVIOUS
<1>3. Made(start, strings, plain, z, e)
  BY <1>1, <1>2, MadeOf
<1>4. Sized(start)
  BY <1>3, MadeSized
<1>5. Tidy(start)
  BY <1>3, MadeTidy DEF Clean
<1>6. Builder(start, OrderRow)
  BY <1>1 DEF Builder
<1> QED BY <1>1, <1>4, <1>5, <1>6

(* c is start with one order more, k + 1 in number.                        *)
LEMMA NextCounts ==
  ASSUME NEW b \in Batch, NEW k \in Nat, k + 1 \in 1 .. Count(b), NEW validate,
         NEW start, Builder(start, OrderRow), Sized(start), start.err = "none",
         NEW c, c = NextState(b, k, start, validate)
  PROVE  /\ Counts(start, c, Separator(k + 1) \o ReferenceOrder(b[k + 1]),
                   OrderValid(b[k + 1], validate), TRUE)
         /\ Needs(start, c, StringBytes(b[k + 1]), Count(b[k + 1].items))
         /\ c.err = "none" => Len(start.items) + Count(b[k + 1].items) <= MaxUint32
         /\ Builder(c, OrderRow)
<1>1. PICK order \in Order : order = b[k + 1]
  BY OrderTextOf
<1>2. PICK i \in Nat : i = k + 1 /\ (i > 1 <=> k > 0)
  OBVIOUS
<1>3. PICK a : a = IF i > 1 THEN Add(start, 1) ELSE start
  OBVIOUS
<1>4. c = IF a.err # "none" THEN a ELSE PackOrderInto(a, order, validate)
  BY <1>1, <1>2, <1>3 DEF NextState
<1>5. Builder(a, OrderRow) /\ a.items = start.items
  BY <1>3, AddIs
<1>6. PICK v \in BOOLEAN : v = OrderValid(order, validate)
  BY ValidityTyped, Zenon
<1>7. PICK t \in JSON : t = ReferenceOrder(order)
  BY EstimateOrderCounts, OrderTextOf, <1>1
<1>8. ASSUME Sized(a) PROVE Counts(a, c, t, v, TRUE)
  <2>1. CASE a.err # "none"
    <3>1. c = a
      BY <1>4, <2>1
    <3> QED BY <1>8, <2>1, <3>1, ErrorCounts, Zenon
  <2>2. CASE a.err = "none"
    <3>1. c = PackOrderInto(a, order, validate)
      BY <1>4, <2>2
    <3> QED BY <1>5, <1>6, <1>7, <1>8, <3>1, PackOrderCounts, Zenon
  <2> QED BY <2>1, <2>2, Zenon
<1>9. Counts(start, c, Separator(i) \o t, v, TRUE)
  <2>1. PICK yes : yes = TRUE
    OBVIOUS
  <2>2. Sized(a) => Counts(a, c, t, v, yes)
    BY <1>8, <2>1, Zenon
  <2>3. Counts(start, c, Separator(i) \o t, v, yes)
    BY <1>3, <2>2, CommaCounts
  <2> QED BY <2>1, <2>3, Zenon
<1>10. PICK m \in Nat, l \in Nat : m = StringBytes(order) /\ l = Count(order.items)
  BY StringBytesTyped, OrderTyped
<1>11. Needs(start, a, 0, 0)
  <2>1. CASE i > 1
    <3>1. PICK one : one = 1
      OBVIOUS
    <3>2. a = Add(start, one)
      BY <1>3, <2>1, <3>1
    <3> QED BY <3>2, AddNeeds
  <2>2. CASE ~(i > 1)
    <3>1. a = start
      BY <1>3, <2>2
    <3> QED BY <3>1, BuilderLengths, NeedsNothing
  <2> QED BY <2>1, <2>2
<1>12. /\ Needs(a, c, m, l)
       /\ c.err = "none" => Len(a.items) + l <= MaxUint32
  <2>1. CASE a.err # "none"
    <3>1. c = a /\ Len(a.strings) \in Nat /\ Len(a.items) \in Nat
      BY <1>4, <1>5, <2>1, BuilderLengths
    <3> QED BY <2>1, <3>1, NeedsNot
  <2>2. CASE a.err = "none"
    <3>1. c = PackOrderInto(a, order, validate)
      BY <1>4, <2>2
    <3> QED BY <1>5, <1>10, <3>1, PackOrderNeeds
  <2> QED BY <2>1, <2>2
<1>13. Needs(start, c, m, l)
  <2>1. PICK x, y : x = 0 /\ y = 0
    OBVIOUS
  <2>2. Needs(start, a, x, y)
    BY <1>11, <2>1
  <2>3. Needs(start, c, x + m, y + l)
    BY <1>12, <2>2, NeedsOn
  <2>4. x + m = m /\ y + l = l
    BY <2>1
  <2> QED BY <2>3, <2>4
<1>14. Builder(c, OrderRow)
  <2>1. CASE a.err # "none"
    BY <1>4, <1>5, <2>1
  <2>2. CASE a.err = "none"
    <3>1. c = PackOrderInto(a, order, validate)
      BY <1>4, <2>2
    <3>2. PICK bytes \in Nat : ItemsBytesAre(order, bytes)
      BY ItemsBytesExist
    <3>3. OrderPacked(a, c, order, bytes)
      BY <1>5, <3>1, <3>2, PackOrderFills
    <3> QED BY <3>3 DEF OrderPacked
  <2> QED BY <2>1, <2>2
<1> QED BY <1>1, <1>2, <1>5, <1>6, <1>7, <1>9, <1>10, <1>12, <1>13, <1>14, Zenon

(* The totals bound what is in use after each order.                       *)
LEMMA FilledOn ==
  ASSUME NEW b \in Batch, NEW k \in Nat, k + 1 \in 1 .. Count(b),
         NEW items, NEW strings, Filled(b, k, items, strings)
  PROVE  /\ \A i, s : /\ Len(i) = Len(items) + Count(b[k + 1].items)
                      /\ Len(s) = Len(strings) + StringBytes(b[k + 1])
                      => Filled(b, k + 1, i, s)
         /\ \/ MaxUint32 < Len(strings) + StringBytes(b[k + 1])
            \/ MaxUint32 < Len(items) + Count(b[k + 1].items)
            => CapacityError(b) # "none"
<1>1. b # Nil /\ Count(b) = Len(b) /\ b \in Seq(Order)
  <2>1. CASE b = Nil
    <3>1. Count(b) = 0
      BY <2>1 DEF Count
    <3> QED BY <3>1
  <2>2. CASE b # Nil
    BY <2>2 DEF Count, Batch
  <2> QED BY <2>1, <2>2
<1>2. PICK n \in Nat : n = Len(b) /\ n = Count(b)
  BY <1>1
<1>3. PICK g, h : /\ SumsOf(b, n, g, h)
                  /\ ItemTotal(b) = g[n] /\ StringTotal(b) = h[n]
                  /\ Len(items) = g[k] /\ Len(strings) = h[k]
  BY <1>1, <1>2 DEF Filled
<1>4. PICK f, m : f = ItemCounts(b) /\ m = ByteCounts(b)
  OBVIOUS
<1>5. Sums(g, n, f) /\ Sums(h, n, m)
  BY <1>3, <1>4 DEF SumsOf
<1>6. \A j \in 1 .. n : f[j] = Count(b[j].items) /\ m[j] = StringBytes(b[j])
  BY <1>2, <1>4, Zenon DEF ItemCounts, ByteCounts
<1>7. \A j \in 1 .. n : f[j] \in Nat /\ m[j] \in Nat
  <2>1. \A j \in 1 .. n : b[j] \in Order
    BY <1>1, <1>2
  <2> QED BY <1>6, <2>1, OrderTyped, StringBytesTyped
<1>8. k + 1 \in 1 .. n /\ k + 1 \in 0 .. n
  BY <1>2
<1>9. g[k + 1] = g[k] + f[k + 1] /\ h[k + 1] = h[k] + m[k + 1]
  <2>1. (k + 1) - 1 = k
    OBVIOUS
  <2> QED BY <1>5, <1>8, <2>1 DEF Sums
<1>10. g[k + 1] <= g[n] /\ h[k + 1] <= h[n]
  BY <1>5, <1>7, <1>8, SumsGrow
<1>11. \A i, s : /\ Len(i) = Len(items) + Count(b[k + 1].items)
                 /\ Len(s) = Len(strings) + StringBytes(b[k + 1])
                 => Filled(b, k + 1, i, s)
  <2> SUFFICES ASSUME NEW i, NEW s, Len(i) = Len(items) + Count(b[k + 1].items),
                      Len(s) = Len(strings) + StringBytes(b[k + 1])
               PROVE  Filled(b, k + 1, i, s)
    OBVIOUS
  <2>1. Len(i) = g[k + 1] /\ Len(s) = h[k + 1]
    BY <1>3, <1>6, <1>8, <1>9
  <2> QED BY <1>2, <1>3, <2>1 DEF Filled
<1>12. ASSUME \/ MaxUint32 < Len(strings) + StringBytes(b[k + 1])
              \/ MaxUint32 < Len(items) + Count(b[k + 1].items)
       PROVE  CapacityError(b) # "none"
  <2>1. MaxUint32 < h[k + 1] \/ MaxUint32 < g[k + 1]
    BY <1>3, <1>6, <1>8, <1>9, <1>12
  <2>2. ItemTotal(b) \in Nat /\ StringTotal(b) \in Nat
    BY <1>1, TotalsTyped
  <2>3. PICK x \in Nat, y \in Nat : x = ItemTotal(b) /\ y = StringTotal(b)
    BY <2>2
  <2>4. PICK u \in Nat : u = MaxUint32
    BY LimitsAssumption
  <2>5. g[k + 1] \in Nat /\ h[k + 1] \in Nat
    BY <1>5, <1>8 DEF Sums
  <2>6. y > u \/ x > u
    BY <1>3, <1>10, <2>1, <2>3, <2>4, <2>5
  <2> QED BY <1>1, <2>3, <2>4, <2>6 DEF CapacityError
<1> QED BY <1>11, <1>12

(* One order more is packed, or there is a reason why not.                 *)
LEMMA PackingGoesOn ==
  ASSUME NEW b \in Batch, NEW k \in Nat, k + 1 \in 1 .. Count(b), NEW validate,
         NEW row \in OrderRow, NEW items \in Seq(ItemRow), NEW ic \in Nat,
         NEW strings \in Seq(Bytes), NEW sc \in Nat, NEW plain \in BOOLEAN,
         NEW z, Progress(b, k, items, strings, plain, z, validate),
         NEW c, c = NextState(b, k, StartState(row, items, ic, strings, sc, plain, z), validate)
  PROVE  /\ c.err = "none" =>
              Progress(b, k + 1, c.items, c.strings, c.plain, c.size, validate)
         /\ c.err # "none" => RefusedFor(b, validate, c.err)
<1>1. PICK start : start = StartState(row, items, ic, strings, sc, plain, z)
  OBVIOUS
<1>2. PICK n \in Nat : n = Count(b)
  BY CountIs
<1>3. k \in 0 .. n /\ k + 1 \in 0 .. n
  BY <1>2
<1>4. z \in Nat /\ z <= MaxInt /\ Clean(strings, plain)
  BY <1>2, <1>3, SizeIsBelow DEF Progress
<1>5. /\ Builder(start, OrderRow) /\ Sized(start) /\ Tidy(start)
      /\ start.err = "none" /\ start.size = z
      /\ start.items = items /\ start.strings = strings
  BY <1>1, <1>4, StartIs
<1>6. PICK t : t = Separator(k + 1) \o ReferenceOrder(b[k + 1])
  BY Zenon
<1>7. PICK v \in BOOLEAN : v = OrderValid(b[k + 1], validate)
  BY ValidityTyped, Zenon
<1>8. PICK m, l : m = StringBytes(b[k + 1]) /\ l = Count(b[k + 1].items)
  OBVIOUS
<1>9. /\ Counts(start, c, t, v, TRUE)
      /\ Needs(start, c, m, l)
      /\ c.err = "none" => Len(items) + l <= MaxUint32
      /\ Builder(c, OrderRow)
  BY <1>1, <1>5, <1>6, <1>7, <1>8, NextCounts, Zenon
<1>10. /\ Sized(c) /\ Tidy(c)
       /\ Counted(start, c, t, v, TRUE)
  BY <1>5, <1>9, Zenon DEF Counts
<1>11. PICK y : y = z + Len(t)
  OBVIOUS
<1>12. SizeTo(b, k + 1, y)
  BY <1>6, <1>11, SizeGoesOn, Zenon DEF Progress
<1>13. Filled(b, k, items, strings)
  BY DEF Progress
<1>14. CASE c.err = "none"
  <2>1. v /\ c.size = y
    BY <1>5, <1>10, <1>11, <1>14 DEF Counted
  <2>2. c.size <= MaxInt
    BY <1>10 DEF Sized
  <2>3. Clean(c.strings, c.plain)
    BY <1>10 DEF Tidy, Clean
  <2>4. Len(c.strings) = Len(strings) + m /\ Len(c.items) = Len(items) + l
    BY <1>5, <1>9, <1>14 DEF Needs
  <2>5. Filled(b, k + 1, c.items, c.strings)
    BY <1>8, <1>13, <2>4, FilledOn, Zenon
  <2>6. Len(c.items) <= MaxUint32
    BY <1>9, <1>14, <2>4
  <2>7. ASSUME NEW i \in 1 .. k + 1 PROVE OrderValid(b[i], validate)
    <3>1. CASE i = k + 1
      BY <1>7, <2>1, <3>1, Zenon
    <3>2. CASE i # k + 1
      <4>1. i \in 1 .. k
        BY <3>2
      <4> QED BY <4>1 DEF Progress
    <3> QED BY <3>1, <3>2
  <2> QED BY <1>12, <1>14, <2>1, <2>2, <2>3, <2>5, <2>6, <2>7 DEF Progress
<1>15. CASE c.err = "ErrOutputTooLarge"
  <2>1. MaxInt < y
    BY <1>5, <1>10, <1>11, <1>15 DEF Counted
  <2>2. PICK q \in JSON : q = Chars(GoLiteral.batchEnd)
    BY FrameTyped, Zenon
  <2>3. PICK e \in Nat : e = Len(q)
    BY NoText, TextsJoin
  <2>4. y \in Nat /\ y + e <= Len(ReferenceText(b))
    BY <1>2, <1>3, <1>12, <2>2, <2>3, SizeIsBelow
  <2>5. PICK r \in Nat : r = Len(ReferenceText(b))
    BY ReferenceTextTyped
  <2>6. PICK x \in Nat : x = MaxInt
    BY LimitsAssumption
  <2>7. x < r
    BY <2>1, <2>3, <2>4, <2>5, <2>6
  <2> QED BY <1>15, <2>5, <2>6, <2>7 DEF RefusedFor
<1>16. CASE c.err = "ErrInvalidUTF8"
  <2>1. ~v
    BY <1>5, <1>10, <1>16 DEF Counted
  <2>2. b # Nil /\ Count(b) = Len(b)
    <3>1. CASE b = Nil
      <4>1. Count(b) = 0
        BY <3>1 DEF Count
      <4> QED BY <4>1
    <3>2. CASE b # Nil
      BY <3>2 DEF Count
    <3> QED BY <3>1, <3>2
  <2>3. PICK j \in 1 .. n : j = k + 1 /\ n = Len(b)
    BY <1>2, <2>2
  <2>4. ~OrderValid(b[j], validate)
    BY <1>7, <2>1, <2>3
  <2>5. ~BatchValid(b, validate)
    <3> SUFFICES ASSUME BatchValid(b, validate) PROVE OrderValid(b[j], validate)
      BY <2>4
    <3>1. OrdersValidity(b, validate)[j]
      BY <2>2, <2>3 DEF BatchValid, AllValid
    <3> QED BY <2>3, <3>1 DEF OrdersValidity
  <2> QED BY <1>16, <2>5 DEF RefusedFor
<1>17. CASE c.err = "ErrPackedTooLarge"
  <2>1. MaxUint32 < Len(strings) + m \/ MaxUint32 < Len(items) + l
    BY <1>5, <1>9, <1>17 DEF Needs
  <2>2. CapacityError(b) # "none"
    BY <1>8, <1>13, <2>1, FilledOn
  <2> QED BY <1>17, <2>2 DEF RefusedFor
<1>18. \/ c.err = "none" \/ c.err = "ErrOutputTooLarge"
       \/ c.err = "ErrInvalidUTF8" \/ c.err = "ErrPackedTooLarge"
  BY <1>10 DEF Counted
<1> QED BY <1>14, <1>15, <1>16, <1>17, <1>18

-----------------------------------------------------------------------------
(* The texts of Pipeline.  What is packed is all there and its text has    *)
(* the length that the buffer gets; an error has a reason; and what came   *)
(* out of the native encoder is the text.                                  *)
TextInv ==
  /\ phase = "pack" =>
       Progress(batch, next, ws.items, ws.strings, ws.stringsPlain, size, Validates)
  /\ InUse /\ phase # "pack" =>
       Complete(batch, ws.strings, ws.stringsPlain, ws.maxOutput, Validates)
  /\ phase = "done" /\ stage # "returned" => RefusedFor(batch, Validates, result.err)
  /\ stage # "outside" => w.cap \in Nat
  /\ stage = "returned" /\ BadArguments(view, w.cap) =>
       w = Writer(<<>>, w.cap, "INVALID_ARGUMENT")
  /\ EncodesReference

LEMMA TextInitially == Init => TextInv
<1> SUFFICES ASSUME Init PROVE TextInv
  OBVIOUS
<1>1. phase = "idle" /\ stage = "outside"
  BY DEF Init, NativeInit
<1> QED BY <1>1 DEF TextInv, InUse, EncodesReference

(* Reset: the frame is counted, nothing is packed.                         *)
LEMMA ResetText ==
  ASSUME PackInv, Reset
  PROVE  /\ phase' = "pack" =>
              Progress(batch', next', ws'.items, ws'.strings, ws'.stringsPlain, size', Validates')
         /\ phase' = "done" => RefusedFor(batch', Validates', result'.err)
         /\ phase' \in {"pack", "done"}
<1>1. PICK x : x = Add(Add(NothingYet, Len(Chars(GoLiteral.batch))), IF batch = Nil THEN 4 ELSE 2)
  OBVIOUS
<1>2. /\ size' = x.size /\ next' = 0 /\ batch' = batch /\ entry' = entry
      /\ IF x.err = "none" THEN phase' = "pack" ELSE Refused(x.err)
  BY <1>1 DEF Reset, NothingYet
<1>3. PICK ni, ns \in Nat : ResetTo(ws, ws', batch, ni, ns)
  BY ResetIs
<1>4. ws'.items = <<>> /\ ws'.strings = <<>>
  BY <1>3 DEF ResetTo
<1>5. batch \in Batch
  BY DEF PackInv, Typed
<1>6. PICK v, p : v = Validates /\ p = ws'.stringsPlain
  OBVIOUS
<1>7. /\ x.err = "none" => Progress(batch, 0, <<>>, <<>>, p, x.size, v)
      /\ x.err # "none" => RefusedFor(batch, v, x.err)
  BY <1>1, <1>5, PackingStarts
<1>8. Validates' = v
  BY <1>2, <1>6 DEF Validates
<1>9. CASE x.err = "none"
  <2>1. phase' = "pack"
    BY <1>2, <1>9
  <2> QED BY <1>2, <1>4, <1>6, <1>7, <1>8, <1>9, <2>1
<1>10. CASE x.err # "none"
  <2>1. phase' = "done" /\ result'.err = x.err
    BY <1>2, <1>10 DEF Refused, Outcome
  <2> QED BY <1>2, <1>7, <1>8, <1>10, <2>1
<1> QED BY <1>9, <1>10

(* packOrder, for the row of the next order.                               *)
LEMMA PackOrderText ==
  ASSUME PackInv, TextInv, PackOrder
  PROVE  /\ phase' = "pack" =>
              Progress(batch', next', ws'.items, ws'.strings, ws'.stringsPlain, size', Validates')
         /\ phase' = "done" => RefusedFor(batch', Validates', result'.err)
         /\ phase' \in {"pack", "done"}
<1>1. PICK a, c, i, ic, s, sc, on, sp, m :
        ws = [array |-> a, count |-> c, items |-> i, itemCap |-> ic, strings |-> s,
              stringCap |-> sc, ordersNull |-> on, stringsPlain |-> sp, maxOutput |-> m]
  BY DEF PackInv, Typed, IsPacked
<1>2. /\ a \in Seq(OrderRow) /\ i \in Seq(ItemRow) /\ ic \in Nat
      /\ s \in Seq(Bytes) /\ sc \in Nat /\ sp \in BOOLEAN
  BY <1>1 DEF PackInv, Typed, IsPacked
<1>3. PICK k \in Nat : k = next /\ k + 1 \in 1 .. Count(batch) /\ k + 1 \in 1 .. Len(a)
  BY <1>1, NextOrder
<1>4. PICK row \in OrderRow : row = a[k + 1]
  BY <1>2, <1>3
<1>5. PICK b : b = NextState(batch, k, StartState(row, i, ic, s, sc, sp, size), Validates)
  OBVIOUS
<1>6. /\ ws' = [ws EXCEPT !.array[k + 1] = b.row,
                          !.items = b.items, !.itemCap = b.itemCap,
                          !.strings = b.strings, !.stringCap = b.stringCap,
                          !.stringsPlain = b.plain]
      /\ size' = b.size
      /\ IF b.err = "none" THEN next' = next + 1 /\ UNCHANGED <<phase, result>>
         ELSE Refused(b.err) /\ next' = 0
  <2> DEFINE first == [row |-> ws.array[next + 1], items |-> ws.items,
                       itemCap |-> ws.itemCap, strings |-> ws.strings,
                       stringCap |-> ws.stringCap, plain |-> ws.stringsPlain,
                       size |-> size, err |-> "none"]
             second == IF next > 0 THEN Add(first, 1) ELSE first
             third == IF second.err # "none" THEN second
                      ELSE PackOrderInto(second, batch[next + 1], Validates)
  <2>1. /\ ws' = [ws EXCEPT !.array[next + 1] = third.row,
                            !.items = third.items, !.itemCap = third.itemCap,
                            !.strings = third.strings, !.stringCap = third.stringCap,
                            !.stringsPlain = third.plain]
        /\ size' = third.size
        /\ IF third.err = "none" THEN next' = next + 1 /\ UNCHANGED <<phase, result>>
           ELSE Refused(third.err) /\ next' = 0
    BY DEF PackOrder
  <2>2. first = StartState(row, i, ic, s, sc, sp, size)
    BY <1>1, <1>3, <1>4 DEF StartState
  <2> HIDE DEF first
  <2>3. third = b
    BY <1>3, <1>5, <2>2 DEF NextState
  <2> HIDE DEF third
  <2> QED BY <1>3, <2>1, <2>3
<1>7. batch \in Batch
  BY DEF PackInv, Typed
<1>8. phase = "pack" /\ batch' = batch /\ entry' = entry
  BY DEF PackOrder
<1>9. PICK v : v = Validates
  OBVIOUS
<1>10. Validates' = v
  BY <1>8, <1>9 DEF Validates
<1>11. Progress(batch, k, i, s, sp, size, v)
  BY <1>1, <1>3, <1>8, <1>9 DEF TextInv
<1>12. /\ b.err = "none" => Progress(batch, k + 1, b.items, b.strings, b.plain, b.size, v)
       /\ b.err # "none" => RefusedFor(batch, v, b.err)
  BY <1>2, <1>3, <1>4, <1>5, <1>7, <1>9, <1>11, PackingGoesOn
<1>13. PICK br, bi, bic, bs, bsc, bp : /\ br = b.row /\ bi = b.items /\ bic = b.itemCap
                                       /\ bs = b.strings /\ bsc = b.stringCap /\ bp = b.plain
  OBVIOUS
<1>14. PICK a2 : a2 = [a EXCEPT ![k + 1] = br]
  BY Zenon
<1>15. ws' = [array |-> a2, count |-> c, items |-> bi, itemCap |-> bic, strings |-> bs,
              stringCap |-> bsc, ordersNull |-> on, stringsPlain |-> bp, maxOutput |-> m]
  BY <1>1, <1>6, <1>13, <1>14, Zenon
<1>16. ws'.items = b.items /\ ws'.strings = b.strings /\ ws'.stringsPlain = b.plain
  BY <1>13, <1>15
<1>17. CASE b.err = "none"
  <2>1. next' = k + 1 /\ phase' = "pack"
    BY <1>3, <1>6, <1>8, <1>17
  <2>2. Progress(batch', next', ws'.items, ws'.strings, ws'.stringsPlain, size', Validates')
    BY <1>6, <1>8, <1>10, <1>12, <1>16, <1>17, <2>1
  <2> QED BY <2>1, <2>2
<1>18. CASE b.err # "none"
  <2>1. phase' = "done" /\ result'.err = b.err
    BY <1>6, <1>18 DEF Refused, Outcome
  <2> QED BY <1>8, <1>10, <1>12, <1>18, <2>1
<1> QED BY <1>17, <1>18

(* The end of packing: what maxOutput becomes is the length of the text.   *)
LEMMA FinishPackText ==
  ASSUME PackInv, TextInv, FinishPack
  PROVE  /\ phase' = "packed" =>
              Complete(batch', ws'.strings, ws'.stringsPlain, ws'.maxOutput, Validates')
         /\ phase' = "done" => RefusedFor(batch', Validates', result'.err)
         /\ phase' \in {"packed", "done"}
<1>1. PICK x : x = Add([size |-> size, err |-> "none"], Len(Chars(GoLiteral.batchEnd)))
  OBVIOUS
<1>2. /\ phase = "pack" /\ next = Count(batch) /\ batch' = batch /\ entry' = entry
      /\ IF x.err = "none" THEN ws' = [ws EXCEPT !.maxOutput = x.size] /\ phase' = "packed"
         ELSE Refused(x.err)
  BY <1>1 DEF FinishPack
<1>3. PICK v : v = Validates
  OBVIOUS
<1>4. Validates' = v
  BY <1>2, <1>3 DEF Validates
<1>5. batch \in Batch
  BY DEF PackInv, Typed
<1>6. Progress(batch, Count(batch), ws.items, ws.strings, ws.stringsPlain, size, v)
  BY <1>2, <1>3 DEF TextInv
<1>7. /\ x.err = "none" => Complete(batch, ws.strings, ws.stringsPlain, x.size, v)
      /\ x.err # "none" => RefusedFor(batch, v, x.err)
  BY <1>1, <1>5, <1>6, PackingEnds
<1>8. CASE x.err = "none"
  <2>1. PICK a, c, i, ic, s, sc, on, sp, m :
          ws = [array |-> a, count |-> c, items |-> i, itemCap |-> ic, strings |-> s,
                stringCap |-> sc, ordersNull |-> on, stringsPlain |-> sp, maxOutput |-> m]
    BY DEF PackInv, Typed, IsPacked
  <2>2. PICK z : z = x.size
    OBVIOUS
  <2>3. ws' = [array |-> a, count |-> c, items |-> i, itemCap |-> ic, strings |-> s,
               stringCap |-> sc, ordersNull |-> on, stringsPlain |-> sp, maxOutput |-> z]
    BY <1>2, <1>8, <2>1, <2>2
  <2>4. /\ ws'.strings = ws.strings /\ ws'.stringsPlain = ws.stringsPlain
        /\ ws'.maxOutput = x.size
    BY <2>1, <2>2, <2>3
  <2>5. phase' = "packed"
    BY <1>2, <1>8
  <2> QED BY <1>2, <1>4, <1>7, <1>8, <2>4, <2>5
<1>9. CASE x.err # "none"
  <2>1. phase' = "done" /\ result'.err = x.err
    BY <1>2, <1>9 DEF Refused, Outcome
  <2> QED BY <1>2, <1>4, <1>7, <1>9, <2>1
<1> QED BY <1>8, <1>9

(* The view of a packed workspace holds the batch.                         *)
LEMMA ViewHoldsBatch ==
  ASSUME PackInv, phase \in {"packed", "encode"}
  PROVE  ViewHolds(ViewOf(ws), batch)
<1>1. HoldsBatch(ws, batch, Count(batch)) /\ IsPacked(ws) /\ batch \in Batch
  BY DEF PackInv, Typed, BatchIsHeld, InUse, RowsInUse
<1>2. PICK v : v = ViewOf(ws)
  OBVIOUS
<1>3. PICK a \in Seq(OrderRow), n \in Nat :
        a = ws.array /\ n = Count(batch) /\ n <= Len(a) /\ ws.count = n
  BY <1>1, CountIs DEF HoldsBatch, IsPacked
<1>4. PICK rows : rows = SubSeq(a, 1, n)
  BY Zenon
<1>5. Len(rows) = n /\ \A i \in 1 .. n : rows[i] = a[i]
  <2>1. Len(rows) = n /\ \A i \in 1 .. n : rows[i] = a[1 + i - 1]
    BY <1>3, <1>4
  <2>2. ASSUME NEW i \in 1 .. n PROVE rows[i] = a[i]
    <3>1. 1 + i - 1 = i
      OBVIOUS
    <3> QED BY <2>1, <3>1
  <2> QED BY <2>1, <2>2
<1>6. /\ v.orders = rows /\ v.ordersNull = (batch = Nil)
      /\ v.items = ws.items /\ v.strings = ws.strings
  BY <1>1, <1>2, <1>3, <1>4 DEF ViewOf, HoldsBatch
<1>7. ASSUME NEW i \in 1 .. n
      PROVE  RowHeld(v.orders[i], v.items, v.strings, batch[i])
  BY <1>1, <1>3, <1>5, <1>6 DEF HoldsBatch
<1> QED BY <1>2, <1>3, <1>5, <1>6, <1>7 DEF ViewHolds

(* What C has written when it returns, whatever the buffer: the text, or   *)
(* as much of it as fits.                                                  *)
LEMMA ReturnedText ==
  ASSUME PackInv, EncodeInv, TextInv, phase = "encode", stage = "returned"
  PROVE  /\ w.cap \in Nat
         /\ ReferenceText(batch) \in JSON
         /\ w.cap = 0 => w = Writer(<<>>, w.cap, "INVALID_ARGUMENT")
         /\ w.cap # 0 => Writes(Writer(<<>>, w.cap, "OK"), w, ReferenceText(batch))
<1>1. PICK v : v = ViewOf(ws)
  OBVIOUS
<1>2. view = v /\ v \in BatchView /\ WellFormed(v) /\ ViewHolds(v, batch)
  BY <1>1, PackedView, ViewHoldsBatch DEF EncodeInv
<1>3. batch \in Batch
  BY DEF PackInv, Typed
<1>4. w.cap \in Nat
  BY DEF TextInv
<1>5. Clean(ws.strings, ws.stringsPlain)
  BY DEF TextInv, InUse, Complete
<1>6. PlainArena(v)
  <2>1. v.strings = ws.strings /\ v.stringsPlain = ws.stringsPlain
    BY <1>1 DEF ViewOf
  <2> QED BY <1>5, <2>1 DEF PlainArena, Clean
<1>7. BadArguments(view, w.cap) <=> w.cap = 0
  BY <1>2 DEF BadArguments, WellFormed
<1>8. w.cap = 0 => w = Writer(<<>>, w.cap, "INVALID_ARGUMENT")
  BY <1>7 DEF TextInv
<1>9. ASSUME w.cap # 0
      PROVE  Writes(Writer(<<>>, w.cap, "OK"), w, ReferenceText(batch))
  <2>1. w = StaticRun(v, w.cap)
    BY <1>2, <1>7, <1>9 DEF EncodeInv, AgreeInv, BackendsAgree
  <2>2. PICK cap \in Nat : cap = w.cap
    BY <1>4
  <2>3. Writes(Writer(<<>>, cap, "OK"), StaticRun(v, cap), ReferenceText(batch))
    BY <1>2, <1>3, <1>6, StaticRunWrites
  <2> QED BY <2>1, <2>2, <2>3
<1> QED BY <1>3, <1>4, <1>8, <1>9, ReferenceTextTyped

(* A text is never empty.                                                  *)
LEMMA TextNotEmpty ==
  ASSUME NEW b \in Batch
  PROVE  0 < Len(ReferenceText(b))
<1>1. PICK n \in Nat, r \in Nat : n = Count(b) /\ r = Len(ReferenceText(b))
  BY CountIs, ReferenceTextTyped
<1>2. PICK q \in JSON : q = Chars(GoLiteral.batchEnd)
  BY FrameTyped, Zenon
<1>3. PICK e \in Nat : e = Len(q)
  BY NoText, TextsJoin
<1>4. PICK p \in JSON : p = Chars(GoLiteral.batch)
  BY FrameTyped, Zenon
<1>5. PICK m \in Nat : m = Len(p)
  BY NoText, TextsJoin
<1>6. PICK z \in Nat : z = FrameSize(b) /\ 2 <= z
  <2>1. PICK c \in {2, 4} : c = IF b = Nil THEN 4 ELSE 2
    OBVIOUS
  <2>2. FrameSize(b) = m + c
    BY <1>4, <1>5, <2>1 DEF FrameSize
  <2> QED BY <2>1, <2>2
<1>7. z + e <= r
  <2>1. SizeTo(b, 0, z)
    BY <1>6, SizeAtStart
  <2>2. 0 \in 0 .. n
    OBVIOUS
  <2> QED BY <1>1, <1>2, <1>3, <2>1, <2>2, SizeIsBelow
<1> QED BY <1>1, <1>3, <1>6, <1>7

(* With a buffer as long as the text, the text is what Marshal returns.    *)
LEMMA EncodedText ==
  ASSUME PackInv, EncodeInv, TextInv, Encoded
  PROVE  EncodesReference'
<1>1. /\ phase = "encode" /\ stage = "returned"
      /\ result' = CASE w.status # "OK"       -> Outcome(MapNativeError(w.status), <<>>)
                     [] Len(w.text) # w.cap   -> Outcome("ErrNative", <<>>)
                     [] OTHER                 -> Outcome("none", w.text)
      /\ batch' = batch /\ ws' = ws /\ w' = w
  BY DEF Encoded, nativeVars
<1>2. SUFFICES ASSUME w.cap = Capacity
               PROVE  result' = Outcome("none", ReferenceText(batch))
  <2>1. Exact' => w.cap = Capacity
    BY <1>1 DEF Exact, Capacity
  <2> QED BY <1>1, <2>1 DEF EncodesReference
<1>3. PICK t : t = ReferenceText(batch)
  OBVIOUS
<1>4. PICK n \in Nat : n = Len(t) /\ 0 < n
  BY <1>3, ReferenceTextTyped, TextNotEmpty DEF PackInv, Typed
<1>5. ws.maxOutput = n
  BY <1>1, <1>3, <1>4 DEF TextInv, InUse, Complete
<1>6. w.cap = n
  <2>1. ~(n < 1)
    BY <1>4
  <2> QED BY <1>2, <1>5, <2>1 DEF Capacity
<1>7. PICK x : x = Writer(<<>>, n, "OK")
  OBVIOUS
<1>8. Writes(x, w, t)
  <2>1. w.cap # 0
    BY <1>4, <1>6
  <2> QED BY <1>1, <1>3, <1>6, <1>7, <2>1, ReturnedText
<1>9. ~Stopped(x) /\ x.text = <<>> /\ x.cap = n
  BY <1>7, EmptyWriter
<1>10. Len(x.text) + Len(t) <= x.cap
  BY <1>4, <1>9, NoText
<1>11. Appends(x, w, t)
  BY <1>8, <1>9, <1>10 DEF Writes
<1>12. w.status = "OK" /\ w.text = t
  <2>1. t \in JSON
    BY <1>8 DEF Writes
  <2> QED BY <1>9, <1>11, <2>1, NoText DEF Appends, Stopped
<1> QED BY <1>1, <1>3, <1>4, <1>6, <1>12

(* Whatever its size, a buffer holds a beginning of the text.              *)
LEMMA BeginningWritten ==
  ASSUME PackInv, EncodeInv, TextInv
  PROVE  WritesPrefix
<1> SUFFICES ASSUME phase = "encode", stage = "returned"
             PROVE  /\ Len(w.text) <= w.cap
                    /\ IsPrefix(w.text, ReferenceText(batch))
                    /\ w.status = "OK" <=> w.text = ReferenceText(batch)
  BY DEF WritesPrefix
<1>1. PICK t \in JSON : t = ReferenceText(batch)
  BY ReturnedText
<1>2. CASE w.cap = 0
  <2>1. w = Writer(<<>>, 0, "INVALID_ARGUMENT")
    BY <1>2, ReturnedText
  <2>2. w.text = <<>> /\ w.status = "INVALID_ARGUMENT"
    BY <2>1 DEF Writer
  <2>3. Len(w.text) <= w.cap
    BY <1>2, <2>2, NoText
  <2>4. IsPrefix(w.text, t)
    <3>1. PICK none \in JSON : none = <<>>
      BY NoText
    <3>2. t = none \o t
      BY <3>1, NoText
    <3> QED BY <2>2, <3>1, <3>2, BeginningIs, Zenon
  <2>5. t # <<>>
    <3>1. 0 < Len(t)
      BY <1>1, TextNotEmpty DEF PackInv, Typed
    <3>2. ~(0 < 0)
      OBVIOUS
    <3> QED BY <3>1, <3>2, NoText
  <2> QED BY <1>1, <2>2, <2>3, <2>4, <2>5
<1>3. CASE w.cap # 0
  <2>1. PICK cap \in Nat : cap = w.cap
    BY ReturnedText
  <2>2. PICK x : x = Writer(<<>>, cap, "OK")
    OBVIOUS
  <2>3. Writes(x, w, t)
    BY <1>1, <1>3, <2>1, <2>2, ReturnedText
  <2>4. ~Stopped(x) /\ x.text = <<>>
    BY <2>2, EmptyWriter
  <2> QED BY <1>1, <2>3, <2>4, PrefixWritten
<1> QED BY <1>2, <1>3

(* Nothing that the native encoder does changes the size of its buffer.    *)
LEMMA NativeKeepsCap ==
  ASSUME IInv, NativeStep
  PROVE  w'.cap = w.cap
<1>1. IsWriter(w) /\ stage = "orders"
  BY Zenon DEF IInv, NativeStep, BeginOrder, CallOperation, LeaveLoop
<1>2. CASE BeginOrder
  <2>1. w' = IF index > 0 THEN Literal(w, Comma) ELSE w
    BY <1>2 DEF BeginOrder, Separated
  <2>2. Follows(w, Literal(w, Comma))
    BY <1>1, LiteralFollows
  <2> QED BY <2>1, <2>2 DEF Follows
<1>3. CASE CallOperation
  <2>1. /\ op > 0 /\ LoopInv /\ index \in Nat /\ op \in Nat /\ view \in BatchView
    BY <1>1, <1>3 DEF IInv, CallOperation
  <2>2. PICK n \in Nat : n = Len(view.orders)
    BY <2>1 DEF BatchView
  <2>3. op \in 1 .. Len(Tables) /\ index + 1 \in 1 .. n
    BY <2>1, <2>2, TablesAre DEF LoopInv
  <2>4. PICK row \in OrderRow : row = view.orders[index + 1]
    <3>1. view.orders \in Seq(OrderRow)
      BY <2>1 DEF BatchView
    <3> QED BY <2>2, <2>3, <3>1
  <2>5. PICK table : table = Tables[op] /\ TableReadable(table, row)
    BY <2>3, TablesReadable
  <2>6. w' = WriteTable(w, view, table, row)
    BY <1>3, <2>4, <2>5 DEF CallOperation
  <2>7. Follows(w, w')
    BY <1>1, <2>1, <2>5, <2>6, WriteTableFollows, Zenon DEF TableReadable
  <2> QED BY <2>7 DEF Follows
<1>4. CASE LeaveLoop
  <2>1. PICK x : x = IF view.ordersNull THEN w ELSE Literal(w, RightBracket)
    OBVIOUS
  <2>2. w' = Literal(x, Chars("}"))
    BY <1>4, <2>1, Zenon DEF LeaveLoop
  <2>3. Follows(w, Literal(w, RightBracket))
    BY <1>1, LiteralFollows
  <2>4. IsWriter(x) /\ x.cap = w.cap
    BY <1>1, <2>1, <2>3 DEF Follows
  <2>5. Follows(x, Literal(x, Chars("}")))
    BY <2>4, LiteralFollows, Zenon
  <2> QED BY <2>2, <2>4, <2>5, Zenon DEF Follows
<1> QED BY <1>2, <1>3, <1>4 DEF NativeStep

(* The invariant, action by action.                                        *)
LEMMA TextStep ==
  ASSUME PackInv, EncodeInv, TextInv, [Next]_vars
  PROVE  TextInv'
<1>1. stage \in {"outside", "orders", "returned"}
  BY DEF EncodeInv, IInv
<1>2. CASE Call
  <2>1. phase = "idle" /\ phase' = "reset" /\ UNCHANGED nativeVars
    BY <1>2 DEF Call
  <2>2. stage = "outside" /\ stage' = stage
    BY <1>1, <2>1 DEF EncodeInv, PackInv, CalledFirst, nativeVars
  <2> QED BY <2>1, <2>2 DEF TextInv, InUse, EncodesReference
<1>3. CASE TooLarge
  <2>1. /\ phase = "reset" /\ phase' = "done" /\ UNCHANGED nativeVars
        /\ batch' = batch /\ CapacityError(batch) # "none"
        /\ result' = Outcome(CapacityError(batch), <<>>)
    BY <1>3 DEF TooLarge, Refused
  <2>2. stage = "outside" /\ stage' = stage
    BY <1>1, <2>1 DEF EncodeInv, PackInv, CalledFirst, nativeVars
  <2>3. CapacityError(batch) = "ErrPackedTooLarge"
    BY <2>1 DEF CapacityError
  <2>4. result'.err = "ErrPackedTooLarge"
    BY <2>1, <2>3 DEF Outcome
  <2>5. RefusedFor(batch', Validates', result'.err)
    BY <2>1, <2>4 DEF RefusedFor
  <2> QED BY <2>1, <2>2, <2>5 DEF TextInv, InUse, EncodesReference
<1>4. CASE Reset
  <2>1. phase = "reset" /\ UNCHANGED nativeVars
    BY <1>4 DEF Reset
  <2>2. stage = "outside" /\ stage' = stage
    BY <1>1, <2>1 DEF EncodeInv, PackInv, CalledFirst, nativeVars
  <2> QED BY <1>4, <2>2, ResetText DEF TextInv, InUse, EncodesReference
<1>5. CASE PackOrder
  <2>1. phase = "pack" /\ UNCHANGED nativeVars
    BY <1>5 DEF PackOrder
  <2>2. stage = "outside" /\ stage' = stage
    BY <1>1, <2>1 DEF EncodeInv, PackInv, CalledFirst, nativeVars
  <2> QED BY <1>5, <2>2, PackOrderText DEF TextInv, InUse, EncodesReference
<1>6. CASE FinishPack
  <2>1. phase = "pack" /\ UNCHANGED nativeVars
    BY <1>6 DEF FinishPack
  <2>2. stage = "outside" /\ stage' = stage
    BY <1>1, <2>1 DEF EncodeInv, PackInv, CalledFirst, nativeVars
  <2> QED BY <1>6, <2>2, FinishPackText DEF TextInv, InUse, EncodesReference
<1>7. CASE Encode
  <2>1. PICK cap \in {Capacity} \cup Caps : Enter(ViewOf(ws), cap)
    BY <1>7 DEF Encode
  <2>2. /\ phase = "packed" /\ phase' = "encode" /\ ws' = ws /\ batch' = batch
        /\ entry' = entry
    BY <1>7 DEF Encode
  <2>3. Complete(batch, ws.strings, ws.stringsPlain, ws.maxOutput, Validates)
    BY <2>2 DEF TextInv, InUse
  <2>4. cap \in Nat
    <3>1. ws.maxOutput \in Nat
      BY <2>3, ReferenceTextTyped DEF Complete, PackInv, Typed
    <3> QED BY <2>1, <3>1, PipelineAssumption DEF Capacity
  <2>5. Complete(batch', ws'.strings, ws'.stringsPlain, ws'.maxOutput, Validates')
    BY <2>2, <2>3 DEF Validates
  <2>6. CASE BadArguments(ViewOf(ws), cap)
    <3>1. w' = Writer(<<>>, cap, "INVALID_ARGUMENT") /\ stage' = "returned"
      BY <2>1, <2>6 DEF Enter
    <3>2. w'.cap = cap
      BY <3>1 DEF Writer
    <3> QED BY <2>2, <2>4, <2>5, <3>1, <3>2 DEF TextInv, InUse, EncodesReference
  <2>7. CASE ~BadArguments(ViewOf(ws), cap)
    <3>1. w' = Started(ViewOf(ws), cap) /\ stage' = "orders"
      BY <2>1, <2>7, Zenon DEF Enter, Started
    <3>2. w'.cap = cap
      BY <3>1, StartedIs, StartedCap
    <3> QED BY <2>2, <2>4, <2>5, <3>1, <3>2 DEF TextInv, InUse, EncodesReference
  <2> QED BY <2>6, <2>7
<1>8. CASE EncodeStep
  <2>1. NativeStep /\ phase = "encode" /\ UNCHANGED packVars
    BY <1>8 DEF EncodeStep
  <2>2. stage = "orders" /\ view' = view /\ stage' \in {"orders", "returned"}
    BY <2>1, Zenon DEF NativeStep, BeginOrder, CallOperation, LeaveLoop
  <2>3. w'.cap = w.cap
    BY <2>1, NativeKeepsCap DEF EncodeInv
  <2>4. ~BadArguments(view, w.cap)
    BY <2>2 DEF EncodeInv, AgreeInv
  <2>5. Complete(batch', ws'.strings, ws'.stringsPlain, ws'.maxOutput, Validates')
    BY <2>1 DEF TextInv, InUse, packVars, Validates
  <2>6. phase' = "encode"
    BY <2>1 DEF packVars
  <2> QED BY <2>1, <2>2, <2>3, <2>4, <2>5, <2>6 DEF TextInv, EncodesReference
<1>9. CASE Encoded
  <2>1. /\ phase = "encode" /\ phase' = "done" /\ stage = "returned" /\ UNCHANGED nativeVars
        /\ ws' = ws /\ batch' = batch /\ entry' = entry
    BY <1>9 DEF Encoded
  <2>2. stage' = stage /\ w' = w /\ view' = view
    BY <2>1 DEF nativeVars
  <2>3. Complete(batch', ws'.strings, ws'.stringsPlain, ws'.maxOutput, Validates')
    BY <2>1 DEF TextInv, InUse, Validates
  <2>4. EncodesReference'
    BY <1>9, EncodedText
  <2> QED BY <2>1, <2>2, <2>3, <2>4 DEF TextInv
<1>10. CASE MarshalAgain
  <2>1. /\ phase = "done" /\ phase' = "packed" /\ stage = "returned" /\ stage' = "outside"
        /\ ws' = ws /\ batch' = batch /\ entry' = entry
    BY <1>10 DEF MarshalAgain, Exit
  <2>2. Complete(batch', ws'.strings, ws'.stringsPlain, ws'.maxOutput, Validates')
    BY <2>1 DEF TextInv, InUse, Validates
  <2> QED BY <2>1, <2>2 DEF TextInv, EncodesReference
<1>11. CASE Finish
  <2>1. phase' = "idle" /\ stage' = "outside"
    <3>1. phase = "done" /\ phase' = "idle"
      BY <1>11 DEF Finish
    <3>2. stage = "returned" => stage' = "outside"
      BY <1>11 DEF Finish, Exit
    <3>3. stage # "returned" => stage' = stage
      BY <1>11 DEF Finish, nativeVars
    <3>4. stage # "returned" => stage = "outside"
      BY <1>1, <3>1 DEF EncodeInv
    <3> QED BY <3>1, <3>2, <3>3, <3>4
  <2> QED BY <2>1 DEF TextInv, InUse, EncodesReference
<1>12. CASE UNCHANGED vars
  BY <1>12 DEF vars, packVars, nativeVars, TextInv, InUse, EncodesReference, Exact, Capacity,
               Validates
<1> QED BY <1>2, <1>3, <1>4, <1>5, <1>6, <1>7, <1>8, <1>9, <1>10, <1>11, <1>12 DEF Next

(* Packing, encoding and the texts together.                               *)
LEMMA TextInvariance == Spec => [](PackInv /\ EncodeInv /\ TextInv)
BY PackInitially, PackInvStep, EncodeInitially, EncodeInvStep, TextInitially, TextStep, PTL
   DEF Spec

(* For any batch, any buffer and either back end, the native encoder has   *)
(* written inside the buffer, a prefix of the reference encoder's text,    *)
(* and answers OK exactly when it is the whole of it                       *)
(* (writer_linux_amd64.c:32-51).                                           *)
THEOREM WritesOnlyAPrefix == Spec => []WritesPrefix
<1>1. PackInv /\ EncodeInv /\ TextInv => WritesPrefix
  BY BeginningWritten
<1> QED BY <1>1, TextInvariance, PTL

(* A batch that was packed is encoded without an error, and its text is    *)
(* the reference encoder's, for any batches, any history of the pooled     *)
(* workspace and either back end (encoder.go:89-98).                       *)
THEOREM EncodesTheReference == Spec => []EncodesReference
<1>1. TextInv => EncodesReference
  BY DEF TextInv
<1> QED BY <1>1, TextInvariance, PTL

(* The buffer of MarshalReference is allocated once, at its final size: the *)
(* estimate is what packing has added up (packed.go:307-444).               *)
THEOREM EstimatesExactly == Spec => []EstimateExact
<1>1. PackInv /\ TextInv => EstimateExact
  <2> SUFFICES ASSUME PackInv, TextInv, phase = "packed", Validates
               PROVE  Estimate(batch) = [size |-> ws.maxOutput, err |-> "none"]
    BY DEF EstimateExact
  <2>1. Complete(batch, ws.strings, ws.stringsPlain, ws.maxOutput, Validates)
    BY Zenon DEF TextInv, InUse
  <2>2. BatchValid(batch, TRUE)
    <3>1. PICK v : v = Validates /\ v = TRUE
      BY Zenon DEF Validates
    <3> QED BY <2>1, <3>1, Zenon DEF Complete
  <2>3. batch \in Batch
    BY DEF PackInv, Typed
  <2> QED BY <2>1, <2>2, <2>3, EstimateIs, Zenon DEF Complete
<1> QED BY <1>1, TextInvariance, PTL

-----------------------------------------------------------------------------
(* The validity that the walks over the tables have checked, as a fact     *)
(* about the strings: v says of a sequence of strings whether all of them  *)
(* are UTF-8.                                                              *)
AllUTF8(values) == \A i \in 1 .. Len(values) : StringValid(values[i], TRUE)

Says(values, v) ==
  /\ values \in Seq(Strs)
  /\ v \in BOOLEAN
  /\ AllUTF8(values) <=> v

LEMMA NothingSays == Says(<<>>, TRUE)
BY DEF Says, AllUTF8

LEMMA SaysOfBoth ==
  ASSUME NEW x, NEW y, NEW u, NEW v, Says(x, u), Says(y, v)
  PROVE  Says(x \o y, u /\ v)
<1>1. x \in Seq(Strs) /\ y \in Seq(Strs) /\ u \in BOOLEAN /\ v \in BOOLEAN
  BY DEF Says
<1>2. PICK m \in Nat, n \in Nat : m = Len(x) /\ n = Len(y)
  BY <1>1
<1>3. PICK z : z = x \o y
  BY Zenon
<1>4. /\ z \in Seq(Strs) /\ Len(z) = m + n
      /\ \A i \in 1 .. m : z[i] = x[i]
      /\ \A i \in 1 .. n : z[m + i] = y[i]
  BY <1>1, <1>2, <1>3
<1>5. ASSUME AllUTF8(z) PROVE u /\ v
  <2>1. AllUTF8(x)
    <3>1. ASSUME NEW i \in 1 .. m PROVE StringValid(x[i], TRUE)
      <4>1. i \in 1 .. m + n
        BY <1>2
      <4> QED BY <1>4, <1>5, <4>1, Zenon DEF AllUTF8
    <3> QED BY <1>2, <3>1, Zenon DEF AllUTF8
  <2>2. AllUTF8(y)
    <3>1. ASSUME NEW i \in 1 .. n PROVE StringValid(y[i], TRUE)
      <4>1. m + i \in 1 .. m + n
        BY <1>2
      <4> QED BY <1>4, <1>5, <4>1, Zenon DEF AllUTF8
    <3> QED BY <1>2, <3>1, Zenon DEF AllUTF8
  <2> QED BY <2>1, <2>2 DEF Says
<1>6. ASSUME u, v PROVE AllUTF8(z)
  <2>1. AllUTF8(x) /\ AllUTF8(y)
    BY <1>6 DEF Says
  <2>2. ASSUME NEW k \in 1 .. m + n PROVE StringValid(z[k], TRUE)
    <3>1. CASE k \in 1 .. m
      BY <1>2, <1>4, <2>1, <3>1, Zenon DEF AllUTF8
    <3>2. CASE k \notin 1 .. m
      <4>1. PICK i \in 1 .. n : k = m + i
        <5>1. k - m \in 1 .. n /\ k = m + (k - m)
          BY <1>2, <3>2
        <5> QED BY <5>1
      <4> QED BY <1>2, <1>4, <2>1, <4>1, Zenon DEF AllUTF8
    <3> QED BY <3>1, <3>2, Zenon
  <2> QED BY <1>4, <2>2, Zenon DEF AllUTF8
<1> QED BY <1>1, <1>3, <1>4, <1>5, <1>6 DEF Says

LEMMA SaysOfOne ==
  ASSUME NEW a \in Strs
  PROVE  Says(<<a>>, StringValid(a, TRUE))
<1>1. PICK x : x = <<a>>
  BY Zenon
<1>2. x \in Seq(Strs) /\ Len(x) = 1 /\ x[1] = a
  BY <1>1
<1>3. AllUTF8(x) <=> StringValid(a, TRUE)
  <2>1. 1 \in 1 .. 1 /\ \A i \in 1 .. 1 : i = 1
    OBVIOUS
  <2> QED BY <1>2, <2>1, Zenon DEF AllUTF8
<1> QED BY <1>1, <1>2, <1>3, ValidTyped, Zenon DEF Says

LEMMA SaysOfTwo ==
  ASSUME NEW a \in Strs, NEW b \in Strs
  PROVE  Says(<<a, b>>, StringValid(a, TRUE) /\ StringValid(b, TRUE))
<1>1. PICK x : x = <<a, b>>
  BY Zenon
<1>2. x \in Seq(Strs) /\ Len(x) = 2 /\ x[1] = a /\ x[2] = b
  BY <1>1
<1>3. AllUTF8(x) <=> StringValid(a, TRUE) /\ StringValid(b, TRUE)
  <2>1. \A i \in 1 .. 2 : i = 1 \/ i = 2
    OBVIOUS
  <2>2. 1 \in 1 .. 2 /\ 2 \in 1 .. 2
    OBVIOUS
  <2> QED BY <1>2, <2>1, <2>2, Zenon DEF AllUTF8
<1> QED BY <1>1, <1>2, <1>3, Zenon DEF Says

EightValid(a, b, c, d, p, q, r, s) ==
  /\ StringValid(a, TRUE) /\ StringValid(b, TRUE) /\ StringValid(c, TRUE)
  /\ StringValid(d, TRUE) /\ StringValid(p, TRUE) /\ StringValid(q, TRUE)
  /\ StringValid(r, TRUE) /\ StringValid(s, TRUE)

LEMMA SaysOfEight ==
  ASSUME NEW a \in Strs, NEW b \in Strs, NEW c \in Strs, NEW d \in Strs,
         NEW p \in Strs, NEW q \in Strs, NEW r \in Strs, NEW s \in Strs
  PROVE  Says(<<a, b, c, d, p, q, r, s>>, EightValid(a, b, c, d, p, q, r, s))
<1>1. PICK x : x = <<a, b, c, d, p, q, r, s>>
  BY Zenon
<1>2. /\ x \in Seq(Strs) /\ Len(x) = 8 /\ x[1] = a /\ x[2] = b /\ x[3] = c /\ x[4] = d
      /\ x[5] = p /\ x[6] = q /\ x[7] = r /\ x[8] = s
  BY <1>1
<1>3. \A i \in 1 .. 8 : \/ i = 1 \/ i = 2 \/ i = 3 \/ i = 4
                        \/ i = 5 \/ i = 6 \/ i = 7 \/ i = 8
  OBVIOUS
<1>4. /\ 1 \in 1 .. 8 /\ 2 \in 1 .. 8 /\ 3 \in 1 .. 8 /\ 4 \in 1 .. 8
      /\ 5 \in 1 .. 8 /\ 6 \in 1 .. 8 /\ 7 \in 1 .. 8 /\ 8 \in 1 .. 8
  OBVIOUS
<1>5. AllUTF8(x) <=> \A i \in 1 .. 8 : StringValid(x[i], TRUE)
  BY <1>2 DEF AllUTF8
<1>6. AllUTF8(x) <=>
        /\ StringValid(x[1], TRUE) /\ StringValid(x[2], TRUE) /\ StringValid(x[3], TRUE)
        /\ StringValid(x[4], TRUE) /\ StringValid(x[5], TRUE) /\ StringValid(x[6], TRUE)
        /\ StringValid(x[7], TRUE) /\ StringValid(x[8], TRUE)
  BY <1>3, <1>4, <1>5, Zenon
<1> QED BY <1>1, <1>2, <1>6, Zenon DEF Says, EightValid

(* Strings in a sequence of sequences, as many as the items.               *)
LEMMA SaysOfFlat ==
  ASSUME NEW n \in Nat, NEW seqs, Len(seqs) = n, DOMAIN seqs = 1 .. n,
         seqs = [k \in 1 .. n |-> seqs[k]],
         NEW valid, \A k \in 1 .. n : Says(seqs[k], valid[k])
  PROVE  Says(FlattenSeq(seqs), AllValid(valid, n))
<1>1. \A k \in 1 .. n : seqs[k] \in Seq(Strs)
  BY DEF Says
<1>2. PICK h : Concatenates(h, n, seqs, Strs)
  BY <1>1, Concatenations, Zenon
<1>3. FlattenSeq(seqs) = h[n]
  BY <1>1, <1>2, FlattenIs
<1> DEFINE T == {m \in Nat : m <= n => Says(h[m], AllValid(valid, m))}
<1>4. 0 \in T
  <2>1. AllValid(valid, 0) = TRUE
    BY DEF AllValid
  <2>2. h[0] = <<>>
    BY <1>2 DEF Concatenates
  <2> QED BY <2>1, <2>2, NothingSays, Zenon
<1>5. ASSUME NEW m \in Nat, m \in T PROVE m + 1 \in T
  <2> SUFFICES ASSUME m + 1 <= n PROVE Says(h[m + 1], AllValid(valid, m + 1))
    OBVIOUS
  <2>1. m + 1 \in 1 .. n /\ (m + 1) - 1 = m /\ Says(h[m], AllValid(valid, m))
    BY <1>5
  <2>2. h[m + 1] = h[m] \o seqs[m + 1]
    BY <1>2, <2>1, Zenon DEF Concatenates
  <2>3. Says(h[m] \o seqs[m + 1], AllValid(valid, m) /\ valid[m + 1])
    BY <2>1, SaysOfBoth, Zenon
  <2>4. AllValid(valid, m + 1) = (AllValid(valid, m) /\ valid[m + 1])
    <3>1. valid[m + 1] \in BOOLEAN
      BY <2>1 DEF Says
    <3>2. \A k \in 1 .. m + 1 : k \in 1 .. m \/ k = m + 1
      OBVIOUS
    <3>3. m + 1 \in 1 .. m + 1 /\ \A k \in 1 .. m : k \in 1 .. m + 1
      OBVIOUS
    <3> QED BY <3>1, <3>2, <3>3, Zenon DEF AllValid
  <2> QED BY <2>2, <2>3, <2>4
<1>6. Nat \subseteq T
  <2> HIDE DEF T
  <2> QED BY <1>4, <1>5, Induction
<1>7. Says(h[n], AllValid(valid, n))
  BY <1>6
<1> QED BY <1>3, <1>7

(* The strings of an item, those of the items and those of an order: the   *)
(* walk over the table checks them all, and no other value.                *)
LEMMA ItemSays ==
  ASSUME NEW item \in Item
  PROVE  Says(<< item.sku, item.title >>, ItemValid(item, TRUE))
<1>1. PICK u \in Strs, v \in Strs : u = item["sku"] /\ v = item["title"]
  BY ItemIs DEF Strs
<1>2. Says(<<u, v>>, StringValid(u, TRUE) /\ StringValid(v, TRUE))
  BY <1>1, SaysOfTwo, Zenon
<1>3. ASSUME NEW k \in 1 .. 9
      PROVE  ItemValidity(item, TRUE)[k] = StepValid(PackItemTable[k], item, TRUE)
  BY Zenon DEF ItemValidity
<1>4. ItemValidity(item, TRUE)[2] = StringValid(u, TRUE)
  <2>1. PICK step : step = PackItemTable[2]
    OBVIOUS
  <2>2. step.kind = "string" /\ step.arg = "sku"
    BY <2>1, PackItemTableIs DEF Str
  <2>3. StepValid(step, item, TRUE) = StringValid(item[step.arg], TRUE)
    BY <2>2, ValidTyped, Zenon
  <2>4. 2 \in 1 .. 9
    OBVIOUS
  <2>5. ItemValidity(item, TRUE)[2] = StepValid(step, item, TRUE)
    BY <1>3, <2>1, <2>4, Zenon
  <2> QED BY <1>1, <2>2, <2>3, <2>5, Zenon
<1>5. ItemValidity(item, TRUE)[4] = StringValid(v, TRUE)
  <2>1. PICK step : step = PackItemTable[4]
    OBVIOUS
  <2>2. step.kind = "string" /\ step.arg = "title"
    BY <2>1, PackItemTableIs DEF Str
  <2>3. StepValid(step, item, TRUE) = StringValid(item[step.arg], TRUE)
    BY <2>2, ValidTyped, Zenon
  <2>4. 4 \in 1 .. 9
    OBVIOUS
  <2>5. ItemValidity(item, TRUE)[4] = StepValid(step, item, TRUE)
    BY <1>3, <2>1, <2>4, Zenon
  <2> QED BY <1>1, <2>2, <2>3, <2>5, Zenon
<1>6. ASSUME NEW k \in 1 .. 9, k # 2, k # 4
      PROVE  ItemValidity(item, TRUE)[k] = TRUE
  <2>1. PackItemTable[k].kind \notin {"string", "nullable"}
    BY <1>6, PackItemTableIs
  <2>2. StepValid(PackItemTable[k], item, TRUE) = TRUE
    BY <2>1, ValidTyped, Zenon
  <2> QED BY <1>3, <2>2, Zenon
<1>7. ItemValid(item, TRUE) <=> StringValid(u, TRUE) /\ StringValid(v, TRUE)
  <2>1. PICK valid : valid = ItemValidity(item, TRUE)
    BY Zenon
  <2>2. ItemValid(item, TRUE) <=> \A k \in 1 .. 9 : valid[k]
    BY <2>1 DEF ItemValid, AllValid
  <2>3. 2 \in 1 .. 9 /\ 4 \in 1 .. 9
    OBVIOUS
  <2>4. \A k \in 1 .. 9 : k # 2 /\ k # 4 => valid[k] = TRUE
    BY <1>6, <2>1, Zenon
  <2>5. valid[2] = StringValid(u, TRUE) /\ valid[4] = StringValid(v, TRUE)
    BY <1>4, <1>5, <2>1, Zenon
  <2>6. (\A k \in 1 .. 9 : valid[k]) <=> valid[2] /\ valid[4]
    BY <2>3, <2>4
  <2> QED BY <2>2, <2>5, <2>6, Zenon
<1>8. ItemValid(item, TRUE) = (StringValid(u, TRUE) /\ StringValid(v, TRUE))
  BY <1>7, ValidityTyped, Zenon
<1> QED BY <1>1, <1>2, <1>8, Zenon

LEMMA ItemsSay ==
  ASSUME NEW order \in Order
  PROVE  Says(IF order.items = Nil THEN <<>>
              ELSE FlattenSeq([i \in 1 .. Len(order.items) |->
                                 << order.items[i].sku, order.items[i].title >>]),
              ItemsValid(order.items, TRUE))
<1>1. CASE order.items = Nil
  <2>1. ItemsValid(order.items, TRUE) = TRUE
    BY <1>1 DEF ItemsValid
  <2> QED BY <1>1, <2>1, NothingSays, Zenon
<1>2. CASE order.items # Nil
  <2>1. PICK items \in Seq(Item) : items = order["items"]
    BY <1>2, OrderIs
  <2>2. PICK n \in Nat : n = Len(items)
    OBVIOUS
  <2>3. PICK seqs : seqs = [i \in 1 .. n |-> << items[i].sku, items[i].title >>]
    BY Zenon
  <2>4. PICK valid : valid = ItemsValidity(items, TRUE)
    BY Zenon
  <2>5. ASSUME NEW i \in 1 .. n PROVE Says(seqs[i], valid[i])
    <3>1. PICK item \in Item : item = items[i]
      BY <2>2
    <3>2. seqs[i] = << item.sku, item.title >>
      BY <2>3, <3>1
    <3>3. valid[i] = ItemValid(item, TRUE)
      BY <2>2, <2>4, <3>1 DEF ItemsValidity
    <3> QED BY <3>2, <3>3, ItemSays, Zenon
  <2>6. Len(seqs) = n /\ DOMAIN seqs = 1 .. n /\ seqs = [k \in 1 .. n |-> seqs[k]]
    BY <2>3
  <2>7. Says(FlattenSeq(seqs), AllValid(valid, n))
    BY <2>5, <2>6, SaysOfFlat
  <2>8. ItemsValid(items, TRUE) = AllValid(valid, n)
    <3>1. items # Nil
      BY <1>2, <2>1
    <3>2. PICK all : all = AllValid(valid, n)
      OBVIOUS
    <3>3. all \in BOOLEAN
      BY <3>2 DEF AllValid
    <3> QED BY <2>2, <2>4, <3>1, <3>2, <3>3, Zenon DEF ItemsValid
  <2> QED BY <1>2, <2>1, <2>2, <2>3, <2>7, <2>8, Zenon
<1> QED BY <1>1, <1>2, Zenon

LEMMA OrderSays ==
  ASSUME NEW order \in Order
  PROVE  Says(Strings(order), OrderValid(order, TRUE))
<1>1. PICK a \in Strs, b \in Strs, c \in Strs, d \in Strs,
           p \in Strs, q \in Strs, r \in Strs, s \in Strs :
        /\ a = order["orderID"] /\ b = order["createdAt"] /\ c = order["status"]
        /\ d = order["paymentMethod"] /\ p = order["buyerName"] /\ q = order["city"]
        /\ r = order["address"] /\ s = order["remark"]
  BY OrderIs DEF Strs, OrderStrings
<1>2. PICK x : x = <<a, b, c, d, p, q, r, s>>
  BY Zenon
<1>3. PICK eight : eight = EightValid(a, b, c, d, p, q, r, s)
  OBVIOUS
<1>4. Says(x, eight)
  <2>1. Says(<<a, b, c, d, p, q, r, s>>, EightValid(a, b, c, d, p, q, r, s))
    BY SaysOfEight, ZenonT(60)
  <2> QED BY <1>2, <1>3, <2>1, Zenon
<1>5. PICK y : y = IF order.trackingNo = Nil THEN <<>> ELSE << order.trackingNo >>
  BY Zenon
<1>6. PICK valid : valid = OrderValidity(order, TRUE)
  BY Zenon
<1>7. ASSUME NEW k \in 1 .. 25
      PROVE  /\ valid[k] = RowStepValid(PackTable[k], order, TRUE)
             /\ PackTable[k].kind # "items" =>
                  valid[k] = StepValid(PackTable[k], order, TRUE)
  <2>1. valid[k] = RowStepValid(PackTable[k], order, TRUE)
    BY <1>6, Zenon DEF OrderValidity
  <2> QED BY <2>1, Zenon DEF RowStepValid
<1>8. ASSUME NEW k \in 1 .. 25, NEW field, PackTable[k] = Str(field)
      PROVE  valid[k] = StringValid(order[field], TRUE)
  <2>1. PackTable[k].kind = "string" /\ PackTable[k].arg = field
    BY <1>8 DEF Str
  <2> QED BY <1>7, <2>1, ValidTyped, Zenon
<1>9. /\ valid[2] = StringValid(a, TRUE) /\ valid[4] = StringValid(b, TRUE)
      /\ valid[6] = StringValid(c, TRUE) /\ valid[8] = StringValid(d, TRUE)
  <2>1. 2 \in 1 .. 25 /\ 4 \in 1 .. 25 /\ 6 \in 1 .. 25 /\ 8 \in 1 .. 25
    OBVIOUS
  <2>2. /\ valid[2] = StringValid(order["orderID"], TRUE)
        /\ valid[4] = StringValid(order["createdAt"], TRUE)
        /\ valid[6] = StringValid(order["status"], TRUE)
        /\ valid[8] = StringValid(order["paymentMethod"], TRUE)
    BY <1>8, <2>1, PackTableFills, Zenon
  <2> QED BY <1>1, <2>2
<1>10. /\ valid[14] = StringValid(p, TRUE) /\ valid[16] = StringValid(q, TRUE)
       /\ valid[18] = StringValid(r, TRUE) /\ valid[24] = StringValid(s, TRUE)
  <2>1. 14 \in 1 .. 25 /\ 16 \in 1 .. 25 /\ 18 \in 1 .. 25 /\ 24 \in 1 .. 25
    OBVIOUS
  <2>2. /\ valid[14] = StringValid(order["buyerName"], TRUE)
        /\ valid[16] = StringValid(order["city"], TRUE)
        /\ valid[18] = StringValid(order["address"], TRUE)
        /\ valid[24] = StringValid(order["remark"], TRUE)
    BY <1>8, <2>1, PackTableFills, Zenon
  <2> QED BY <1>1, <2>2
<1>11. Says(y, valid[20])
  <2>0. PICK step : step = PackTable[20]
    OBVIOUS
  <2>1. step.kind = "nullable" /\ step.arg = "trackingNo"
    BY <2>0, PackTableFills DEF Nullable
  <2>2. valid[20] = StepValid(step, order, TRUE)
    <3>1. 20 \in 1 .. 25
      OBVIOUS
    <3> QED BY <1>7, <2>0, <2>1, <3>1, Zenon
  <2>3. CASE order["trackingNo"] = Nil
    <3>1. valid[20] = TRUE
      BY <2>1, <2>2, <2>3, ValidTyped, Zenon
    <3> QED BY <1>5, <2>3, <3>1, NothingSays, Zenon
  <2>4. CASE order["trackingNo"] # Nil
    <3>1. PICK t \in Strs : t = order["trackingNo"]
      BY <2>4, OrderIs DEF Strs
    <3>2. y = <<t>>
      BY <1>5, <2>4, <3>1
    <3>3. valid[20] = StringValid(t, TRUE)
      <4>1. order[step.arg] = t /\ order[step.arg] # Nil
        BY <2>1, <2>4, <3>1
      <4>2. StepValid(step, order, TRUE) = StringValid(order[step.arg], TRUE)
        BY <2>1, <4>1, ValidTyped, Zenon
      <4> QED BY <2>2, <4>1, <4>2, Zenon
    <3> QED BY <3>2, <3>3, SaysOfOne, Zenon
  <2> QED BY <2>3, <2>4
<1>12. PICK z : z = IF order.items = Nil THEN <<>>
                    ELSE FlattenSeq([i \in 1 .. Len(order.items) |->
                                       << order.items[i].sku, order.items[i].title >>])
  BY Zenon
<1>13. Says(z, valid[22])
  <2>1. PackTable[22].kind = "items"
    BY PackTableFills DEF ItemList
  <2>2. valid[22] = ItemsValid(order.items, TRUE)
    <3>1. 22 \in 1 .. 25
      OBVIOUS
    <3>2. valid[22] = RowStepValid(PackTable[22], order, TRUE)
      BY <1>7, <3>1, Zenon
    <3> QED BY <2>1, <3>2 DEF RowStepValid
  <2> QED BY <1>12, <2>2, ItemsSay, Zenon
<1>14. ASSUME NEW k \in {1, 3, 5, 7, 9, 10, 11, 12, 13, 15, 17, 19, 21, 23, 25}
       PROVE  valid[k] = TRUE
  <2>1. PackTable[k].kind \in {"literal", "bool", "int"}
    BY PackTableOthers
  <2>2. k \in 1 .. 25
    OBVIOUS
  <2>3. valid[k] = StepValid(PackTable[k], order, TRUE)
    BY <1>7, <2>1, <2>2, Zenon
  <2> QED BY <2>1, <2>3, ValidTyped, Zenon
<1>15. Says((x \o y) \o z, (eight /\ valid[20]) /\ valid[22])
  <2>1. PICK xy, both : xy = x \o y /\ both = (eight /\ valid[20])
    BY Zenon
  <2>2. Says(xy, both)
    BY <1>4, <1>11, <2>1, SaysOfBoth, Zenon
  <2>3. Says(xy \o z, both /\ valid[22])
    BY <1>13, <2>2, SaysOfBoth, Zenon
  <2> QED BY <2>1, <2>3, Zenon
<1>16. Strings(order) = (x \o y) \o z
  <2>1. x = << order.orderID, order.createdAt, order.status, order.paymentMethod,
               order.buyerName, order.city, order.address, order.remark >>
    BY <1>1, <1>2
  <2> QED BY <1>5, <1>12, <2>1, Zenon DEF Strings
<1>17. AllValid(valid, 25) <=>
         /\ valid[2] /\ valid[4] /\ valid[6] /\ valid[8] /\ valid[14] /\ valid[16]
         /\ valid[18] /\ valid[24] /\ valid[20] /\ valid[22]
  <2>1. ASSUME NEW k \in 1 .. 25
        PROVE  \/ k \in {1, 3, 5, 7, 9, 10, 11, 12, 13, 15, 17, 19, 21, 23, 25}
               \/ k \in {2, 4, 6, 8, 14, 16, 18, 20, 22, 24}
    OBVIOUS
  <2>2. ASSUME NEW k \in {2, 4, 6, 8, 14, 16, 18, 20, 22, 24} PROVE k \in 1 .. 25
    OBVIOUS
  <2>3. AllValid(valid, 25) <=> \A k \in {2, 4, 6, 8, 14, 16, 18, 20, 22, 24} : valid[k]
    BY <1>14, <2>1, <2>2, Zenon DEF AllValid
  <2> QED BY <2>3
<1>18. AllValid(valid, 25) <=> (eight /\ valid[20]) /\ valid[22]
  BY <1>3, <1>9, <1>10, <1>17, Zenon DEF EightValid
<1>19. OrderValid(order, TRUE) = ((eight /\ valid[20]) /\ valid[22])
  <2>1. OrderValid(order, TRUE) <=> AllValid(valid, 25)
    BY <1>6 DEF OrderValid
  <2> QED BY <1>18, <2>1, ValidityTyped, Zenon
<1> QED BY <1>15, <1>16, <1>19, Zenon

(* Not asked to validate, they accept every string.                        *)
LEMMA NothingRefused ==
  ASSUME NEW b
  PROVE  BatchValid(b, FALSE)
<1>1. \A step, from : StepValid(step, from, FALSE) = TRUE
  BY DEF StepValid, StringValid
<1>2. \A item : ItemValid(item, FALSE)
  BY <1>1, Zenon DEF ItemValid, ItemValidity, AllValid
<1>3. \A items : ItemsValid(items, FALSE) = TRUE
  BY <1>2, Zenon DEF ItemsValid, ItemsValidity, AllValid
<1>4. \A step, order : RowStepValid(step, order, FALSE)
  BY <1>1, <1>3, Zenon DEF RowStepValid
<1>5. \A order : OrderValid(order, FALSE)
  BY <1>4, Zenon DEF OrderValid, OrderValidity, AllValid
<1> QED BY <1>5, Zenon DEF BatchValid, OrdersValidity, AllValid

(* The validity of a batch is what the refusals ask about.                 *)
LEMMA BatchSays ==
  ASSUME NEW b \in Batch
  PROVE  BatchValid(b, TRUE) <=>
           \A i \in 1 .. Len(IF b = Nil THEN <<>> ELSE b) :
             \A s \in ToSet(Strings((IF b = Nil THEN <<>> ELSE b)[i])) : ValidUTF8(s)
<1>1. ASSUME NEW order \in Order
      PROVE  OrderValid(order, TRUE) <=> \A s \in ToSet(Strings(order)) : ValidUTF8(s)
  <2>1. PICK values : values = Strings(order)
    OBVIOUS
  <2>2. values \in Seq(Strs) /\ (AllUTF8(values) <=> OrderValid(order, TRUE))
    BY <2>1, OrderSays, Zenon DEF Says
  <2>3. ToSet(values) = {values[i] : i \in 1 .. Len(values)}
    BY <2>2 DEF ToSet
  <2>4. AllUTF8(values) <=> \A i \in 1 .. Len(values) : ValidUTF8(values[i])
    BY DEF AllUTF8, StringValid
  <2> QED BY <2>1, <2>2, <2>3, <2>4, Zenon
<1>2. CASE b = Nil
  BY <1>2 DEF BatchValid
<1>3. CASE b # Nil
  <2>1. b \in Seq(Order)
    BY <1>3 DEF Batch
  <2>2. \A i \in 1 .. Len(b) : b[i] \in Order
    BY <2>1
  <2>3. BatchValid(b, TRUE) <=> \A i \in 1 .. Len(b) : OrderValid(b[i], TRUE)
    BY <1>3, Zenon DEF BatchValid, OrdersValidity, AllValid
  <2> QED BY <1>1, <1>3, <2>2, <2>3, Zenon
<1> QED BY <1>2, <1>3, Zenon

(* What the reference encoder may answer for a batch that it checks.       *)
LEMMA ReferenceAnswers ==
  ASSUME NEW b \in Batch
  PROVE  /\ MarshalReference(b).err = "none" =>
              BatchValid(b, TRUE) /\ Len(ReferenceText(b)) <= MaxInt
         /\ MarshalReference(b).err # "none" =>
              \/ MarshalReference(b).err = "ErrInvalidUTF8" /\ ~BatchValid(b, TRUE)
              \/ MarshalReference(b).err = "ErrOutputTooLarge"
                   /\ MaxInt < Len(ReferenceText(b))
<1>1. PICK x : x = Estimate(b)
  OBVIOUS
<1>2. MarshalReference(b).err = x.err
  BY <1>1 DEF MarshalReference
<1>3. x.err \in {"none", "ErrInvalidUTF8", "ErrOutputTooLarge"}
  BY <1>1, EstimateIs, Zenon
<1> QED BY <1>1, <1>2, <1>3, EstimateIs, Zenon

(* The three reasons, as conditions.                                       *)
LEMMA RefusalsAre ==
  ASSUME PackInv
  PROVE  /\ Refusals \subseteq {"ErrInvalidUTF8", "ErrPackedTooLarge", "ErrOutputTooLarge"}
         /\ "ErrInvalidUTF8" \in Refusals <=> ~BatchValid(batch, Validates)
         /\ "ErrPackedTooLarge" \in Refusals <=> CapacityError(batch) # "none"
         /\ "ErrOutputTooLarge" \in Refusals <=> MaxInt < Len(ReferenceText(batch))
         /\ Validates \in BOOLEAN
<1>1. batch \in Batch
  BY DEF PackInv, Typed
<1>2. PICK v \in BOOLEAN : v = Validates
  BY Zenon DEF Validates
<1>3. PICK valid \in BOOLEAN :
        valid = \A i \in 1 .. Len(IF batch = Nil THEN <<>> ELSE batch) :
                  \A s \in ToSet(Strings((IF batch = Nil THEN <<>> ELSE batch)[i])) :
                    ValidUTF8(s)
  BY Zenon
<1>4. BatchValid(batch, TRUE) <=> valid
  BY <1>1, <1>3, BatchSays, Zenon
<1>5. v /\ ~valid <=> ~BatchValid(batch, v)
  <2>1. CASE v = TRUE
    BY <1>4, <2>1, Zenon
  <2>2. CASE v = FALSE
    BY <2>2, NothingRefused, Zenon
  <2> QED BY <1>2, <2>1, <2>2, Zenon
<1>6. PICK n \in Nat, big \in Nat : n = Len(ReferenceText(batch)) /\ big = MaxInt
  BY <1>1, ReferenceTextTyped, LimitsAssumption
<1>7. PICK e : e = CapacityError(batch)
  OBVIOUS
<1>8. Refusals = (IF v /\ ~valid THEN {"ErrInvalidUTF8"} ELSE {})
                   \cup (IF e # "none" THEN {"ErrPackedTooLarge"} ELSE {})
                   \cup (IF n > big THEN {"ErrOutputTooLarge"} ELSE {})
  BY <1>2, <1>3, <1>6, <1>7, Zenon DEF Refusals
<1>9. n > big <=> big < n
  OBVIOUS
<1> QED BY <1>2, <1>5, <1>6, <1>7, <1>8, <1>9

(* Packing refuses a batch only for one of the three reasons and packs it  *)
(* only without one, whatever the batch, and MarshalReference agrees with  *)
(* it about every batch but one too large for uint32 alone: the running    *)
(* checks agree with the totals (packed.go:185, 252-305, 315, 337-344).    *)
THEOREM RefusesForAReason == Spec => []RefusesExactly
<1>1. PackInv /\ TextInv => RefusesExactly
  <2> SUFFICES ASSUME PackInv, TextInv, phase = "done"
               PROVE  /\ IF stage = "returned" THEN Refusals = {} ELSE result.err \in Refusals
                      /\ Validates => MarshalReference(batch).err \in
                           IF Refusals \subseteq {"ErrPackedTooLarge"} THEN {"none"}
                           ELSE Refusals
    BY DEF RefusesExactly
  <2>1. batch \in Batch
    BY DEF PackInv, Typed
  <2>2. PICK n \in Nat, big \in Nat : n = Len(ReferenceText(batch)) /\ big = MaxInt
    BY <2>1, ReferenceTextTyped, LimitsAssumption
  <2>3. ASSUME stage = "returned" PROVE Refusals = {}
    <3>1. Complete(batch, ws.strings, ws.stringsPlain, ws.maxOutput, Validates)
      BY <2>3 DEF TextInv, InUse
    <3>2. BatchValid(batch, Validates) /\ CapacityError(batch) = "none" /\ n <= big
      BY <2>2, <3>1 DEF Complete
    <3>3. "ErrOutputTooLarge" \notin Refusals
      <4>1. ~(big < n)
        BY <3>2
      <4> QED BY <2>2, <4>1, RefusalsAre
    <3>4. \A reason \in Refusals :
            reason \in {"ErrInvalidUTF8", "ErrPackedTooLarge", "ErrOutputTooLarge"}
      BY RefusalsAre
    <3>5. "ErrInvalidUTF8" \notin Refusals /\ "ErrPackedTooLarge" \notin Refusals
      BY <3>2, RefusalsAre
    <3> QED BY <3>3, <3>4, <3>5
  <2>4. ASSUME stage # "returned" PROVE result.err \in Refusals
    <3>1. RefusedFor(batch, Validates, result.err)
      BY <2>4 DEF TextInv
    <3> QED BY <3>1, RefusalsAre DEF RefusedFor
  <2>5. ASSUME Validates
        PROVE  MarshalReference(batch).err \in
                 IF Refusals \subseteq {"ErrPackedTooLarge"} THEN {"none"} ELSE Refusals
    <3>1. PICK v : v = Validates /\ v = TRUE
      BY <2>5, Zenon DEF Validates
    <3>2. PICK err : err = MarshalReference(batch).err
      OBVIOUS
    <3>3. "ErrInvalidUTF8" \in Refusals <=> ~BatchValid(batch, TRUE)
      BY <3>1, RefusalsAre, Zenon
    <3>4. CASE err = "none"
      <4>1. BatchValid(batch, TRUE) /\ n <= big
        BY <2>1, <2>2, <3>2, <3>4, ReferenceAnswers, Zenon
      <4>2. ~(big < n)
        BY <4>1
      <4>3. Refusals \subseteq {"ErrPackedTooLarge"}
        BY <2>2, <3>3, <4>1, <4>2, RefusalsAre, Zenon
      <4> QED BY <3>2, <3>4, <4>3
    <3>5. CASE err # "none"
      <4>1. \/ err = "ErrInvalidUTF8" /\ ~BatchValid(batch, TRUE)
            \/ err = "ErrOutputTooLarge" /\ MaxInt < Len(ReferenceText(batch))
        BY <2>1, <3>2, <3>5, ReferenceAnswers, Zenon
      <4>2. err \in Refusals /\ err # "ErrPackedTooLarge"
        BY <3>3, <4>1, RefusalsAre, Zenon
      <4> QED BY <3>2, <4>2
    <3> QED BY <3>4, <3>5
  <2> QED BY <2>3, <2>4, <2>5
<1> QED BY <1>1, TextInvariance, PTL
=============================================================================
