----------------------------- MODULE JitProofs ------------------------------
(***************************************************************************)
(* Proofs about the machine code of JitProgram, for every number of orders *)
(* and every eight addresses.  First, where every byte of it is.  Then what *)
(* it does (JitMachine): each operation is called as the ABI asks, the     *)
(* loop gets its registers, its stack and the status back, and running the *)
(* code is calling the operations, in order, once each.  The invariant     *)
(* says, for every offset at which an instruction begins, what the         *)
(* registers and the stack hold there; one step of the processor leads     *)
(* from one such offset to the next.  Last, that a native encoder handed   *)
(* out runs these bytes to the last one, whatever may fail on the way      *)
(* (NativeEncoder).                                                        *)
(***************************************************************************)
EXTENDS JitMachine, NativeEncoder, RecursionLemmas

-----------------------------------------------------------------------------
(* Where every byte of the emitted code is, for every eight addresses of   *)
(* the operations: the prologue, eight calls of 21 bytes, the epilogue,    *)
(* 195 bytes in all (jit_linux_amd64.c:40-79).                             *)
Octets == 0 .. 255

LEMMA OperationCount == Len(Operations) = 8
BY DEF Operations

LEMMA AddressType ==
  ASSUME NEW k \in 1 .. 8
  PROVE  /\ Address[Operations[k]] \in [1 .. 8 -> Octets]
         /\ Address[Operations[k]] \in Seq(Octets)
         /\ Len(Address[Operations[k]]) = 8
<1>1. PICK a : a = Address[Operations[k]]
  OBVIOUS
<1>2. a \in [1 .. 8 -> Octets]
  BY <1>1, AddressAssumption, OperationCount DEF Octets
<1>3. a = [i \in 1 .. 8 |-> a[i]] /\ \A i \in 1 .. 8 : a[i] \in Octets
  BY <1>2
<1>4. a \in Seq(Octets) /\ Len(a) = 8
  BY <1>3
<1> QED BY <1>1, <1>2, <1>4

LEMMA FixedPieces ==
  /\ Prologue \in Seq(Octets) /\ Len(Prologue) = 15
  /\ MoveArguments \in Seq(Octets) /\ Len(MoveArguments) = 9
  /\ MovabsRax \in Seq(Octets) /\ Len(MovabsRax) = 2
  /\ CallRax \in Seq(Octets) /\ Len(CallRax) = 2
  /\ Epilogue \in Seq(Octets) /\ Len(Epilogue) = 12
<1>1. Prologue \in Seq(Octets) /\ Len(Prologue) = 15
  BY DEF Prologue, Octets
<1>2. MoveArguments \in Seq(Octets) /\ Len(MoveArguments) = 9
  BY DEF MoveArguments, Octets
<1>3. MovabsRax \in Seq(Octets) /\ Len(MovabsRax) = 2
  BY DEF MovabsRax, Octets
<1>4. CallRax \in Seq(Octets) /\ Len(CallRax) = 2
  BY DEF CallRax, Octets
<1>5. Epilogue \in Seq(Octets) /\ Len(Epilogue) = 12
  BY DEF Epilogue, Octets
<1> QED BY <1>1, <1>2, <1>3, <1>4, <1>5

(* The 21 bytes of one call.                                               *)
CallCode(k) ==
  LET a == Address[Operations[k]]
  IN  << 76, 137, 231, 76, 137, 238, 76, 137, 242, 72, 184,
         a[1], a[2], a[3], a[4], a[5], a[6], a[7], a[8], 255, 208 >>

LEMMA CallCodeIs ==
  ASSUME NEW k \in 1 .. 8
  PROVE  /\ CallCode(k) \in Seq(Octets) /\ Len(CallCode(k)) = 21
         /\ \A i \in 1 .. 9 : CallCode(k)[i] = MoveArguments[i]
         /\ \A i \in 1 .. 2 : CallCode(k)[9 + i] = MovabsRax[i]
         /\ \A i \in 1 .. 8 : CallCode(k)[11 + i] = Address[Operations[k]][i]
         /\ \A i \in 1 .. 2 : CallCode(k)[19 + i] = CallRax[i]
<1>1. PICK a \in [1 .. 8 -> Octets] : a = Address[Operations[k]]
  BY AddressType
<1>2. CallCode(k) =
        << 76, 137, 231, 76, 137, 238, 76, 137, 242, 72, 184,
           a[1], a[2], a[3], a[4], a[5], a[6], a[7], a[8], 255, 208 >>
  BY <1>1 DEF CallCode
<1>3. CallCode(k) \in Seq(Octets) /\ Len(CallCode(k)) = 21
  BY <1>2 DEF Octets
<1>4. \A i \in 1 .. 9 : CallCode(k)[i] = MoveArguments[i]
  BY <1>2 DEF MoveArguments
<1>5. \A i \in 1 .. 2 : CallCode(k)[9 + i] = MovabsRax[i]
  BY <1>2 DEF MovabsRax
<1>6. \A i \in 1 .. 8 : CallCode(k)[11 + i] = a[i]
  BY <1>2
<1>7. \A i \in 1 .. 2 : CallCode(k)[19 + i] = CallRax[i]
  BY <1>2 DEF CallRax
<1> QED BY <1>1, <1>3, <1>4, <1>5, <1>6, <1>7

-----------------------------------------------------------------------------
(* The pieces and the code up to and with the n-th call.                   *)
CallsUpTo(n)  == FlattenSeq([k \in 1 .. n |-> CallPieces(Operations[k])])
PiecesUpTo(n) == << Prologue >> \o CallsUpTo(n)
CodeUpTo(n)   == FlattenSeq(PiecesUpTo(n))

LEMMA CallPiecesType ==
  ASSUME NEW k \in 1 .. 8
  PROVE  CallPieces(Operations[k]) \in Seq(Seq(Octets))
<1>1. PICK a \in Seq(Octets) : a = Address[Operations[k]]
  BY AddressType
<1>2. CallPieces(Operations[k]) = << MoveArguments, MovabsRax, a, CallRax >>
  BY <1>1 DEF CallPieces
<1> QED BY <1>2, FixedPieces

(* The pieces of one more call follow those of the calls before.           *)
LEMMA CallsNext ==
  ASSUME NEW n \in Nat, n < 8
  PROVE  /\ CallsUpTo(n) \in Seq(Seq(Octets))
         /\ CallsUpTo(n + 1) = CallsUpTo(n) \o CallPieces(Operations[n + 1])
<1> DEFINE calls(m) == [k \in 1 .. m |-> CallPieces(Operations[k])]
<1>1. \A k \in 1 .. n + 1 : CallPieces(Operations[k]) \in Seq(Seq(Octets))
  <2> TAKE k \in 1 .. n + 1
  <2>1. k \in 1 .. 8
    OBVIOUS
  <2> QED BY <2>1, CallPiecesType
<1>2. PICK a \in Seq(Seq(Seq(Octets))) : a = calls(n) /\ Len(a) = n
  <2>1. calls(n) \in Seq(Seq(Seq(Octets))) /\ Len(calls(n)) = n
    BY <1>1
  <2> QED BY <2>1
<1>3. PICK e \in Seq(Seq(Octets)) : e = CallPieces(Operations[n + 1])
  BY <1>1
<1>4. calls(n + 1) = Append(a, e)
  <2>1. PICK b \in Seq(Seq(Seq(Octets))) : b = calls(n + 1) /\ Len(b) = n + 1
    <3>1. calls(n + 1) \in Seq(Seq(Seq(Octets))) /\ Len(calls(n + 1)) = n + 1
      BY <1>1
    <3> QED BY <3>1
  <2>2. PICK d : d = Append(a, e)
    OBVIOUS
  <2>3. /\ d \in Seq(Seq(Seq(Octets))) /\ Len(d) = n + 1 /\ d[n + 1] = e
        /\ \A k \in 1 .. n : d[k] = a[k]
    BY <1>2, <2>2, AppendProperties
  <2>4. ASSUME NEW k \in 1 .. n + 1 PROVE b[k] = d[k]
    <3>1. b[k] = CallPieces(Operations[k])
      BY <2>1
    <3>2. CASE k = n + 1
      BY <1>3, <2>3, <3>1, <3>2
    <3>3. CASE k # n + 1
      <4>1. k \in 1 .. n
        BY <3>3
      <4> QED BY <1>2, <2>3, <3>1, <4>1
    <3> QED BY <3>2, <3>3
  <2>5. b = d
    BY <2>1, <2>3, <2>4, SeqEqual
  <2> QED BY <2>1, <2>2, <2>5
<1>5. FlattenSeq(a) \in Seq(Seq(Octets))
      /\ FlattenSeq(Append(a, e)) = FlattenSeq(a) \o e
  BY FlattenAppend
<1> QED BY <1>2, <1>3, <1>4, <1>5 DEF CallsUpTo

(* Four more pieces add their bytes.                                       *)
AddsFour(seqs, a, b, c, d) ==
  FlattenSeq(seqs \o << a, b, c, d >>)
    = (((FlattenSeq(seqs) \o a) \o b) \o c) \o d

LEMMA FlattenFour ==
  ASSUME NEW S, NEW seqs \in Seq(Seq(S)),
         NEW a \in Seq(S), NEW b \in Seq(S), NEW c \in Seq(S), NEW d \in Seq(S)
  PROVE  AddsFour(seqs, a, b, c, d)
<1>1. PICK seqs1 \in Seq(Seq(S)) : seqs1 = Append(seqs, a)
  BY AppendProperties
<1>2. PICK seqs2 \in Seq(Seq(S)) : seqs2 = Append(seqs1, b)
  BY AppendProperties
<1>3. PICK seqs3 \in Seq(Seq(S)) : seqs3 = Append(seqs2, c)
  BY AppendProperties
<1>4. PICK seqs4 \in Seq(Seq(S)) : seqs4 = Append(seqs3, d)
  BY AppendProperties
<1>5. seqs \o << a, b, c, d >> = seqs4
  BY <1>1, <1>2, <1>3, <1>4
<1>6. FlattenSeq(seqs1) = FlattenSeq(seqs) \o a
  BY <1>1, FlattenAppend
<1>7. FlattenSeq(seqs2) = FlattenSeq(seqs1) \o b
  BY <1>2, FlattenAppend
<1>8. FlattenSeq(seqs3) = FlattenSeq(seqs2) \o c
  BY <1>3, FlattenAppend
<1>9. FlattenSeq(seqs4) = FlattenSeq(seqs3) \o d
  BY <1>4, FlattenAppend
<1> QED BY <1>5, <1>6, <1>7, <1>8, <1>9 DEF AddsFour

(* Where the bytes are.                                                    *)
LaidOut(bytes, n) ==
  /\ bytes \in Seq(Octets)
  /\ Len(bytes) = 15 + 21 * n
  /\ \A i \in 1 .. 15 : bytes[i] = Prologue[i]
  /\ \A k \in 1 .. n, i \in 1 .. 21 : bytes[15 + 21 * (k - 1) + i] = CallCode(k)[i]

(* What a concatenation consists of.                                       *)
Joined(all, first, m, second, n) ==
  /\ all \in Seq(Octets) /\ Len(all) = m + n
  /\ \A i \in 1 .. m : all[i] = first[i]
  /\ \A i \in 1 .. n : all[m + i] = second[i]

LEMMA ConcatJoins ==
  ASSUME NEW first \in Seq(Octets), NEW second \in Seq(Octets),
         NEW m, m = Len(first), NEW n, n = Len(second)
  PROVE  Joined(first \o second, first, m, second, n)
<1>1. PICK all : all = first \o second
  OBVIOUS
<1>2. m \in Nat /\ n \in Nat
  OBVIOUS
<1>3. /\ all \in Seq(Octets) /\ Len(all) = m + n
      /\ \A i \in 1 .. m + n : all[i] = IF i <= m THEN first[i] ELSE second[i - m]
  BY <1>1, ConcatProperties
<1>4. ASSUME NEW i \in 1 .. m PROVE all[i] = first[i]
  BY <1>2, <1>3
<1>5. ASSUME NEW i \in 1 .. n PROVE all[m + i] = second[i]
  <2>1. PICK j \in 1 .. m + n : j = m + i /\ j - m = i /\ ~(j <= m)
    BY <1>2
  <2> QED BY <1>3, <2>1
<1> QED BY <1>1, <1>3, <1>4, <1>5 DEF Joined

LEMMA AddedCall ==
  ASSUME NEW bytes \in Seq(Octets), NEW n, n = Len(bytes),
         NEW k \in 1 .. 8, NEW more,
         more = (((bytes \o MoveArguments) \o MovabsRax)
                   \o Address[Operations[k]]) \o CallRax
  PROVE  Joined(more, bytes, n, CallCode(k), 21)
<1>1. PICK a \in Seq(Octets) : a = Address[Operations[k]] /\ Len(a) = 8
  BY AddressType
<1>2. n \in Nat
  OBVIOUS
<1>3. PICK b1 : b1 = bytes \o MoveArguments
  OBVIOUS
<1>4. Joined(b1, bytes, n, MoveArguments, 9)
  BY <1>3, FixedPieces, ConcatJoins
<1>5. /\ b1 \in Seq(Octets) /\ Len(b1) = n + 9
      /\ \A i \in 1 .. n : b1[i] = bytes[i]
      /\ \A i \in 1 .. 9 : b1[n + i] = MoveArguments[i]
  BY <1>4 DEF Joined
<1>6. PICK b2 : b2 = b1 \o MovabsRax
  OBVIOUS
<1>7. Joined(b2, b1, n + 9, MovabsRax, 2)
  BY <1>5, <1>6, FixedPieces, ConcatJoins
<1>8. /\ b2 \in Seq(Octets) /\ Len(b2) = n + 11
      /\ \A i \in 1 .. n + 9 : b2[i] = b1[i]
      /\ \A i \in 1 .. 2 : b2[n + 9 + i] = MovabsRax[i]
  BY <1>2, <1>7 DEF Joined
<1>9. PICK b3 : b3 = b2 \o a
  OBVIOUS
<1>10. Joined(b3, b2, n + 11, a, 8)
  BY <1>1, <1>8, <1>9, ConcatJoins
<1>11. /\ b3 \in Seq(Octets) /\ Len(b3) = n + 19
       /\ \A i \in 1 .. n + 11 : b3[i] = b2[i]
       /\ \A i \in 1 .. 8 : b3[n + 11 + i] = a[i]
  BY <1>2, <1>10 DEF Joined
<1>12. more = b3 \o CallRax
  BY <1>1, <1>3, <1>6, <1>9
<1>13. Joined(more, b3, n + 19, CallRax, 2)
  BY <1>11, <1>12, FixedPieces, ConcatJoins, ZenonT(30)
<1>14. /\ more \in Seq(Octets) /\ Len(more) = n + 21
       /\ \A i \in 1 .. n + 19 : more[i] = b3[i]
       /\ \A i \in 1 .. 2 : more[n + 19 + i] = CallRax[i]
  <2>1. (n + 19) + 2 = n + 21
    BY <1>2
  <2> QED BY <1>13, <2>1 DEF Joined
<1>15. ASSUME NEW i \in 1 .. n PROVE more[i] = bytes[i]
  <2>1. i \in 1 .. n + 19 /\ i \in 1 .. n + 11 /\ i \in 1 .. n + 9
    BY <1>2
  <2>2. more[i] = b3[i] /\ b3[i] = b2[i]
    BY <1>11, <1>14, <2>1
  <2>3. b2[i] = b1[i] /\ b1[i] = bytes[i]
    BY <1>5, <1>8, <2>1
  <2> QED BY <2>2, <2>3
<1>16. ASSUME NEW i \in 1 .. 21 PROVE more[n + i] = CallCode(k)[i]
  <2>1. CASE i <= 9
    <3>1. i \in 1 .. 9 /\ n + i \in 1 .. n + 19 /\ n + i \in 1 .. n + 11
          /\ n + i \in 1 .. n + 9
      BY <1>2, <2>1
    <3>2. more[n + i] = MoveArguments[i]
      <4>1. more[n + i] = b3[n + i] /\ b3[n + i] = b2[n + i]
        BY <1>11, <1>14, <3>1
      <4>2. b2[n + i] = b1[n + i] /\ b1[n + i] = MoveArguments[i]
        BY <1>5, <1>8, <3>1
      <4> QED BY <4>1, <4>2
    <3>3. CallCode(k)[i] = MoveArguments[i]
      BY <3>1, CallCodeIs
    <3> QED BY <3>2, <3>3
  <2>2. CASE i \in 10 .. 11
    <3>1. PICK t \in 1 .. 2 : i = 9 + t
      <4>1. i - 9 \in 1 .. 2 /\ i = 9 + (i - 9)
        BY <2>2
      <4> QED BY <4>1
    <3>2. n + i = n + 9 + t /\ n + i \in 1 .. n + 19 /\ n + i \in 1 .. n + 11
      BY <1>2, <3>1
    <3>3. more[n + i] = MovabsRax[t]
      <4>1. more[n + i] = b3[n + i] /\ b3[n + i] = b2[n + i]
        BY <1>11, <1>14, <3>2
      <4>2. b2[n + 9 + t] = MovabsRax[t]
        BY <1>8
      <4> QED BY <3>2, <4>1, <4>2
    <3>4. CallCode(k)[9 + t] = MovabsRax[t]
      BY CallCodeIs
    <3> QED BY <3>1, <3>3, <3>4
  <2>3. CASE i \in 12 .. 19
    <3>1. PICK t \in 1 .. 8 : i = 11 + t
      <4>1. i - 11 \in 1 .. 8 /\ i = 11 + (i - 11)
        BY <2>3
      <4> QED BY <4>1
    <3>2. n + i = n + 11 + t /\ n + i \in 1 .. n + 19
      BY <1>2, <3>1
    <3>3. more[n + i] = a[t]
      BY <1>11, <1>14, <3>2, ZenonT(30)
    <3>4. CallCode(k)[11 + t] = a[t]
      BY <1>1, CallCodeIs
    <3> QED BY <3>1, <3>3, <3>4
  <2>4. CASE i \in 20 .. 21
    <3>1. PICK t \in 1 .. 2 : i = 19 + t
      <4>1. i - 19 \in 1 .. 2 /\ i = 19 + (i - 19)
        BY <2>4
      <4> QED BY <4>1
    <3>2. n + i = n + 19 + t
      BY <1>2, <3>1
    <3>3. more[n + i] = CallRax[t]
      BY <1>14, <3>2
    <3>4. CallCode(k)[19 + t] = CallRax[t]
      BY CallCodeIs
    <3> QED BY <3>1, <3>3, <3>4
  <2>5. i <= 9 \/ i \in 10 .. 11 \/ i \in 12 .. 19 \/ i \in 20 .. 21
    OBVIOUS
  <2> QED BY <2>1, <2>2, <2>3, <2>4, <2>5
<1> QED BY <1>14, <1>15, <1>16 DEF Joined

LEMMA CodeStart == PiecesUpTo(0) \in Seq(Seq(Octets)) /\ LaidOut(CodeUpTo(0), 0)
<1>1. [k \in 1 .. 0 |-> CallPieces(Operations[k])] = <<>>
  OBVIOUS
<1>2. CallsUpTo(0) = <<>>
  BY <1>1, FlattenEmpty DEF CallsUpTo
<1>3. PiecesUpTo(0) = Append(<<>>, Prologue)
  <2>1. << Prologue >> \in Seq(Seq(Octets))
    BY FixedPieces
  <2>2. << Prologue >> \o <<>> = << Prologue >>
    BY <2>1, ConcatEmptySeq
  <2>3. Append(<<>>, Prologue) = << Prologue >>
    OBVIOUS
  <2> QED BY <1>2, <2>2, <2>3, Zenon DEF PiecesUpTo
<1>4. <<>> \in Seq(Seq(Octets)) /\ <<>> \in Seq(Octets)
  OBVIOUS
<1>5. PiecesUpTo(0) \in Seq(Seq(Octets))
  BY <1>3, <1>4, FixedPieces, AppendProperties, ZenonT(30)
<1>6. CodeUpTo(0) = FlattenSeq(<<>>) \o Prologue
  BY <1>3, <1>4, FixedPieces, FlattenAppend DEF CodeUpTo
<1>7. CodeUpTo(0) = Prologue
  BY <1>6, FlattenEmpty, FixedPieces, ConcatEmptySeq
<1>8. 15 + 21 * 0 = 15 /\ 1 .. 0 = {}
  OBVIOUS
<1> QED BY <1>5, <1>7, <1>8, FixedPieces DEF LaidOut

LEMMA CodeNext ==
  ASSUME NEW n \in Nat, n < 8, PiecesUpTo(n) \in Seq(Seq(Octets)),
         LaidOut(CodeUpTo(n), n)
  PROVE  PiecesUpTo(n + 1) \in Seq(Seq(Octets)) /\ LaidOut(CodeUpTo(n + 1), n + 1)
<1>1. PICK k \in 1 .. 8 : k = n + 1
  OBVIOUS
<1>2. PICK pieces \in Seq(Seq(Octets)) : pieces = PiecesUpTo(n)
  OBVIOUS
<1>3. PICK call \in Seq(Seq(Octets)) : call = CallPieces(Operations[k])
  BY CallPiecesType
<1>4. PiecesUpTo(n + 1) = pieces \o call
  <2>1. << Prologue >> \in Seq(Seq(Octets)) /\ CallsUpTo(n) \in Seq(Seq(Octets))
    BY FixedPieces, CallsNext
  <2>2. (<< Prologue >> \o CallsUpTo(n)) \o call = << Prologue >> \o (CallsUpTo(n) \o call)
    BY <2>1, ConcatAssociative, SMTT(30)
  <2> QED BY <1>1, <1>2, <1>3, <2>2, CallsNext DEF PiecesUpTo
<1>5. PiecesUpTo(n + 1) \in Seq(Seq(Octets))
  BY <1>4, ConcatProperties
<1>6. PICK a \in Seq(Octets) : a = Address[Operations[k]]
  BY AddressType
<1>7. call = << MoveArguments, MovabsRax, a, CallRax >>
  BY <1>3, <1>6 DEF CallPieces
<1>8. PICK bytes \in Seq(Octets) : bytes = CodeUpTo(n) /\ Len(bytes) = 15 + 21 * n
  BY DEF LaidOut
<1>9. PICK more : more = CodeUpTo(n + 1)
  OBVIOUS
<1>10. more = (((bytes \o MoveArguments) \o MovabsRax) \o a) \o CallRax
  <2>1. more = FlattenSeq(pieces \o << MoveArguments, MovabsRax, a, CallRax >>)
    BY <1>4, <1>7, <1>9 DEF CodeUpTo
  <2>2. bytes = FlattenSeq(pieces)
    BY <1>2, <1>8 DEF CodeUpTo
  <2>3. /\ MoveArguments \in Seq(Octets) /\ MovabsRax \in Seq(Octets)
        /\ CallRax \in Seq(Octets)
    BY FixedPieces
  <2>4. AddsFour(pieces, MoveArguments, MovabsRax, a, CallRax)
    BY <2>3, FlattenFour
  <2> QED BY <2>1, <2>2, <2>4 DEF AddsFour
<1>11. PICK m \in Nat : m = 15 + 21 * n
  OBVIOUS
<1>12. Joined(more, bytes, m, CallCode(k), 21)
  BY <1>6, <1>8, <1>10, <1>11, AddedCall
<1>13. /\ more \in Seq(Octets) /\ Len(more) = m + 21
       /\ \A i \in 1 .. m : more[i] = bytes[i]
       /\ \A i \in 1 .. 21 : more[m + i] = CallCode(k)[i]
  BY <1>12 DEF Joined
<1>14. /\ \A i \in 1 .. 15 : bytes[i] = Prologue[i]
       /\ \A j \in 1 .. n, i \in 1 .. 21 :
            bytes[15 + 21 * (j - 1) + i] = CallCode(j)[i]
  BY <1>8 DEF LaidOut
<1>15. Len(more) = 15 + 21 * (n + 1)
  <2>1. m + 21 = 15 + 21 * (n + 1)
    BY <1>11
  <2> QED BY <1>13, <2>1
<1>16. ASSUME NEW i \in 1 .. 15 PROVE more[i] = Prologue[i]
  <2>1. i \in 1 .. m
    BY <1>11
  <2> QED BY <1>13, <1>14, <2>1
<1>17. ASSUME NEW j \in 1 .. n + 1, NEW i \in 1 .. 21
       PROVE  more[15 + 21 * (j - 1) + i] = CallCode(j)[i]
  <2>1. CASE j = n + 1
    <3>1. 15 + 21 * (j - 1) + i = m + i
      BY <1>11, <2>1
    <3> QED BY <1>1, <1>13, <2>1, <3>1
  <2>2. CASE j # n + 1
    <3>1. j \in 1 .. n
      BY <2>2
    <3>2. 15 + 21 * (j - 1) + i \in 1 .. m
      BY <1>11, <3>1
    <3> QED BY <1>13, <1>14, <3>1, <3>2
  <2> QED BY <2>1, <2>2
<1>18. LaidOut(more, n + 1)
  BY <1>13, <1>15, <1>16, <1>17 DEF LaidOut
<1> QED BY <1>5, <1>9, <1>18

LEMMA CodeAfterCalls ==
  PiecesUpTo(8) \in Seq(Seq(Octets)) /\ LaidOut(CodeUpTo(8), 8)
<1> DEFINE T == {n \in Nat : n <= 8 =>
                   PiecesUpTo(n) \in Seq(Seq(Octets)) /\ LaidOut(CodeUpTo(n), n)}
<1>1. 0 \in T
  BY CodeStart
<1>2. ASSUME NEW n \in Nat, n \in T PROVE n + 1 \in T
  <2> SUFFICES ASSUME n + 1 <= 8
               PROVE  PiecesUpTo(n + 1) \in Seq(Seq(Octets))
                        /\ LaidOut(CodeUpTo(n + 1), n + 1)
    OBVIOUS
  <2>1. n < 8 /\ PiecesUpTo(n) \in Seq(Seq(Octets)) /\ LaidOut(CodeUpTo(n), n)
    BY <1>2
  <2> QED BY <2>1, CodeNext
<1>3. Nat \subseteq T
  <2> HIDE DEF T
  <2> QED BY <1>1, <1>2, Induction
<1> QED BY <1>3

LEMMA PiecesType == Pieces \in Seq(Seq(Octets)) /\ Pieces = Append(PiecesUpTo(8), Epilogue)
<1>1. Pieces = PiecesUpTo(8) \o << Epilogue >>
  BY OperationCount DEF Pieces, PiecesUpTo, CallsUpTo
<1>2. Epilogue \in Seq(Octets) /\ PiecesUpTo(8) \in Seq(Seq(Octets))
  BY FixedPieces, CodeAfterCalls
<1>3. Append(PiecesUpTo(8), Epilogue) = PiecesUpTo(8) \o << Epilogue >>
  BY <1>2, AppendIsConcat
<1>4. Append(PiecesUpTo(8), Epilogue) \in Seq(Seq(Octets))
  BY <1>2, AppendProperties
<1> QED BY <1>1, <1>3, <1>4

(* Every byte of the code.                                                 *)
CodeLaidOut ==
  /\ Code \in Seq(Octets)
  /\ Len(Code) = 195
  /\ \A i \in 1 .. 15 : Code[i] = Prologue[i]
  /\ \A k \in 1 .. 8, i \in 1 .. 21 : Code[15 + 21 * (k - 1) + i] = CallCode(k)[i]
  /\ \A i \in 1 .. 12 : Code[183 + i] = Epilogue[i]

(* The code is a prologue, a call of every operation in the order of the   *)
(* text, each with its own address, and an epilogue: 195 bytes, whatever   *)
(* the addresses are (jit_linux_amd64.c:40-79, 104-108).                   *)
THEOREM WholeCode == CodeLaidOut
<1>1. PICK bytes \in Seq(Octets) : bytes = CodeUpTo(8) /\ Len(bytes) = 183
  <2>1. 15 + 21 * 8 = 183
    OBVIOUS
  <2> QED BY <2>1, CodeAfterCalls DEF LaidOut
<1>2. Code = bytes \o Epilogue
  BY <1>1, PiecesType, CodeAfterCalls, FixedPieces, FlattenAppend DEF Code, CodeUpTo
<1>3. Joined(Code, bytes, 183, Epilogue, 12)
  <2>1. 183 = Len(bytes) /\ 12 = Len(Epilogue) /\ Epilogue \in Seq(Octets)
    BY <1>1, FixedPieces
  <2>2. Joined(bytes \o Epilogue, bytes, 183, Epilogue, 12)
    BY <2>1, ConcatJoins, Zenon
  <2> QED BY <1>2, <2>2
<1>4. /\ Code \in Seq(Octets) /\ Len(Code) = 195
      /\ \A i \in 1 .. 183 : Code[i] = bytes[i]
      /\ \A i \in 1 .. 12 : Code[183 + i] = Epilogue[i]
  BY <1>3 DEF Joined
<1>5. /\ \A i \in 1 .. 15 : bytes[i] = Prologue[i]
      /\ \A k \in 1 .. 8, i \in 1 .. 21 : bytes[15 + 21 * (k - 1) + i] = CallCode(k)[i]
  BY <1>1, CodeAfterCalls DEF LaidOut
<1>6. ASSUME NEW k \in 1 .. 8, NEW i \in 1 .. 21
      PROVE  Code[15 + 21 * (k - 1) + i] = CallCode(k)[i]
  <2>1. PICK j \in 1 .. 183 : j = 15 + 21 * (k - 1) + i
    OBVIOUS
  <2>2. Code[j] = bytes[j]
    BY <1>4
  <2>3. bytes[j] = CallCode(k)[i]
    BY <1>5, <2>1
  <2> QED BY <2>1, <2>2, <2>3
<1>7. ASSUME NEW i \in 1 .. 15 PROVE Code[i] = Prologue[i]
  <2>1. Code[i] = bytes[i]
    <3>1. i \in 1 .. 183
      OBVIOUS
    <3> QED BY <1>4, <3>1
  <2> QED BY <1>5, <2>1
<1> QED BY <1>4, <1>6, <1>7 DEF CodeLaidOut

-----------------------------------------------------------------------------
(* The processor.                                                          *)
Names == {"rax", "rcx", "rdx", "rbx", "rbp", "rsi", "rdi",
          "r8", "r9", "r10", "r11", "r12", "r13", "r14", "r15"}

LEMMA GeneralIs == General = Names
BY DEF General, ToSet, Registers, Names

-----------------------------------------------------------------------------
(* Decoding.  An instruction with a REX prefix, and one without.           *)

(* The five instructions of the code that go straight on.                  *)
LEMMA DecodePush ==
  ASSUME rip \in Nat, NEW n \in 0 .. 7, At(0) = 65, At(1) = 80 + n, Next
  PROVE  Push(Registers[n + 9]) /\ rip' = rip + 2 /\ order' = order
<1>1. Op = 1 /\ Rex(1) = 1 /\ Opcode = 80 + n
  BY DEF Op, Prefixed, Rex, Opcode
<1>2. ~CallOrder /\ ~Finished /\ ~CallOperation /\ ~Return
  BY <1>1 DEF CallOrder, Finished, CallOperation, Return
<1>3. Straight
  BY <1>2 DEF Next
<1>4. Push(Register(Rex(1), Opcode - 80)) /\ rip' = rip + Op + 1 /\ order' = order
  BY <1>1, <1>3 DEF Straight
<1> QED BY <1>1, <1>4 DEF Register

LEMMA DecodePop ==
  ASSUME rip \in Nat, NEW n \in 0 .. 7, At(0) = 65, At(1) = 88 + n, Next
  PROVE  Pop(Registers[n + 9]) /\ rip' = rip + 2 /\ order' = order
<1>1. Op = 1 /\ Rex(1) = 1 /\ Opcode = 88 + n
  BY DEF Op, Prefixed, Rex, Opcode
<1>2. ~CallOrder /\ ~Finished /\ ~CallOperation /\ ~Return
  BY <1>1 DEF CallOrder, Finished, CallOperation, Return
<1>3. Straight
  BY <1>2 DEF Next
<1>4. Pop(Register(Rex(1), Opcode - 88)) /\ rip' = rip + Op + 1 /\ order' = order
  BY <1>1, <1>3 DEF Straight
<1> QED BY <1>1, <1>4 DEF Register

(* mov r64, r64, with the two extension bits of the prefix.                *)
LEMMA DecodeMove ==
  ASSUME rip \in Nat, NEW r \in 0 .. 1, NEW b \in 0 .. 1,
         NEW source \in 0 .. 7, NEW target \in 0 .. 7,
         At(0) = 72 + 4 * r + b, At(1) = 137,
         At(2) = 192 + 8 * source + target, Next
  PROVE  /\ Move(Registers[8 * b + target + 1], reg[Registers[8 * r + source + 1]])
         /\ rip' = rip + 3 /\ order' = order
<1>1. /\ Op = 1 /\ Opcode = 137 /\ Prefixed
      /\ ModRM = 192 + 8 * source + target
  BY DEF Op, Prefixed, Opcode, ModRM
<1>2. Rex(8) = 1 /\ Rex(4) = r /\ Rex(1) = b
  BY <1>1 DEF Rex
<1>3. Mod = 3 /\ (ModRM \div 8) % 8 = source /\ ModRM % 8 = target
  BY <1>1 DEF Mod
<1>4. ~CallOrder /\ ~Finished /\ ~CallOperation /\ ~Return
  BY <1>1 DEF CallOrder, Finished, CallOperation, Return
<1>5. Straight
  BY <1>4 DEF Next
<1>6. Move(Rm, reg[Reg]) /\ rip' = rip + Op + 2 /\ order' = order
  BY <1>1, <1>5 DEF Straight
<1> QED BY <1>1, <1>2, <1>3, <1>6 DEF Rm, Reg, Register

(* movabs rax, imm64.                                                      *)
LEMMA DecodeMovabs ==
  ASSUME rip \in Nat, At(0) = 72, At(1) = 184, Next
  PROVE  /\ Move("rax", SubSeq(Code, rip + 3, rip + 10))
         /\ rip' = rip + 10 /\ order' = order
<1>1. Op = 1 /\ Opcode = 184 /\ Prefixed
  BY DEF Op, Prefixed, Opcode
<1>2. Rex(8) = 1 /\ Rex(1) = 0
  BY <1>1 DEF Rex
<1>3. ~CallOrder /\ ~Finished /\ ~CallOperation /\ ~Return
  BY <1>1 DEF CallOrder, Finished, CallOperation, Return
<1>4. Straight
  BY <1>3 DEF Next
<1>5. /\ Move(Register(Rex(1), Opcode - 184), SubSeq(Code, rip + Op + 2, rip + Op + 9))
      /\ rip' = rip + Op + 9 /\ order' = order
  BY <1>1, <1>4 DEF Straight
<1>6. Register(Rex(1), Opcode - 184) = "rax"
  BY <1>1, <1>2 DEF Register, Registers
<1> QED BY <1>1, <1>5, <1>6

(* mov eax, [r12 + 24].                                                    *)
LEMMA DecodeLoad ==
  ASSUME rip \in Nat, At(0) = 65, At(1) = 139, At(2) = 68, At(3) = 36, At(4) = 24,
         Next
  PROVE  Move("rax", Word(reg["r12"], 24)) /\ rip' = rip + 5 /\ order' = order
<1>1. Op = 1 /\ Opcode = 139 /\ Prefixed /\ ModRM = 68
  BY DEF Op, Prefixed, Opcode, ModRM
<1>2. Rex(8) = 0 /\ Rex(4) = 0 /\ Rex(1) = 1
  BY <1>1 DEF Rex
<1>3. ~CallOrder /\ ~Finished /\ ~CallOperation /\ ~Return
  BY <1>1 DEF CallOrder, Finished, CallOperation, Return
<1>4. Straight
  BY <1>3 DEF Next
<1>5. /\ Move(Reg, Word(reg[Register(Rex(1), At(Op + 2) % 8)], At(Op + 3)))
      /\ rip' = rip + Op + 4 /\ order' = order
  BY <1>1, <1>4 DEF Straight
<1>6. Reg = "rax"
  BY <1>1, <1>2 DEF Reg, Register, Registers
<1>7. At(Op + 2) = 36 /\ At(Op + 3) = 24
  BY <1>1
<1>8. Register(Rex(1), 36 % 8) = "r12"
  BY <1>2 DEF Register, Registers
<1> QED BY <1>1, <1>5, <1>6, <1>7, <1>8

(* call rax.                                                               *)
LEMMA DecodeCall ==
  ASSUME rip \in Nat, At(0) = 255, At(1) = 208, Next
  PROVE  CallOperation /\ Op = 0 /\ Rm = "rax"
<1>1. Op = 0 /\ Opcode = 255 /\ ~Prefixed /\ ModRM = 208
  BY DEF Op, Prefixed, Opcode, ModRM
<1>2. Rex(1) = 0
  BY <1>1 DEF Rex
<1>3. ~CallOrder /\ ~Finished /\ ~Straight /\ ~Return
  BY <1>1 DEF CallOrder, Finished, Straight, Return
<1>4. Rm = "rax"
  BY <1>1, <1>2 DEF Rm, Register, Registers
<1> QED BY <1>1, <1>3, <1>4 DEF Next

LEMMA DecodeReturn ==
  ASSUME rip \in Nat, At(0) = 195, Next
  PROVE  Return
<1>1. Op = 0 /\ Opcode = 195
  BY DEF Op, Prefixed, Opcode
<1>2. ~CallOrder /\ ~Finished /\ ~Straight /\ ~CallOperation
  BY <1>1 DEF CallOrder, Finished, Straight, CallOperation
<1> QED BY <1>2 DEF Next

-----------------------------------------------------------------------------
(* What holds where.  The registers that the prologue saves, the stack     *)
(* with n of them on it, and the registers that hold what the loop kept in *)
(* them.                                                                   *)
Saved == << "r12", "r13", "r14" >>

Frames ==
  << << <<"return">> >>,
     << <<"caller", "r12">>, <<"return">> >>,
     << <<"caller", "r13">>, <<"caller", "r12">>, <<"return">> >>,
     << <<"caller", "r14">>, <<"caller", "r13">>, <<"caller", "r12">>, <<"return">> >> >>

Frame(n) == Frames[n + 1]

Kept(registers) == \A r \in registers : reg[r] = <<"caller", r>>

(* The first n operations were called, for this order, as the ABI asks.    *)
CallMade(k) ==
  [op |-> Operations[k], aligned |-> TRUE,
   arguments |-> << <<"writer">>, <<"order", order>>, <<"batch">> >>]

CallsMade(n) == called = [k \in 1 .. n |-> CallMade(k)]

HasWriter(r) == reg[r] = <<"writer">>
HasOrder(r)  == reg[r] = <<"order", order>>
HasBatch(r)  == reg[r] = <<"batch">>

InLoop ==
  /\ rip = -1
  /\ stack = <<>>
  /\ Kept(CalleeSaved)
  /\ IF order = 0 THEN called = <<>> /\ status = "OK"
     ELSE reg["rax"] = <<"status", status>> /\ CallsMade(8)

(* In the prologue, after n of its pushes.                                 *)
Entering(n) ==
  /\ rip = 2 * n
  /\ stack = Frame(n)
  /\ Kept(CalleeSaved)
  /\ HasWriter("rdi") /\ HasOrder("rsi") /\ HasBatch("rdx")
  /\ CallsMade(0)

(* In the prologue, after n of its moves.                                  *)
Copying(n) ==
  /\ rip = 6 + 3 * n
  /\ stack = Frame(3)
  /\ Kept({"rbx", "rbp", "r15"})
  /\ HasOrder("rsi") /\ HasBatch("rdx")
  /\ HasWriter("r12")
  /\ n = 2 => HasOrder("r13")
  /\ CallsMade(0)

Working ==
  /\ stack = Frame(3)
  /\ Kept({"rbx", "rbp", "r15"})
  /\ HasWriter("r12") /\ HasOrder("r13") /\ HasBatch("r14")

(* In the k-th call, after n of its moves; after the eighth, k is 9.       *)
Calling(k, n) ==
  /\ rip = 15 + 21 * (k - 1) + 3 * n
  /\ Working
  /\ n >= 1 => HasWriter("rdi")
  /\ n >= 2 => HasOrder("rsi")
  /\ n >= 3 => HasBatch("rdx")
  /\ CallsMade(k - 1)

(* In the k-th call, with the address loaded.                              *)
Loaded(k) ==
  /\ rip = 15 + 21 * (k - 1) + 19
  /\ Working
  /\ HasWriter("rdi") /\ HasOrder("rsi") /\ HasBatch("rdx")
  /\ reg["rax"] = Address[Operations[k]]
  /\ CallsMade(k - 1)

(* In the epilogue, after its load and n of its pops.                      *)
Leaving(n) ==
  /\ rip = 188 + 2 * n
  /\ stack = Frame(3 - n)
  /\ Kept({"rbx", "rbp", "r15"} \cup {Saved[i] : i \in 4 - n .. 3})
  /\ reg["rax"] = <<"status", status>>
  /\ CallsMade(8)

InCode ==
  \/ \E n \in 0 .. 3 : Entering(n)
  \/ \E n \in 1 .. 2 : Copying(n)
  \/ \E k \in 1 .. 8, n \in 0 .. 3 : Calling(k, n)
  \/ \E k \in 1 .. 8 : Loaded(k)
  \/ Calling(9, 0)
  \/ \E n \in 0 .. 3 : Leaving(n)

Shapes ==
  /\ DOMAIN reg = Names
  /\ order \in Nat
  /\ status \in {"OK", "NO_SPACE", "INVALID_ARGUMENT"}

IInv == Shapes /\ (InLoop \/ (order # 0 /\ InCode))

LEMMA InitIInv == Init => IInv
<1> SUFFICES ASSUME Init PROVE IInv
  OBVIOUS
<1>1. DOMAIN reg = Names /\ order = 0 /\ status = "OK"
  BY GeneralIs DEF Init, Caller
<1>2. CalleeSaved \subseteq General
  BY GeneralIs DEF Names, CalleeSaved
<1>3. Kept(CalleeSaved)
  BY <1>2 DEF Init, Caller, Kept
<1>4. Shapes
  BY <1>1 DEF Shapes
<1>5. InLoop
  BY <1>1, <1>3 DEF Init, InLoop
<1> QED BY <1>4, <1>5 DEF IInv

-----------------------------------------------------------------------------
(* The stack of the prologue and the epilogue.                             *)
InFrontIs(x, rest, all) == << x >> \o rest = all

LEMMA InFront ==
  ASSUME NEW S, NEW x \in S, NEW rest \in Seq(S), NEW longer \in Seq(S),
         Len(longer) = Len(rest) + 1, longer[1] = x,
         \A i \in 1 .. Len(rest) : longer[i + 1] = rest[i]
  PROVE  InFrontIs(x, rest, longer)
<1>1. PICK all : all = << x >> \o rest
  OBVIOUS
<1>2. PICK one : one = << x >>
  OBVIOUS
<1>3. one \in Seq(S) /\ Len(one) = 1 /\ one[1] = x
  BY <1>2
<1>4. PICK n \in Nat : n = Len(rest)
  OBVIOUS
<1>5. /\ all \in Seq(S) /\ Len(all) = 1 + n
      /\ \A i \in 1 .. 1 + n : all[i] = IF i <= 1 THEN one[i] ELSE rest[i - 1]
  BY <1>1, <1>2, <1>3, <1>4, ConcatProperties
<1>6. ASSUME NEW i \in 1 .. 1 + n PROVE all[i] = longer[i]
  <2>1. CASE i = 1
    BY <1>3, <1>5, <2>1
  <2>2. CASE i # 1
    <3>1. PICK j \in 1 .. n : j = i - 1 /\ i = j + 1
      <4>1. i - 1 \in 1 .. n /\ i = (i - 1) + 1
        BY <1>4, <2>2
      <4> QED BY <4>1
    <3>2. all[i] = rest[i - 1]
      BY <1>5, <2>2
    <3>3. longer[j + 1] = rest[j]
      BY <1>4
    <3> QED BY <3>1, <3>2, <3>3
  <2> QED BY <2>1, <2>2
<1> QED BY <1>1, <1>4, <1>5, <1>6, SeqEqual DEF InFrontIs

LEMMA Tuples ==
  ASSUME NEW a, NEW b, NEW c, NEW d
  PROVE  /\ InFrontIs(a, << b >>, << a, b >>)
         /\ InFrontIs(a, << b, c >>, << a, b, c >>)
         /\ InFrontIs(a, << b, c, d >>, << a, b, c, d >>)
<1>1. PICK S : S = {a, b, c, d}
  OBVIOUS
<1>2. InFrontIs(a, << b >>, << a, b >>)
  <2>1. PICK rest : rest = << b >>
    OBVIOUS
  <2>2. PICK longer : longer = << a, b >>
    OBVIOUS
  <2>3. /\ rest \in Seq(S) /\ longer \in Seq(S) /\ a \in S
        /\ Len(longer) = Len(rest) + 1 /\ longer[1] = a
        /\ \A i \in 1 .. Len(rest) : longer[i + 1] = rest[i]
    BY <1>1, <2>1, <2>2
  <2>4. InFrontIs(a, rest, longer)
    BY <2>3, InFront
  <2> QED BY <2>1, <2>2, <2>4
<1>3. InFrontIs(a, << b, c >>, << a, b, c >>)
  <2>1. PICK rest : rest = << b, c >>
    OBVIOUS
  <2>2. PICK longer : longer = << a, b, c >>
    OBVIOUS
  <2>3. /\ rest \in Seq(S) /\ longer \in Seq(S) /\ a \in S
        /\ Len(longer) = Len(rest) + 1 /\ longer[1] = a
        /\ \A i \in 1 .. Len(rest) : longer[i + 1] = rest[i]
    BY <1>1, <2>1, <2>2
  <2>4. InFrontIs(a, rest, longer)
    BY <2>3, InFront
  <2> QED BY <2>1, <2>2, <2>4
<1>4. InFrontIs(a, << b, c, d >>, << a, b, c, d >>)
  <2>1. PICK rest : rest = << b, c, d >>
    OBVIOUS
  <2>2. PICK longer : longer = << a, b, c, d >>
    OBVIOUS
  <2>3. /\ rest \in Seq(S) /\ longer \in Seq(S) /\ a \in S
        /\ Len(longer) = Len(rest) + 1 /\ longer[1] = a
        /\ \A i \in 1 .. Len(rest) : longer[i + 1] = rest[i]
    BY <1>1, <2>1, <2>2
  <2>4. InFrontIs(a, rest, longer)
    BY <2>3, InFront
  <2> QED BY <2>1, <2>2, <2>4
<1> QED BY <1>2, <1>3, <1>4

LEMMA FramesAre ==
  /\ Frame(0) = << <<"return">> >>
  /\ Frame(1) = << <<"caller", "r12">>, <<"return">> >>
  /\ Frame(2) = << <<"caller", "r13">>, <<"caller", "r12">>, <<"return">> >>
  /\ Frame(3) = << <<"caller", "r14">>, <<"caller", "r13">>, <<"caller", "r12">>,
                   <<"return">> >>
  /\ Saved[1] = "r12" /\ Saved[2] = "r13" /\ Saved[3] = "r14"
BY DEF Frame, Frames, Saved

(* One push leads from a frame to the next, and one pop back.              *)
LEMMA FramePushed ==
  ASSUME NEW n \in 0 .. 2
  PROVE  << <<"caller", Saved[n + 1]>> >> \o Frame(n) = Frame(n + 1)
<1>1. InFrontIs(<<"caller", "r12">>, Frame(0), Frame(1))
  BY FramesAre, Tuples
<1>2. InFrontIs(<<"caller", "r13">>, Frame(1), Frame(2))
  BY FramesAre, Tuples
<1>3. InFrontIs(<<"caller", "r14">>, Frame(2), Frame(3))
  BY FramesAre, Tuples
<1>4. 0 + 1 = 1 /\ 1 + 1 = 2 /\ 2 + 1 = 3
  OBVIOUS
<1>5. CASE n = 0
  BY <1>1, <1>4, <1>5, FramesAre DEF InFrontIs
<1>6. CASE n = 1
  BY <1>2, <1>4, <1>6, FramesAre DEF InFrontIs
<1>7. CASE n = 2
  BY <1>3, <1>4, <1>7, FramesAre DEF InFrontIs
<1> QED BY <1>5, <1>6, <1>7, SMTT(30)

LEMMA FramePopped ==
  ASSUME NEW n \in 0 .. 2
  PROVE  /\ Head(Frame(n + 1)) = <<"caller", Saved[n + 1]>>
         /\ Tail(Frame(n + 1)) = Frame(n)
<1>1. ASSUME NEW x, NEW y
      PROVE  Head(<< x, y >>) = x /\ Tail(<< x, y >>) = << y >>
  OBVIOUS
<1>2. ASSUME NEW x, NEW y, NEW z
      PROVE  Head(<< x, y, z >>) = x /\ Tail(<< x, y, z >>) = << y, z >>
  OBVIOUS
<1>3. ASSUME NEW w, NEW x, NEW y, NEW z
      PROVE  Head(<< w, x, y, z >>) = w /\ Tail(<< w, x, y, z >>) = << x, y, z >>
  OBVIOUS
<1>4. Head(Frame(1)) = <<"caller", "r12">> /\ Tail(Frame(1)) = Frame(0)
  BY <1>1, FramesAre, Zenon
<1>5. Head(Frame(2)) = <<"caller", "r13">> /\ Tail(Frame(2)) = Frame(1)
  <2>1. PICK x, y, z : x = <<"caller", "r13">> /\ y = <<"caller", "r12">> /\ z = <<"return">>
    OBVIOUS
  <2>2. Frame(2) = << x, y, z >> /\ Frame(1) = << y, z >>
    BY <2>1, FramesAre, Zenon
  <2>3. Head(<< x, y, z >>) = x /\ Tail(<< x, y, z >>) = << y, z >>
    BY <1>2
  <2> QED BY <2>1, <2>2, <2>3, Zenon
<1>6. Head(Frame(3)) = <<"caller", "r14">> /\ Tail(Frame(3)) = Frame(2)
  <2>1. PICK w, x, y, z :
          /\ w = <<"caller", "r14">> /\ x = <<"caller", "r13">>
          /\ y = <<"caller", "r12">> /\ z = <<"return">>
    OBVIOUS
  <2>2. Frame(3) = << w, x, y, z >> /\ Frame(2) = << x, y, z >>
    BY <2>1, FramesAre, Zenon
  <2>3. Head(<< w, x, y, z >>) = w /\ Tail(<< w, x, y, z >>) = << x, y, z >>
    BY <1>3
  <2> QED BY <2>1, <2>2, <2>3, Zenon
<1>7. 0 + 1 = 1 /\ 1 + 1 = 2 /\ 2 + 1 = 3
  OBVIOUS
<1>8. CASE n = 0
  BY <1>4, <1>7, <1>8, FramesAre, Zenon
<1>9. CASE n = 1
  BY <1>5, <1>7, <1>9, FramesAre, Zenon
<1>10. CASE n = 2
  BY <1>6, <1>7, <1>10, FramesAre, Zenon
<1>11. n = 0 \/ n = 1 \/ n = 2
  OBVIOUS
<1> QED BY <1>8, <1>9, <1>10, <1>11

(* The loop calls the code, or is over.                                    *)
LEMMA LoopStep ==
  ASSUME Shapes, InLoop, Next
  PROVE  Shapes' /\ (InLoop' \/ (order' # 0 /\ Entering(0)'))
<1>1. ~Straight /\ ~CallOperation /\ ~Return
  BY DEF InLoop, Straight, CallOperation, Return
<1>2. CASE CallOrder
  <2>1. /\ order' = order + 1 /\ rip' = 0 /\ stack' = << <<"return">> >>
        /\ called' = <<>> /\ status' \in {"OK", "NO_SPACE"}
    BY <1>2 DEF CallOrder
  <2>2. reg' = [reg EXCEPT !["rdi"] = <<"writer">>, !["rsi"] = <<"order", order'>>,
                           !["rdx"] = <<"batch">>]
    BY <1>2 DEF CallOrder
  <2>3. DOMAIN reg' = Names /\ HasWriter("rdi")' /\ HasOrder("rsi")' /\ HasBatch("rdx")'
    BY <2>2 DEF Shapes, Names, HasWriter, HasOrder, HasBatch
  <2>4. Kept(CalleeSaved)'
    BY <2>2 DEF InLoop, Kept, CalleeSaved, Shapes, Names
  <2>5. CallsMade(0)'
    BY <2>1 DEF CallsMade
  <2>6. stack' = Frame(0) /\ order' \in Nat /\ order' # 0
    BY <2>1 DEF Frame, Frames, Shapes
  <2> QED BY <2>1, <2>3, <2>4, <2>5, <2>6 DEF Shapes, Entering
<1>3. CASE Finished
  <2>1. /\ order' = order /\ rip' = rip /\ reg' = reg /\ stack' = stack
        /\ status' = status /\ called' = called
    BY <1>3 DEF Finished, vars
  <2>2. Shapes'
    BY <2>1 DEF Shapes
  <2>3. InLoop'
    BY <2>1 DEF InLoop, Kept, CallsMade, CallMade
  <2> QED BY <2>2, <2>3
<1> QED BY <1>1, <1>2, <1>3 DEF Next

-----------------------------------------------------------------------------
(* The bytes of the prologue, of the k-th call and of the epilogue.        *)
LEMMA PrologueBytes ==
  /\ \A n \in 0 .. 2 : Code[2 * n + 1] = 65 /\ Code[2 * n + 2] = 84 + n
  /\ Code[7] = 73 /\ Code[8] = 137 /\ Code[9] = 252
  /\ Code[10] = 73 /\ Code[11] = 137 /\ Code[12] = 245
  /\ Code[13] = 73 /\ Code[14] = 137 /\ Code[15] = 214
<1>1. \A i \in 1 .. 15 : Code[i] = Prologue[i]
  BY WholeCode DEF CodeLaidOut
<1>2. /\ Code[1] = 65 /\ Code[2] = 84 /\ Code[3] = 65 /\ Code[4] = 85
      /\ Code[5] = 65 /\ Code[6] = 86
  BY <1>1 DEF Prologue
<1>3. /\ Code[7] = 73 /\ Code[8] = 137 /\ Code[9] = 252
      /\ Code[10] = 73 /\ Code[11] = 137 /\ Code[12] = 245
      /\ Code[13] = 73 /\ Code[14] = 137 /\ Code[15] = 214
  BY <1>1 DEF Prologue
<1>4. ASSUME NEW n \in 0 .. 2 PROVE Code[2 * n + 1] = 65 /\ Code[2 * n + 2] = 84 + n
  <2>1. CASE n = 0
    BY <1>2, <2>1
  <2>2. CASE n = 1
    BY <1>2, <2>2
  <2>3. CASE n = 2
    BY <1>2, <2>3
  <2> QED BY <2>1, <2>2, <2>3
<1> QED BY <1>3, <1>4

HasAddress(b, k) == \A i \in 1 .. 8 : Code[b + 11 + i] = Address[Operations[k]][i]

LEMMA CallBytes ==
  ASSUME NEW k \in 1 .. 8, NEW b \in Nat, b = 15 + 21 * (k - 1)
  PROVE  /\ Code[b + 1] = 76 /\ Code[b + 2] = 137 /\ Code[b + 3] = 231
         /\ Code[b + 4] = 76 /\ Code[b + 5] = 137 /\ Code[b + 6] = 238
         /\ Code[b + 7] = 76 /\ Code[b + 8] = 137 /\ Code[b + 9] = 242
         /\ Code[b + 10] = 72 /\ Code[b + 11] = 184
         /\ Code[b + 20] = 255 /\ Code[b + 21] = 208
         /\ HasAddress(b, k)
<1>1. PICK call : call = CallCode(k)
  OBVIOUS
<1>2. ASSUME NEW i \in 1 .. 21 PROVE Code[b + i] = call[i]
  <2>1. \A m \in 1 .. 8, j \in 1 .. 21 : Code[15 + 21 * (m - 1) + j] = CallCode(m)[j]
    BY WholeCode DEF CodeLaidOut
  <2> QED BY <1>1, <2>1
<1>3. ASSUME NEW i \in 1 .. 8
      PROVE  Code[b + 11 + i] = Address[Operations[k]][i]
  <2>1. PICK j \in 1 .. 21 : j = 11 + i /\ b + j = b + 11 + i
    OBVIOUS
  <2>2. call[11 + i] = Address[Operations[k]][i]
    BY <1>1, CallCodeIs
  <2> QED BY <1>2, <2>1, <2>2
<1>4. /\ call[1] = 76 /\ call[2] = 137 /\ call[3] = 231
      /\ call[4] = 76 /\ call[5] = 137 /\ call[6] = 238
      /\ call[7] = 76 /\ call[8] = 137 /\ call[9] = 242
      /\ call[10] = 72 /\ call[11] = 184 /\ call[20] = 255 /\ call[21] = 208
  BY <1>1 DEF CallCode
<1>5. HasAddress(b, k)
  BY <1>3 DEF HasAddress
<1> QED BY <1>2, <1>4, <1>5

LEMMA EpilogueBytes ==
  /\ Code[184] = 65 /\ Code[185] = 139 /\ Code[186] = 68 /\ Code[187] = 36
  /\ Code[188] = 24
  /\ \A n \in 0 .. 2 : Code[189 + 2 * n] = 65 /\ Code[190 + 2 * n] = 94 - n
  /\ Code[195] = 195
<1>1. \A i \in 1 .. 12 : Code[183 + i] = Epilogue[i]
  BY WholeCode DEF CodeLaidOut
<1>2. /\ Epilogue[1] = 65 /\ Epilogue[2] = 139 /\ Epilogue[3] = 68
      /\ Epilogue[4] = 36 /\ Epilogue[5] = 24 /\ Epilogue[6] = 65
      /\ Epilogue[7] = 94 /\ Epilogue[8] = 65 /\ Epilogue[9] = 93
      /\ Epilogue[10] = 65 /\ Epilogue[11] = 92 /\ Epilogue[12] = 195
  BY DEF Epilogue
<1>3. /\ Code[183 + 1] = 65 /\ Code[183 + 2] = 139 /\ Code[183 + 3] = 68
      /\ Code[183 + 4] = 36 /\ Code[183 + 5] = 24 /\ Code[183 + 6] = 65
      /\ Code[183 + 7] = 94 /\ Code[183 + 8] = 65 /\ Code[183 + 9] = 93
      /\ Code[183 + 10] = 65 /\ Code[183 + 11] = 92 /\ Code[183 + 12] = 195
  BY <1>1, <1>2
<1>4. ASSUME NEW n \in 0 .. 2 PROVE Code[189 + 2 * n] = 65 /\ Code[190 + 2 * n] = 94 - n
  <2>1. CASE n = 0
    BY <1>3, <2>1
  <2>2. CASE n = 1
    BY <1>3, <2>2
  <2>3. CASE n = 2
    BY <1>3, <2>3
  <2> QED BY <2>1, <2>2, <2>3
<1> QED BY <1>3, <1>4

-----------------------------------------------------------------------------
(* One instruction after the other.  What a step that changes one register *)
(* leaves alone:                                                           *)
LEMMA MoveKeeps ==
  ASSUME Shapes, NEW r \in Names, NEW v, Move(r, v), order' = order
  PROVE  /\ Shapes' /\ stack' = stack /\ called' = called /\ status' = status
         /\ reg'[r] = v
         /\ \A other \in Names : other # r => reg'[other] = reg[other]
BY DEF Shapes, Move

LEMMA PushKeeps ==
  ASSUME Shapes, NEW r, Push(r), order' = order
  PROVE  /\ Shapes' /\ called' = called /\ status' = status /\ reg' = reg
         /\ stack' = << reg[r] >> \o stack
BY DEF Shapes, Push

LEMMA PopKeeps ==
  ASSUME Shapes, NEW r \in Names, Pop(r), order' = order
  PROVE  /\ Shapes' /\ called' = called /\ status' = status
         /\ stack' = Tail(stack) /\ reg'[r] = Head(stack)
         /\ \A other \in Names : other # r => reg'[other] = reg[other]
BY DEF Shapes, Pop

LEMMA CallsMadeKept ==
  ASSUME NEW n, CallsMade(n), called' = called, order' = order
  PROVE  CallsMade(n)'
BY DEF CallsMade, CallMade

LEMMA EnteringStep ==
  ASSUME Shapes, NEW n \in 0 .. 2, Entering(n), Next
  PROVE  Shapes' /\ order' = order /\ Entering(n + 1)'
<1>1. PICK m \in 0 .. 7 : m = 4 + n
  OBVIOUS
<1>2. rip \in Nat /\ At(0) = 65 /\ At(1) = 80 + m
  BY <1>1, PrologueBytes DEF Entering, At
<1>3. Push(Registers[m + 9]) /\ rip' = rip + 2 /\ order' = order
  BY <1>2, DecodePush
<1>4. Registers[m + 9] = Saved[n + 1] /\ Saved[n + 1] \in CalleeSaved
  BY <1>1 DEF Registers, Saved, CalleeSaved
<1>5. PICK r : r = Saved[n + 1]
  OBVIOUS
<1>6. /\ Shapes' /\ called' = called /\ reg' = reg
      /\ stack' = << reg[r] >> \o stack
  BY <1>3, <1>4, <1>5, PushKeeps
<1>7. reg[r] = <<"caller", r>> /\ stack = Frame(n)
  BY <1>4, <1>5 DEF Entering, Kept
<1>8. stack' = Frame(n + 1)
  BY <1>5, <1>6, <1>7, FramePushed
<1>9. rip' = 2 * (n + 1)
  BY <1>3 DEF Entering
<1>10. CallsMade(0)'
  BY <1>3, <1>6, CallsMadeKept DEF Entering
<1>11. Kept(CalleeSaved)' /\ HasWriter("rdi")' /\ HasOrder("rsi")' /\ HasBatch("rdx")'
  BY <1>3, <1>6 DEF Entering, Kept, HasWriter, HasOrder, HasBatch
<1> QED BY <1>3, <1>6, <1>8, <1>9, <1>10, <1>11 DEF Entering

(* The three moves that save the arguments.                                *)
LEMMA SaveWriter ==
  ASSUME Shapes, Entering(3), Next
  PROVE  Shapes' /\ order' = order /\ Copying(1)'
<1>1. rip = 6
  BY DEF Entering
<1>2. At(0) = 72 + 4 * 0 + 1 /\ At(1) = 137 /\ At(2) = 192 + 8 * 7 + 4
  BY <1>1, PrologueBytes DEF At
<1>3. /\ Move(Registers[8 * 1 + 4 + 1], reg[Registers[8 * 0 + 7 + 1]])
      /\ rip' = rip + 3 /\ order' = order
  BY <1>1, <1>2, DecodeMove
<1>4. Move("r12", reg["rdi"])
  BY <1>3 DEF Registers
<1>5. /\ Shapes' /\ stack' = stack /\ called' = called /\ reg'["r12"] = reg["rdi"]
      /\ \A other \in Names : other # "r12" => reg'[other] = reg[other]
  BY <1>3, <1>4, MoveKeeps DEF Names
<1>6. Kept({"rbx", "rbp", "r15"})'
  BY <1>5 DEF Entering, Kept, CalleeSaved, Names
<1>7. HasOrder("rsi")' /\ HasBatch("rdx")' /\ HasWriter("r12")'
  BY <1>3, <1>5 DEF Entering, HasWriter, HasOrder, HasBatch, Names
<1>8. CallsMade(0)'
  BY <1>3, <1>5, CallsMadeKept DEF Entering
<1> QED BY <1>1, <1>3, <1>5, <1>6, <1>7, <1>8 DEF Copying, Entering

LEMMA SaveOrder ==
  ASSUME Shapes, Copying(1), Next
  PROVE  Shapes' /\ order' = order /\ Copying(2)'
<1>1. rip = 9
  BY DEF Copying
<1>2. At(0) = 72 + 4 * 0 + 1 /\ At(1) = 137 /\ At(2) = 192 + 8 * 6 + 5
  BY <1>1, PrologueBytes DEF At
<1>3. /\ Move(Registers[8 * 1 + 5 + 1], reg[Registers[8 * 0 + 6 + 1]])
      /\ rip' = rip + 3 /\ order' = order
  BY <1>1, <1>2, DecodeMove
<1>4. Move("r13", reg["rsi"])
  BY <1>3 DEF Registers
<1>5. /\ Shapes' /\ stack' = stack /\ called' = called /\ reg'["r13"] = reg["rsi"]
      /\ \A other \in Names : other # "r13" => reg'[other] = reg[other]
  BY <1>3, <1>4, MoveKeeps DEF Names
<1>6. Kept({"rbx", "rbp", "r15"})'
  BY <1>5 DEF Copying, Kept, Names
<1>7. HasOrder("rsi")' /\ HasBatch("rdx")' /\ HasWriter("r12")' /\ HasOrder("r13")'
  BY <1>3, <1>5 DEF Copying, HasWriter, HasOrder, HasBatch, Names
<1>8. CallsMade(0)'
  BY <1>3, <1>5, CallsMadeKept DEF Copying
<1> QED BY <1>1, <1>3, <1>5, <1>6, <1>7, <1>8 DEF Copying

LEMMA SaveBatch ==
  ASSUME Shapes, Copying(2), Next
  PROVE  Shapes' /\ order' = order /\ Calling(1, 0)'
<1>1. rip = 12
  BY DEF Copying
<1>2. At(0) = 72 + 4 * 0 + 1 /\ At(1) = 137 /\ At(2) = 192 + 8 * 2 + 6
  BY <1>1, PrologueBytes DEF At
<1>3. /\ Move(Registers[8 * 1 + 6 + 1], reg[Registers[8 * 0 + 2 + 1]])
      /\ rip' = rip + 3 /\ order' = order
  BY <1>1, <1>2, DecodeMove
<1>4. Move("r14", reg["rdx"])
  BY <1>3 DEF Registers
<1>5. /\ Shapes' /\ stack' = stack /\ called' = called /\ reg'["r14"] = reg["rdx"]
      /\ \A other \in Names : other # "r14" => reg'[other] = reg[other]
  BY <1>3, <1>4, MoveKeeps DEF Names
<1>6. Kept({"rbx", "rbp", "r15"})'
  BY <1>5 DEF Copying, Kept, Names
<1>7. HasWriter("r12")' /\ HasOrder("r13")' /\ HasBatch("r14")'
  BY <1>3, <1>5 DEF Copying, HasWriter, HasOrder, HasBatch, Names
<1>8. CallsMade(0)'
  BY <1>3, <1>5, CallsMadeKept DEF Copying
<1>9. rip' = 15 /\ stack' = Frame(3)
  BY <1>1, <1>3, <1>5 DEF Copying
<1> QED BY <1>3, <1>5, <1>6, <1>7, <1>8, <1>9 DEF Calling, Working

(* The three moves before a call.                                          *)
LEMMA WorkingKept ==
  ASSUME Working, order' = order, stack' = stack,
         \A r \in {"rbx", "rbp", "r12", "r13", "r14", "r15"} : reg'[r] = reg[r]
  PROVE  Working'
BY DEF Working, Kept, HasWriter, HasOrder, HasBatch

LEMMA PassWriter ==
  ASSUME Shapes, NEW k \in 1 .. 8, Calling(k, 0), Next
  PROVE  Shapes' /\ order' = order /\ Calling(k, 1)'
<1>1. PICK b \in Nat : b = 15 + 21 * (k - 1) /\ rip = b
  BY DEF Calling
<1>2. At(0) = 72 + 4 * 1 + 0 /\ At(1) = 137 /\ At(2) = 192 + 8 * 4 + 7
  BY <1>1, CallBytes DEF At
<1>3. /\ Move(Registers[8 * 0 + 7 + 1], reg[Registers[8 * 1 + 4 + 1]])
      /\ rip' = rip + 3 /\ order' = order
  BY <1>1, <1>2, DecodeMove
<1>4. Move("rdi", reg["r12"])
  BY <1>3 DEF Registers
<1>5. /\ Shapes' /\ stack' = stack /\ called' = called /\ reg'["rdi"] = reg["r12"]
      /\ \A other \in Names : other # "rdi" => reg'[other] = reg[other]
  BY <1>3, <1>4, MoveKeeps DEF Names
<1>6. Working'
  BY <1>3, <1>5, WorkingKept DEF Calling, Names
<1>7. HasWriter("rdi")'
  BY <1>5 DEF Calling, Working, HasWriter
<1>8. CallsMade(k - 1)'
  BY <1>3, <1>5, CallsMadeKept DEF Calling
<1> QED BY <1>1, <1>3, <1>5, <1>6, <1>7, <1>8 DEF Calling

LEMMA PassOrder ==
  ASSUME Shapes, NEW k \in 1 .. 8, Calling(k, 1), Next
  PROVE  Shapes' /\ order' = order /\ Calling(k, 2)'
<1>1. PICK b \in Nat : b = 15 + 21 * (k - 1) /\ rip = b + 3
  BY DEF Calling
<1>2. At(0) = 72 + 4 * 1 + 0 /\ At(1) = 137 /\ At(2) = 192 + 8 * 5 + 6
  BY <1>1, CallBytes DEF At
<1>3. /\ Move(Registers[8 * 0 + 6 + 1], reg[Registers[8 * 1 + 5 + 1]])
      /\ rip' = rip + 3 /\ order' = order
  BY <1>1, <1>2, DecodeMove
<1>4. Move("rsi", reg["r13"])
  BY <1>3 DEF Registers
<1>5. /\ Shapes' /\ stack' = stack /\ called' = called /\ reg'["rsi"] = reg["r13"]
      /\ \A other \in Names : other # "rsi" => reg'[other] = reg[other]
  BY <1>3, <1>4, MoveKeeps DEF Names
<1>6. Working'
  BY <1>3, <1>5, WorkingKept DEF Calling, Names
<1>7. HasWriter("rdi")' /\ HasOrder("rsi")'
  BY <1>3, <1>5 DEF Calling, Working, HasWriter, HasOrder, Names
<1>8. CallsMade(k - 1)'
  BY <1>3, <1>5, CallsMadeKept DEF Calling
<1> QED BY <1>1, <1>3, <1>5, <1>6, <1>7, <1>8 DEF Calling

LEMMA PassBatch ==
  ASSUME Shapes, NEW k \in 1 .. 8, Calling(k, 2), Next
  PROVE  Shapes' /\ order' = order /\ Calling(k, 3)'
<1>1. PICK b \in Nat : b = 15 + 21 * (k - 1) /\ rip = b + 6
  BY DEF Calling
<1>2. At(0) = 72 + 4 * 1 + 0 /\ At(1) = 137 /\ At(2) = 192 + 8 * 6 + 2
  BY <1>1, CallBytes DEF At
<1>3. /\ Move(Registers[8 * 0 + 2 + 1], reg[Registers[8 * 1 + 6 + 1]])
      /\ rip' = rip + 3 /\ order' = order
  BY <1>1, <1>2, DecodeMove
<1>4. Move("rdx", reg["r14"])
  BY <1>3 DEF Registers
<1>5. /\ Shapes' /\ stack' = stack /\ called' = called /\ reg'["rdx"] = reg["r14"]
      /\ \A other \in Names : other # "rdx" => reg'[other] = reg[other]
  BY <1>3, <1>4, MoveKeeps DEF Names
<1>6. Working'
  BY <1>3, <1>5, WorkingKept DEF Calling, Names
<1>7. HasWriter("rdi")' /\ HasOrder("rsi")' /\ HasBatch("rdx")'
  BY <1>3, <1>5 DEF Calling, Working, HasWriter, HasOrder, HasBatch, Names
<1>8. CallsMade(k - 1)'
  BY <1>3, <1>5, CallsMadeKept DEF Calling
<1> QED BY <1>1, <1>3, <1>5, <1>6, <1>7, <1>8 DEF Calling

(* The address of the operation is loaded, and the operation is called.    *)
LEMMA LoadAddress ==
  ASSUME Shapes, NEW k \in 1 .. 8, Calling(k, 3), Next
  PROVE  Shapes' /\ order' = order /\ Loaded(k)'
<1>1. PICK b \in Nat : b = 15 + 21 * (k - 1) /\ rip = b + 9
  BY DEF Calling
<1>2. At(0) = 72 /\ At(1) = 184
  BY <1>1, CallBytes DEF At
<1>3. /\ Move("rax", SubSeq(Code, rip + 3, rip + 10))
      /\ rip' = rip + 10 /\ order' = order
  BY <1>1, <1>2, DecodeMovabs
<1>4. SubSeq(Code, rip + 3, rip + 10) = Address[Operations[k]]
  <2>1. PICK a \in Seq(Octets) : a = Address[Operations[k]] /\ Len(a) = 8
    BY AddressType
  <2>2. PICK code \in Seq(Octets) : code = Code /\ Len(code) = 195
    BY WholeCode DEF CodeLaidOut
  <2>3. PICK word : word = SubSeq(code, b + 12, b + 19)
    OBVIOUS
  <2>4. ASSUME NEW i \in b + 12 .. b + 19 PROVE code[i] \in Octets
    <3>1. i \in 1 .. 195
      BY <1>1
    <3>2. code \in [1 .. 195 -> Octets]
      BY <2>2, LenProperties
    <3> QED BY <3>1, <3>2
  <2>5. /\ word \in Seq(Octets) /\ Len(word) = 8
        /\ \A i \in 1 .. 8 : word[i] = code[b + 12 + i - 1]
    <3>1. b + 12 \in Int /\ b + 19 \in Int /\ b + 12 <= b + 19
          /\ (b + 19) - (b + 12) + 1 = 8
      OBVIOUS
    <3>2. word \in Seq(Octets)
      BY <2>3, <2>4, <3>1, SubSeqProperties
    <3>3. Len(word) = 8
      BY <2>3, <2>4, <3>1, SubSeqProperties
    <3>4. \A i \in 1 .. 8 : word[i] = code[b + 12 + i - 1]
      BY <2>3, <2>4, <3>1, SubSeqProperties
    <3> QED BY <3>2, <3>3, <3>4
  <2>6. ASSUME NEW i \in 1 .. 8 PROVE word[i] = a[i]
    <3>1. b + 12 + i - 1 = b + 11 + i
      OBVIOUS
    <3>2. code[b + 11 + i] = a[i]
      <4>1. HasAddress(b, k)
        BY <1>1, CallBytes
      <4> QED BY <2>1, <2>2, <4>1 DEF HasAddress
    <3> QED BY <2>5, <3>1, <3>2
  <2>7. word = a
    <3>1. Len(word) = Len(a) /\ \A i \in 1 .. Len(word) : word[i] = a[i]
      BY <2>1, <2>5, <2>6
    <3> QED BY <2>5, <3>1, SeqEqual
  <2>8. rip + 3 = b + 12 /\ rip + 10 = b + 19
    BY <1>1
  <2> QED BY <2>1, <2>2, <2>3, <2>7, <2>8
<1>5. /\ Shapes' /\ stack' = stack /\ called' = called
      /\ reg'["rax"] = Address[Operations[k]]
      /\ \A other \in Names : other # "rax" => reg'[other] = reg[other]
  <2>1. PICK a : a = Address[Operations[k]]
    OBVIOUS
  <2>2. Move("rax", a)
    BY <1>3, <1>4, <2>1
  <2> QED BY <1>3, <2>1, <2>2, MoveKeeps DEF Names
<1>6. Working'
  BY <1>3, <1>5, WorkingKept DEF Calling, Names
<1>7. HasWriter("rdi")' /\ HasOrder("rsi")' /\ HasBatch("rdx")'
  BY <1>3, <1>5 DEF Calling, HasWriter, HasOrder, HasBatch, Names
<1>8. CallsMade(k - 1)'
  BY <1>3, <1>5, CallsMadeKept DEF Calling
<1> QED BY <1>1, <1>3, <1>5, <1>6, <1>7, <1>8 DEF Loaded

(* What a call does: the next operation is called, and no other.           *)
LEMMA CallStep ==
  ASSUME Shapes, NEW k \in 1 .. 8, Loaded(k), Next
  PROVE  /\ CallOperation
         /\ called' = Append(called, CallMade(k))
<1>1. PICK b \in Nat : b = 15 + 21 * (k - 1) /\ rip = b + 19
  BY DEF Loaded
<1>2. At(0) = 255 /\ At(1) = 208
  BY <1>1, CallBytes DEF At
<1>3. CallOperation /\ Rm = "rax"
  BY <1>1, <1>2, DecodeCall
<1>4. PICK m \in 1 .. Len(Operations) :
        /\ Address[Operations[m]] = reg[Rm]
        /\ called' = Append(called,
             [op |-> Operations[m], aligned |-> Aligned,
              arguments |-> << reg["rdi"], reg["rsi"], reg["rdx"] >>])
  BY <1>3 DEF CallOperation
<1>5. m = k
  BY <1>3, <1>4, AddressAssumption, OperationCount DEF Loaded
<1>6. Aligned = TRUE
  <2>1. Len(stack) = 4
    BY FramesAre DEF Loaded, Working
  <2> QED BY <2>1 DEF Aligned
<1>7. << reg["rdi"], reg["rsi"], reg["rdx"] >>
        = << <<"writer">>, <<"order", order>>, <<"batch">> >>
  BY DEF Loaded, HasWriter, HasOrder, HasBatch
<1> QED BY <1>3, <1>4, <1>5, <1>6, <1>7 DEF CallMade

LEMMA CallOrderOperation ==
  ASSUME Shapes, NEW k \in 1 .. 8, Loaded(k), Next
  PROVE  Shapes' /\ order' = order /\ Calling(k + 1, 0)'
<1>1. PICK b \in Nat : b = 15 + 21 * (k - 1) /\ rip = b + 19
  BY DEF Loaded
<1>2. At(0) = 255 /\ At(1) = 208
  BY <1>1, CallBytes DEF At
<1>3. CallOperation /\ Op = 0
  BY <1>1, <1>2, DecodeCall
<1>4. /\ rip' = rip + 2 /\ order' = order /\ stack' = stack
      /\ reg' = [r \in General |-> IF r \in CalleeSaved THEN reg[r] ELSE Junk]
  BY <1>1, <1>3 DEF CallOperation
<1>5. DOMAIN reg' = Names
  BY <1>4, GeneralIs
<1>6. status' \in {"OK", "NO_SPACE", "INVALID_ARGUMENT"}
  BY <1>3 DEF CallOperation, Shapes
<1>7. Shapes'
  BY <1>4, <1>5, <1>6 DEF Shapes
<1>8. \A r \in CalleeSaved : reg'[r] = reg[r]
  BY <1>4, GeneralIs DEF CalleeSaved, Names
<1>9. Working'
  BY <1>4, <1>8, WorkingKept DEF Loaded, CalleeSaved
<1>10. CallsMade(k)'
  <2>1. PICK made : made = [i \in 1 .. 8 |-> CallMade(i)]
    OBVIOUS
  <2>2. called = [i \in 1 .. k - 1 |-> made[i]]
    BY <2>1 DEF Loaded, CallsMade
  <2>3. PICK S : S = {made[i] : i \in 1 .. 8}
    OBVIOUS
  <2>4. called \in Seq(S) /\ Len(called) = k - 1 /\ made[k] \in S
    BY <2>2, <2>3
  <2>5. called' = Append(called, made[k])
    BY <2>1, CallStep
  <2>6. PICK all : all = [i \in 1 .. k |-> made[i]]
    OBVIOUS
  <2>7. all \in Seq(S) /\ Len(all) = k
    BY <2>3, <2>6
  <2>8. /\ called' \in Seq(S) /\ Len(called') = k /\ called'[k] = made[k]
        /\ \A i \in 1 .. k - 1 : called'[i] = called[i]
    BY <2>4, <2>5, AppendProperties
  <2>9. ASSUME NEW i \in 1 .. k PROVE called'[i] = all[i]
    <3>1. CASE i = k
      BY <2>6, <2>8, <3>1
    <3>2. CASE i # k
      <4>1. i \in 1 .. k - 1
        BY <3>2
      <4> QED BY <2>2, <2>6, <2>8, <4>1
    <3> QED BY <3>1, <3>2
  <2>10. called' = all
    BY <2>7, <2>8, <2>9, SeqEqual
  <2>11. \A i \in 1 .. k : made[i] = CallMade(i) /\ CallMade(i)' = CallMade(i)
    BY <1>4, <2>1 DEF CallMade
  <2> QED BY <2>6, <2>10, <2>11 DEF CallsMade
<1>11. rip' = 15 + 21 * ((k + 1) - 1) + 3 * 0
  BY <1>1, <1>4
<1>12. CallsMade((k + 1) - 1)'
  BY <1>10
<1> QED BY <1>4, <1>7, <1>9, <1>11, <1>12 DEF Calling

(* The epilogue: the status, the three registers and the return address.   *)
LEMMA LoadStatus ==
  ASSUME Shapes, Calling(9, 0), Next
  PROVE  Shapes' /\ order' = order /\ Leaving(0)'
<1>1. rip = 183 /\ reg["r12"] = <<"writer">> /\ stack = Frame(3)
      /\ Kept({"rbx", "rbp", "r15"}) /\ CallsMade(8)
  <2>1. 15 + 21 * (9 - 1) + 3 * 0 = 183 /\ 9 - 1 = 8
    OBVIOUS
  <2> QED BY <2>1 DEF Calling, Working, HasWriter
<1>2. At(0) = 65 /\ At(1) = 139 /\ At(2) = 68 /\ At(3) = 36 /\ At(4) = 24
  BY <1>1, EpilogueBytes DEF At
<1>3. Move("rax", Word(reg["r12"], 24)) /\ rip' = rip + 5 /\ order' = order
  BY <1>1, <1>2, DecodeLoad
<1>4. Word(reg["r12"], 24) = <<"status", status>>
  BY <1>1 DEF Word
<1>5. /\ Shapes' /\ stack' = stack /\ called' = called /\ status' = status
      /\ reg'["rax"] = <<"status", status>>
      /\ \A other \in Names : other # "rax" => reg'[other] = reg[other]
  <2>1. PICK v : v = <<"status", status>>
    OBVIOUS
  <2>2. Move("rax", v)
    BY <1>3, <1>4, <2>1
  <2> QED BY <1>3, <2>1, <2>2, MoveKeeps DEF Names
<1>6. Kept({"rbx", "rbp", "r15"})'
  BY <1>1, <1>5 DEF Kept, Names
<1>7. CallsMade(8)'
  BY <1>1, <1>3, <1>5, CallsMadeKept
<1>8. {"rbx", "rbp", "r15"} \cup {Saved[i] : i \in 4 - 0 .. 3} = {"rbx", "rbp", "r15"}
  OBVIOUS
<1>9. rip' = 188 + 2 * 0 /\ stack' = Frame(3 - 0)
  BY <1>1, <1>3, <1>5
<1>10. reg'["rax"] = <<"status", status'>>
  BY <1>5
<1>11. Kept({"rbx", "rbp", "r15"} \cup {Saved[i] : i \in 4 - 0 .. 3})'
  BY <1>6, <1>8
<1> QED BY <1>3, <1>5, <1>7, <1>9, <1>10, <1>11 DEF Leaving

LEMMA LeavingStep ==
  ASSUME Shapes, NEW n \in 0 .. 2, Leaving(n), Next
  PROVE  Shapes' /\ order' = order /\ Leaving(n + 1)'
<1>1. PICK m \in 0 .. 7 : m = 6 - n
  OBVIOUS
<1>2. rip \in Nat /\ At(0) = 65 /\ At(1) = 88 + m
  <2>1. rip = 188 + 2 * n
    BY DEF Leaving
  <2>2. Code[189 + 2 * n] = 65 /\ Code[190 + 2 * n] = 94 - n
    BY EpilogueBytes
  <2>3. rip + 0 + 1 = 189 + 2 * n /\ rip + 1 + 1 = 190 + 2 * n
    BY <2>1
  <2> QED BY <1>1, <2>1, <2>2, <2>3 DEF At
<1>3. Pop(Registers[m + 9]) /\ rip' = rip + 2 /\ order' = order
  BY <1>2, DecodePop
<1>4. PICK r : r = Saved[3 - n]
  OBVIOUS
<1>5. Registers[m + 9] = r /\ r \in Names /\ r \notin {"rax", "rbx", "rbp", "r15"}
  BY <1>1, <1>4 DEF Registers, Saved, Names
<1>6. /\ Shapes' /\ called' = called /\ status' = status
      /\ stack' = Tail(stack) /\ reg'[r] = Head(stack)
      /\ \A other \in Names : other # r => reg'[other] = reg[other]
  BY <1>3, <1>5, PopKeeps
<1>7. PICK j \in 0 .. 2 : j = 2 - n /\ j + 1 = 3 - n /\ j = 3 - (n + 1)
  <2>1. 2 - n \in 0 .. 2 /\ (2 - n) + 1 = 3 - n /\ 2 - n = 3 - (n + 1)
    OBVIOUS
  <2> QED BY <2>1
<1>8. Head(Frame(j + 1)) = <<"caller", Saved[j + 1]>> /\ Tail(Frame(j + 1)) = Frame(j)
  BY FramePopped
<1>9. stack = Frame(j + 1)
  BY <1>7 DEF Leaving
<1>10. stack' = Frame(3 - (n + 1)) /\ reg'[r] = <<"caller", r>>
  BY <1>4, <1>6, <1>7, <1>8, <1>9
<1>11. reg'["rax"] = <<"status", status'>>
  BY <1>5, <1>6 DEF Leaving, Names
<1>12. Kept({"rbx", "rbp", "r15"} \cup {Saved[i] : i \in 4 - (n + 1) .. 3})'
  <2>1. ASSUME NEW q \in {"rbx", "rbp", "r15"} \cup {Saved[i] : i \in 4 - (n + 1) .. 3}
        PROVE  reg'[q] = <<"caller", q>>
    <3>1. CASE q = r
      BY <1>10, <3>1
    <3>2. CASE q # r
      <4>1. q \in {"rbx", "rbp", "r15"} \cup {Saved[i] : i \in 4 - n .. 3}
        <5>1. CASE q \in {"rbx", "rbp", "r15"}
          BY <5>1
        <5>2. CASE q \in {Saved[i] : i \in 4 - (n + 1) .. 3}
          <6>1. PICK i \in 4 - (n + 1) .. 3 : q = Saved[i]
            BY <5>2
          <6>2. i # 3 - n
            BY <1>4, <3>2, <6>1
          <6>3. i \in 4 - n .. 3
            BY <6>2
          <6> QED BY <6>1, <6>3
        <5> QED BY <5>1, <5>2
      <4>2. q \in Names
        BY DEF Names, Saved
      <4>3. reg[q] = <<"caller", q>>
        BY <4>1 DEF Leaving, Kept
      <4> QED BY <1>6, <3>2, <4>2, <4>3
    <3> QED BY <3>1, <3>2
  <2> QED BY <2>1 DEF Kept
<1>13. CallsMade(8)'
  BY <1>3, <1>6, CallsMadeKept DEF Leaving
<1>14. rip' = 188 + 2 * (n + 1)
  BY <1>3 DEF Leaving
<1> QED BY <1>3, <1>6, <1>10, <1>11, <1>12, <1>13, <1>14 DEF Leaving

LEMMA ReturnStep ==
  ASSUME Shapes, order # 0, Leaving(3), Next
  PROVE  Shapes' /\ order' = order /\ InLoop'
<1>1. rip = 194 /\ stack = Frame(0) /\ reg["rax"] = <<"status", status>> /\ CallsMade(8)
  BY DEF Leaving
<1>2. At(0) = 195
  BY <1>1, EpilogueBytes DEF At
<1>3. Return
  BY <1>1, <1>2, DecodeReturn
<1>4. /\ rip' = -1 /\ stack' = Tail(stack) /\ order' = order /\ reg' = reg
      /\ status' = status /\ called' = called
  BY <1>3 DEF Return
<1>5. stack' = <<>>
  <2>1. PICK x : x = <<"return">>
    OBVIOUS
  <2>2. stack = << x >>
    BY <1>1, <2>1, FramesAre
  <2>3. Tail(<< x >>) = <<>>
    OBVIOUS
  <2> QED BY <1>4, <2>2, <2>3
<1>6. Kept(CalleeSaved)'
  <2>1. CalleeSaved = {"rbx", "rbp", "r15"} \cup {Saved[i] : i \in 4 - 3 .. 3}
    <3>1. Saved[1] = "r12" /\ Saved[2] = "r13" /\ Saved[3] = "r14"
      BY FramesAre
    <3>2. {Saved[i] : i \in 4 - 3 .. 3} = {Saved[1], Saved[2], Saved[3]}
      OBVIOUS
    <3> QED BY <3>1, <3>2 DEF CalleeSaved
  <2>2. Kept(CalleeSaved)
    BY <2>1 DEF Leaving
  <2> QED BY <1>4, <2>2 DEF Kept
<1>7. CallsMade(8)'
  BY <1>1, <1>4, CallsMadeKept
<1> QED BY <1>1, <1>4, <1>5, <1>6, <1>7 DEF Shapes, InLoop

-----------------------------------------------------------------------------
LEMMA InCodeStep ==
  ASSUME Shapes, order # 0, InCode, Next
  PROVE  Shapes' /\ order' = order /\ (InLoop' \/ InCode')
<1>1. ASSUME NEW n \in 0 .. 3, Entering(n)
      PROVE  Shapes' /\ order' = order /\ InCode'
  <2>1. CASE n = 3
    BY <1>1, <2>1, SaveWriter DEF InCode
  <2>2. CASE n # 3
    <3>1. n \in 0 .. 2 /\ n + 1 \in 0 .. 3
      BY <2>2
    <3> QED BY <1>1, <3>1, EnteringStep DEF InCode
  <2> QED BY <2>1, <2>2
<1>2. ASSUME NEW n \in 1 .. 2, Copying(n)
      PROVE  Shapes' /\ order' = order /\ InCode'
  <2>1. CASE n = 1
    BY <1>2, <2>1, SaveOrder DEF InCode
  <2>2. CASE n = 2
    BY <1>2, <2>2, SaveBatch DEF InCode
  <2> QED BY <2>1, <2>2
<1>3. ASSUME NEW k \in 1 .. 8, NEW n \in 0 .. 3, Calling(k, n)
      PROVE  Shapes' /\ order' = order /\ InCode'
  <2>1. CASE n = 0
    BY <1>3, <2>1, PassWriter DEF InCode
  <2>2. CASE n = 1
    BY <1>3, <2>2, PassOrder DEF InCode
  <2>3. CASE n = 2
    BY <1>3, <2>3, PassBatch DEF InCode
  <2>4. CASE n = 3
    BY <1>3, <2>4, LoadAddress DEF InCode
  <2> QED BY <2>1, <2>2, <2>3, <2>4
<1>4. ASSUME NEW k \in 1 .. 8, Loaded(k)
      PROVE  Shapes' /\ order' = order /\ InCode'
  <2>1. Shapes' /\ order' = order /\ Calling(k + 1, 0)'
    BY <1>4, CallOrderOperation
  <2>2. CASE k = 8
    BY <2>1, <2>2 DEF InCode
  <2>3. CASE k # 8
    <3>1. PICK m \in 1 .. 8 : m = k + 1
      BY <2>3
    <3>2. Calling(m, 0)'
      BY <2>1, <3>1
    <3> QED BY <2>1, <3>2 DEF InCode
  <2> QED BY <2>2, <2>3
<1>5. ASSUME Calling(9, 0)
      PROVE  Shapes' /\ order' = order /\ InCode'
  BY <1>5, LoadStatus DEF InCode
<1>6. ASSUME NEW n \in 0 .. 3, Leaving(n)
      PROVE  Shapes' /\ order' = order /\ (InLoop' \/ InCode')
  <2>1. CASE n = 3
    BY <1>6, <2>1, ReturnStep
  <2>2. CASE n # 3
    <3>1. n \in 0 .. 2 /\ n + 1 \in 0 .. 3
      BY <2>2
    <3> QED BY <1>6, <3>1, LeavingStep DEF InCode
  <2> QED BY <2>1, <2>2
<1> QED BY <1>1, <1>2, <1>3, <1>4, <1>5, <1>6 DEF InCode

LEMMA NextIInv == IInv /\ [Next]_vars => IInv'
<1> SUFFICES ASSUME IInv, [Next]_vars PROVE IInv'
  OBVIOUS
<1>1. CASE UNCHANGED vars
  BY <1>1 DEF vars, IInv, Shapes, InLoop, InCode, Entering, Copying, Calling, Loaded,
     Leaving, Working, Kept, CallsMade, CallMade, HasWriter, HasOrder, HasBatch
<1>2. CASE Next /\ InLoop
  <2>1. Shapes' /\ (InLoop' \/ (order' # 0 /\ Entering(0)'))
    BY <1>2, LoopStep DEF IInv
  <2> QED BY <2>1 DEF IInv, InCode
<1>3. CASE Next /\ order # 0 /\ InCode
  <2>1. Shapes' /\ order' = order /\ (InLoop' \/ InCode')
    BY <1>3, InCodeStep DEF IInv
  <2> QED BY <1>3, <2>1 DEF IInv
<1> QED BY <1>1, <1>2, <1>3 DEF IInv

LEMMA Invariance == Spec => []IInv
BY InitIInv, NextIInv, PTL DEF Spec

-----------------------------------------------------------------------------
(* However far the code has come, some of the calls have been made, in     *)
(* order, and with the arguments of this order.                            *)
LEMMA SomeCallsMade ==
  ASSUME IInv
  PROVE  \E n \in 0 .. 8 : CallsMade(n)
<1>1. CASE InLoop /\ order = 0
  <2>1. CallsMade(0)
    BY <1>1 DEF InLoop, CallsMade
  <2> QED BY <2>1
<1>2. CASE InLoop /\ order # 0
  BY <1>2 DEF InLoop
<1>3. ASSUME NEW n \in 0 .. 3, Entering(n) \/ Leaving(n) PROVE CallsMade(0) \/ CallsMade(8)
  BY <1>3 DEF Entering, Leaving
<1>4. ASSUME NEW n \in 1 .. 2, Copying(n) PROVE CallsMade(0)
  BY <1>4 DEF Copying
<1>5. ASSUME NEW k \in 1 .. 8, NEW n \in 0 .. 3, Calling(k, n) \/ Loaded(k)
      PROVE  \E m \in 0 .. 8 : CallsMade(m)
  <2>1. CallsMade(k - 1) /\ k - 1 \in 0 .. 8
    BY <1>5 DEF Calling, Loaded
  <2> QED BY <2>1
<1>6. ASSUME Calling(9, 0) PROVE CallsMade(8)
  BY <1>6 DEF Calling
<1>7. 0 \in 0 .. 8 /\ 8 \in 0 .. 8 /\ 0 \in 0 .. 3
  OBVIOUS
<1> QED BY <1>1, <1>2, <1>3, <1>4, <1>5, <1>6, <1>7 DEF IInv, InCode

LEMMA Positions == IInv /\ rip = -1 => InLoop
BY DEF IInv, InCode, Entering, Copying, Calling, Loaded, Leaving

(* Every operation is called with the writer, the current order and the    *)
(* batch, on an aligned stack, although the calls before it may have       *)
(* overwritten every register that the ABI lets them overwrite             *)
(* (jit_linux_amd64.c:40-62).                                              *)
THEOREM OperationsGetTheirArguments == Spec => []CallsKeepABI
<1>1. ASSUME IInv PROVE CallsKeepABI
  <2>1. PICK n \in 0 .. 8 : called = [k \in 1 .. n |-> CallMade(k)]
    BY <1>1, SomeCallsMade DEF CallsMade
  <2>2. Len(called) = n
    BY <2>1
  <2>3. ASSUME NEW k \in 1 .. n
        PROVE  /\ called[k].aligned
               /\ called[k].arguments = << <<"writer">>, <<"order", order>>, <<"batch">> >>
    <3>1. called[k] = CallMade(k)
      BY <2>1
    <3> QED BY <3>1 DEF CallMade
  <2> QED BY <2>2, <2>3 DEF CallsKeepABI
<1> QED BY <1>1, Invariance, PTL

LEMMA OperationsCalled ==
  ASSUME NEW n \in 0 .. 8, CallsMade(n)
  PROVE  /\ Len(called) = n
         /\ [k \in 1 .. Len(called) |-> called[k].op] = [k \in 1 .. n |-> Operations[k]]
<1>1. Len(called) = n
  BY DEF CallsMade
<1>2. \A k \in 1 .. n : called[k].op = Operations[k]
  BY DEF CallsMade, CallMade
<1> QED BY <1>1, <1>2

LEMMA AllOperations == [k \in 1 .. 8 |-> Operations[k]] = Operations
BY DEF Operations

(* When the code returns, the stack and the callee-saved registers are the *)
(* loop's again, eax is the status of the writer, and all eight operations *)
(* were called, in the order of the text, whatever the status became       *)
(* (jit_linux_amd64.c:55-79, 104-108).                                     *)
THEOREM CodeReturnsClean == Spec => []ReturnsClean
<1>1. ASSUME IInv, rip = -1
      PROVE  /\ stack = <<>>
             /\ \A r \in CalleeSaved : reg[r] = Caller[r]
             /\ order > 0 =>
                  /\ reg["rax"] = <<"status", status>>
                  /\ [k \in 1 .. Len(called) |-> called[k].op] = Operations
  <2>1. InLoop
    BY <1>1, Positions
  <2>2. \A r \in CalleeSaved : reg[r] = Caller[r]
    BY <2>1, GeneralIs DEF InLoop, Kept, Caller, CalleeSaved, Names
  <2>3. ASSUME order > 0
        PROVE  /\ reg["rax"] = <<"status", status>>
               /\ [k \in 1 .. Len(called) |-> called[k].op] = Operations
    <3>1. reg["rax"] = <<"status", status>> /\ CallsMade(8)
      BY <1>1, <2>1, <2>3 DEF InLoop, IInv, Shapes
    <3> QED BY <3>1, OperationsCalled, AllOperations
  <2> QED BY <2>1, <2>2, <2>3 DEF InLoop
<1>2. IInv => ReturnsClean
  BY <1>1 DEF ReturnsClean, Operations
<1> QED BY <1>2, Invariance, PTL

-----------------------------------------------------------------------------
(* The refinement.  What OrderCalls sees of a state of the machine.        *)
Done == IF order = 0 THEN Operations ELSE [k \in 1 .. Len(called) |-> called[k].op]

LEMMA DoneIn == IInv /\ rip = -1 => Done = Operations
<1> SUFFICES ASSUME IInv, rip = -1, order # 0 PROVE Done = Operations
  BY DEF Done
<1>1. CallsMade(8)
  BY Positions DEF InLoop
<1> QED BY <1>1, OperationsCalled, AllOperations DEF Done

LEMMA SilentSteps ==
  ASSUME order' = order, called' = called, status' = status
  PROVE  UNCHANGED Calls!vars
BY DEF Calls!vars

(* An operation is called where its address was loaded, and nowhere else:  *)
(* everywhere else the calls that were made stay as they are.              *)
LEMMA OneCallMore ==
  ASSUME IInv, CallOperation
  PROVE  called' # called
<1>1. PICK n \in 0 .. 8 : called = [k \in 1 .. n |-> CallMade(k)]
  BY SomeCallsMade DEF CallsMade
<1>2. PICK call : called' = Append(called, call)
  BY DEF CallOperation
<1>3. PICK S : S = {CallMade(k) : k \in 1 .. n} \cup {call}
  OBVIOUS
<1>4. called \in Seq(S) /\ call \in S
  BY <1>1, <1>3
<1>5. Len(called') = Len(called) + 1 /\ Len(called) \in Nat
  BY <1>2, <1>4, AppendProperties
<1> QED BY <1>5

LEMMA SameCalls ==
  ASSUME NEW n, CallsMade(n), CallsMade(n)', order' = order
  PROVE  called' = called
BY DEF CallsMade, CallMade

LEMMA CalledFrom ==
  ASSUME IInv, CallOperation, Next
  PROVE  order # 0 /\ \E k \in 1 .. 8 : Loaded(k)
<1>1. order # 0 /\ InCode /\ Shapes
  BY DEF IInv, InLoop, CallOperation
<1>2. called' # called
  BY OneCallMore
<1>3. ASSUME NEW n \in 0 .. 3, Entering(n) PROVE FALSE
  <2>1. order' = order /\ CallsMade(0)'
    <3>1. CASE n = 3
      BY <1>1, <1>3, <3>1, SaveWriter DEF Copying
    <3>2. CASE n # 3
      <4>1. n \in 0 .. 2
        BY <3>2
      <4> QED BY <1>1, <1>3, <4>1, EnteringStep DEF Entering
    <3> QED BY <3>1, <3>2
  <2> QED BY <1>2, <1>3, <2>1, SameCalls DEF Entering
<1>4. ASSUME NEW n \in 1 .. 2, Copying(n) PROVE FALSE
  <2>1. CASE n = 1
    BY <1>1, <1>2, <1>4, <2>1, SaveOrder, SameCalls DEF Copying
  <2>2. CASE n = 2
    <3>1. order' = order /\ CallsMade(1 - 1)'
      BY <1>1, <1>4, <2>2, SaveBatch DEF Calling
    <3>2. CallsMade(0)' /\ CallsMade(0)
      BY <1>4, <3>1 DEF Copying
    <3> QED BY <1>2, <3>1, <3>2, SameCalls
  <2> QED BY <2>1, <2>2
<1>5. ASSUME NEW k \in 1 .. 8, NEW n \in 0 .. 3, Calling(k, n) PROVE FALSE
  <2>1. order' = order /\ CallsMade(k - 1)'
    <3>1. CASE n = 0
      BY <1>1, <1>5, <3>1, PassWriter DEF Calling
    <3>2. CASE n = 1
      BY <1>1, <1>5, <3>2, PassOrder DEF Calling
    <3>3. CASE n = 2
      BY <1>1, <1>5, <3>3, PassBatch DEF Calling
    <3>4. CASE n = 3
      BY <1>1, <1>5, <3>4, LoadAddress DEF Loaded
    <3> QED BY <3>1, <3>2, <3>3, <3>4
  <2> QED BY <1>2, <1>5, <2>1, SameCalls DEF Calling
<1>6. ASSUME Calling(9, 0) PROVE FALSE
  <2>1. order' = order /\ CallsMade(8)'
    BY <1>1, <1>6, LoadStatus DEF Leaving
  <2>2. CallsMade(8)
    BY <1>6 DEF Calling
  <2> QED BY <1>2, <2>1, <2>2, SameCalls
<1>7. ASSUME NEW n \in 0 .. 3, Leaving(n) PROVE FALSE
  <2>1. order' = order /\ CallsMade(8)'
    <3>1. CASE n = 3
      BY <1>1, <1>7, <3>1, ReturnStep DEF InLoop
    <3>2. CASE n # 3
      <4>1. n \in 0 .. 2
        BY <3>2
      <4> QED BY <1>1, <1>7, <4>1, LeavingStep DEF Leaving
    <3> QED BY <3>1, <3>2
  <2> QED BY <1>2, <1>7, <2>1, SameCalls DEF Leaving
<1> QED BY <1>1, <1>3, <1>4, <1>5, <1>6, <1>7 DEF InCode

(* A step of the machine is a step of OrderCalls, or it cannot see it.     *)
LEMMA StepRefines == IInv /\ [Next]_vars => [Calls!Next]_(Calls!vars)
<1> SUFFICES ASSUME IInv, [Next]_vars PROVE [Calls!Next]_(Calls!vars)
  OBVIOUS
<1>1. CASE CallOrder
  <2>1. /\ rip = -1 /\ order < OrderCount /\ status = "OK" /\ order' = order + 1
        /\ called' = <<>>
        /\ status' \in IF order = 0 THEN {"OK"} ELSE {"OK", "NO_SPACE"}
    BY <1>1 DEF CallOrder, MayCall
  <2>2. Done = Operations
    BY <2>1, DoneIn
  <2>3. Done' = <<>>
    <3>1. order' # 0
      BY <2>1 DEF IInv, Shapes
    <3> QED BY <2>1, <3>1 DEF Done
  <2> QED BY <2>1, <2>2, <2>3 DEF Calls!Next, Calls!Loop, Calls!Begin, Done
<1>2. CASE Straight
  <2>1. order' = order /\ called' = called /\ status' = status
    BY <1>2 DEF Straight, Push, Pop, Move
  <2> QED BY <2>1, SilentSteps
<1>3. CASE CallOperation
  <2>1. PICK k \in 1 .. 8 : Loaded(k)
    BY <1>3, CalledFrom DEF Next
  <2>2. order # 0 /\ Shapes
    BY <1>3, CalledFrom DEF Next, IInv
  <2>3. order' = order /\ CallsMade(k - 1) /\ CallsMade(k)'
    <3>1. Shapes' /\ order' = order /\ Calling(k + 1, 0)'
      BY <1>3, <2>1, <2>2, CallOrderOperation DEF Next
    <3>2. (k + 1) - 1 = k
      OBVIOUS
    <3> QED BY <2>1, <3>1, <3>2 DEF Loaded, Calling
  <2>4. PICK ops : ops = Operations
    OBVIOUS
  <2>5. Done = [i \in 1 .. k - 1 |-> ops[i]]
    <3>1. k - 1 \in 0 .. 8
      OBVIOUS
    <3> QED BY <2>2, <2>3, <2>4, <3>1, OperationsCalled DEF Done
  <2>6. Done' = [i \in 1 .. k |-> ops[i]]
    <3>1. Len(called') = k /\ \A i \in 1 .. k : called'[i].op = ops[i]
      BY <2>3, <2>4 DEF CallsMade, CallMade
    <3> QED BY <2>2, <2>3, <3>1 DEF Done
  <2>7. Len(Done) = k - 1 /\ Len(Done) < Len(Operations) /\ Len(Done) + 1 = k
    BY <2>5, OperationCount
  <2>8. Done' = Append(Done, Operations[Len(Done) + 1])
    <3>1. PICK S : S = {ops[i] : i \in 1 .. 8}
      OBVIOUS
    <3>2. Done \in Seq(S) /\ Done' \in Seq(S) /\ Len(Done') = k /\ ops[k] \in S
      <4>1. \A i \in 1 .. k : ops[i] \in S
        BY <3>1
      <4>2. k \in Nat /\ k - 1 \in Nat
        OBVIOUS
      <4>3. [i \in 1 .. k - 1 |-> ops[i]] \in Seq(S)
        BY <4>1, <4>2
      <4>4. [i \in 1 .. k |-> ops[i]] \in Seq(S) /\ Len([i \in 1 .. k |-> ops[i]]) = k
        BY <4>1, <4>2
      <4>5. ops[k] \in S
        BY <4>1, <4>2
      <4> QED BY <2>5, <2>6, <4>3, <4>4, <4>5, Zenon
    <3>3. PICK longer : longer = Append(Done, ops[k])
      OBVIOUS
    <3>4. /\ longer \in Seq(S) /\ Len(longer) = k /\ longer[k] = ops[k]
          /\ \A i \in 1 .. k - 1 : longer[i] = Done[i]
      BY <2>7, <3>2, <3>3, AppendProperties
    <3>5. ASSUME NEW i \in 1 .. k PROVE Done'[i] = longer[i]
      <4>1. CASE i = k
        BY <2>6, <3>4, <4>1
      <4>2. CASE i # k
        <5>1. i \in 1 .. k - 1
          BY <4>2
        <5> QED BY <2>5, <2>6, <3>4, <5>1
      <4> QED BY <4>1, <4>2
    <3>6. Done' = longer
      BY <3>2, <3>4, <3>5, SeqEqual
    <3> QED BY <2>4, <2>7, <3>3, <3>6
  <2>9. status' \in {"NO_SPACE", "INVALID_ARGUMENT"}
                      \cup (IF status = "OK" THEN {"OK"} ELSE {})
    BY <1>3, <2>2 DEF CallOperation, Shapes
  <2> QED BY <2>3, <2>7, <2>8, <2>9 DEF Calls!Next, Calls!Loop, Calls!Operation, Done
<1>4. CASE Return
  BY <1>4, SilentSteps DEF Return
<1>5. CASE Finished \/ UNCHANGED vars
  BY <1>5, SilentSteps DEF Finished, vars
<1> QED BY <1>1, <1>2, <1>3, <1>4, <1>5 DEF Next

LEMMA InitRefines == Init => Calls!Init
BY OrderCountAssumption DEF Init, Calls!Init

(* Running the code is calling the operations of the order, one after the  *)
(* other and once each, and returning: no order is begun after an error,   *)
(* and none is left half written (jit_linux_amd64.c:104-108,               *)
(* bridge_linux_amd64.c:95-100).                                           *)
THEOREM CodeCallsOperations == Spec => Calls!Safe
BY InitRefines, StepRefines, Invariance, PTL DEF Spec, Calls!Safe

-----------------------------------------------------------------------------
(* The life of a native encoder, for every mode, back end and page size,   *)
(* with and without AVX2: whatever fails leaves nothing behind, a forced   *)
(* mode is honoured or refused, and the encoder that is handed out runs    *)
(* the whole of the code.                                                  *)
Labels == {"none", "calloc", "cpu", "order", "map", "emit", "protect", "open"}

Fields == {"write_string", "order_fn", "code", "code_size", "mapping_size"}

LifeShapes ==
  /\ pc \in Labels
  /\ avx2 \in BOOLEAN
  /\ mode \in Nat
  /\ DOMAIN encoder = Fields
  /\ DOMAIN mapping = {"prot", "size", "bytes"}
  /\ DOMAIN emitter = {"pieces", "status"}

(* Who owns what, label by label: an open encoder whose code is in no      *)
(* mapping it knows of could not release it.                               *)
Owned ==
  /\ pc \in {"none", "calloc"} => ~heap
  /\ pc \in {"none", "calloc", "cpu", "order", "map"} => mapping = NoMapping
  /\ pc \in {"emit", "protect"} => mapping.size \in Int /\ mapping.size > 0
  /\ pc = "open" => \/ mapping = NoMapping
                    \/ encoder.code # "null" /\ encoder.mapping_size # 0

Selected ==
  /\ encoder.write_string = "avx2" => avx2
  /\ mode # ModeAuto =>
       encoder.write_string = (IF mode = ModeScalar THEN "scalar" ELSE "avx2")

Choice ==
  /\ pc # "none" => mode <= ModeAVX2 /\ err = "none"
  /\ emitter.status \in {"OK", "INTERNAL"}
  /\ pc \in {"order", "map", "emit", "protect", "open"} => Selected
  /\ pc = "none" /\ err = "ErrUnsupportedCPU" => mode = ModeAVX2 /\ ~avx2

LifeInv == LifeShapes /\ Owned /\ Choice

LEMMA LifeInitially == LifeInit => LifeInv
BY DEF LifeInit, LifeInv, LifeShapes, Owned, Choice, Labels, Fields, ZeroEncoder, NoMapping,
       NoEmitter, ModeAuto, BackendJIT

-----------------------------------------------------------------------------
LEMMA ShapesKept ==
  ASSUME LifeInv, [LifeNext]_lifeVars
  PROVE  LifeShapes'
<1> USE DEF LifeInv, LifeShapes, Labels, Fields, Goto, Fails
<1>1. CASE Create
  BY <1>1, OptionsAssumption DEF Create
<1>2. CASE Calloc \/ CallocFails
  BY <1>2 DEF Calloc, CallocFails, ZeroEncoder
<1>3. CASE SelectWriter \/ UnsupportedCPU
  BY <1>3 DEF SelectWriter, UnsupportedCPU
<1>4. CASE SelectStatic \/ SelectJit
  BY <1>4 DEF SelectStatic, SelectJit
<1>5. CASE Map \/ MapFails
  BY <1>5 DEF Map, MapFails, CompileFails, NoEmitter
<1>6. CASE Emit
  BY <1>6 DEF Emit
<1>7. CASE Emitted \/ EmitFails
  BY <1>7 DEF Emitted, EmitFails, CompileFails, NoMapping
<1>8. CASE Protect \/ ProtectFails
  BY <1>8 DEF Protect, ProtectFails, CompileFails, NoMapping
<1>9. CASE Close
  BY <1>9 DEF Close, ZeroEncoder, NoMapping
<1>10. CASE UNCHANGED lifeVars
  BY <1>10 DEF lifeVars
<1> QED BY <1>1, <1>2, <1>3, <1>4, <1>5, <1>6, <1>7, <1>8, <1>9, <1>10 DEF LifeNext

LEMMA OwnedKept ==
  ASSUME LifeInv, [LifeNext]_lifeVars
  PROVE  Owned'
<1> USE DEF LifeInv, Owned, Goto, Fails
<1>1. CASE Create
  BY <1>1 DEF Create
<1>2. CASE Calloc \/ CallocFails
  BY <1>2 DEF Calloc, CallocFails
<1>3. CASE SelectWriter \/ UnsupportedCPU
  BY <1>3 DEF SelectWriter, UnsupportedCPU
<1>4. CASE SelectStatic \/ SelectJit
  BY <1>4 DEF SelectStatic, SelectJit
<1>5. CASE Map \/ MapFails
  <2>1. CASE Map
    <3>1. PICK size \in PageSizes :
            size > 0 /\ mapping' = [prot |-> "rw", size |-> size, bytes |-> <<>>]
      BY <2>1 DEF Map
    <3>2. mapping'.size \in Int /\ mapping'.size > 0
      BY <3>1, OptionsAssumption
    <3>3. pc' = "emit"
      BY <2>1 DEF Map
    <3> QED BY <3>2, <3>3
  <2>2. CASE MapFails
    BY <2>2 DEF MapFails, CompileFails
  <2> QED BY <1>5, <2>1, <2>2
<1>6. CASE Emit
  <2>1. mapping'.size = mapping.size
    BY <1>6 DEF Emit, LifeShapes
  <2>2. pc = "emit" /\ pc' = "emit"
    BY <1>6 DEF Emit
  <2> QED BY <2>1, <2>2
<1>7. CASE Emitted \/ EmitFails
  BY <1>7 DEF Emitted, EmitFails, CompileFails
<1>8. CASE Protect \/ ProtectFails
  <2>1. CASE Protect
    <3>1. pc = "protect" /\ pc' = "open"
      BY <2>1 DEF Protect
    <3>2. mapping.size # 0
      BY <3>1
    <3>3. encoder'.code = "mapping" /\ encoder'.mapping_size = mapping.size
      BY <2>1 DEF Protect, LifeShapes, Fields
    <3> QED BY <3>1, <3>2, <3>3
  <2>2. CASE ProtectFails
    BY <2>2 DEF ProtectFails, CompileFails
  <2> QED BY <1>8, <2>1, <2>2
<1>9. CASE Close
  BY <1>9 DEF Close
<1>10. CASE UNCHANGED lifeVars
  BY <1>10 DEF lifeVars
<1> QED BY <1>1, <1>2, <1>3, <1>4, <1>5, <1>6, <1>7, <1>8, <1>9, <1>10 DEF LifeNext

LEMMA ChoiceKept ==
  ASSUME LifeInv, [LifeNext]_lifeVars
  PROVE  Choice'
<1> USE DEF LifeInv, Choice, Selected, Goto, Fails, MapNativeError,
        ModeAuto, ModeScalar, ModeAVX2, MODE_AUTO, MODE_AVX2
<1>1. CASE Create
  BY <1>1, OptionsAssumption DEF Create
<1>2. CASE Calloc \/ CallocFails
  BY <1>2 DEF Calloc, CallocFails
<1>3. CASE SelectWriter
  BY <1>3 DEF SelectWriter, LifeShapes, Fields
<1>4. CASE UnsupportedCPU
  BY <1>4 DEF UnsupportedCPU
<1>5. CASE SelectStatic \/ SelectJit
  BY <1>5 DEF SelectStatic, SelectJit, LifeShapes, Fields
<1>6. CASE Map \/ MapFails
  BY <1>6 DEF Map, MapFails, CompileFails, NoEmitter
<1>7. CASE Emit
  BY <1>7 DEF Emit
<1>8. CASE Emitted \/ EmitFails
  BY <1>8 DEF Emitted, EmitFails, CompileFails
<1>9. CASE Protect \/ ProtectFails
  BY <1>9 DEF Protect, ProtectFails, CompileFails, LifeShapes, Fields
<1>10. CASE Close
  BY <1>10 DEF Close
<1>11. CASE UNCHANGED lifeVars
  BY <1>11 DEF lifeVars
<1> QED BY <1>1, <1>2, <1>3, <1>4, <1>5, <1>6, <1>7, <1>8, <1>9, <1>10, <1>11
        DEF LifeNext

LEMMA LifeInvariance == LifeSpec => []LifeInv
<1>1. LifeInv /\ [LifeNext]_lifeVars => LifeInv'
  BY ShapesKept, OwnedKept, ChoiceKept DEF LifeInv
<1> QED BY <1>1, LifeInitially, PTL DEF LifeSpec

-----------------------------------------------------------------------------
(* The bytes that emit_bytes has copied after n pieces that all fitted.    *)
Copied(n) == FlattenSeq(SubSeq(Pieces, 1, n))

LEMMA CopiedNone == Copied(0) = <<>>
<1>1. SubSeq(Pieces, 1, 0) = <<>>
  BY SubSeqEmpty
<1> QED BY <1>1, FlattenEmpty DEF Copied

LEMMA CopiedNext ==
  ASSUME NEW n \in Nat, n < Len(Pieces)
  PROVE  Copied(n + 1) = Copied(n) \o Pieces[n + 1]
<1>1. PICK pieces \in Seq(Seq(Octets)) : pieces = Pieces
  BY PiecesType
<1>2. PICK before : before = SubSeq(pieces, 1, n)
  OBVIOUS
<1>3. PICK after : after = SubSeq(pieces, 1, n + 1)
  OBVIOUS
<1>4. /\ before \in Seq(Seq(Octets)) /\ Len(before) = n
      /\ \A i \in 1 .. n : before[i] = pieces[i]
  BY <1>1, <1>2
<1>5. /\ after \in Seq(Seq(Octets)) /\ Len(after) = n + 1
      /\ \A i \in 1 .. n + 1 : after[i] = pieces[i]
  BY <1>1, <1>3
<1>6. PICK piece \in Seq(Octets) : piece = pieces[n + 1]
  BY <1>1
<1>7. PICK appended : appended = Append(before, piece)
  OBVIOUS
<1>8. /\ appended \in Seq(Seq(Octets)) /\ Len(appended) = n + 1
      /\ \A i \in 1 .. n : appended[i] = before[i]
      /\ appended[n + 1] = piece
  BY <1>4, <1>7, AppendProperties
<1>9. ASSUME NEW i \in 1 .. n + 1 PROVE after[i] = appended[i]
  <2>1. CASE i = n + 1
    BY <1>5, <1>6, <1>8, <2>1
  <2>2. CASE i # n + 1
    <3>1. i \in 1 .. n
      BY <2>2
    <3> QED BY <1>4, <1>5, <1>8, <3>1
  <2> QED BY <2>1, <2>2
<1>10. after = appended
  BY <1>5, <1>8, <1>9, SeqEqual
<1>11. FlattenSeq(Append(before, piece)) = FlattenSeq(before) \o piece
  BY <1>4, FlattenAppend
<1> QED BY <1>1, <1>2, <1>3, <1>6, <1>7, <1>10, <1>11 DEF Copied

LEMMA CopiedAll == Copied(Len(Pieces)) = Code
<1>1. PICK pieces \in Seq(Seq(Octets)) : pieces = Pieces
  BY PiecesType
<1>2. SubSeq(pieces, 1, Len(pieces)) = pieces
  OBVIOUS
<1> QED BY <1>1, <1>2 DEF Copied, Code

(* What is in the mapping while the code is written: as long as every      *)
(* piece fitted, all of the pieces handled so far.                         *)
Written ==
  /\ pc = "emit" =>
       /\ emitter.pieces \in 0 .. Len(Pieces)
       /\ emitter.status = "OK" => mapping.bytes = Copied(emitter.pieces)
  /\ pc = "protect" => mapping.bytes = Code

(* How much of an encoder there is: no code before jitjson_compile_order   *)
(* is done, and only with the back end that asks for it.                   *)
Assembled ==
  /\ pc \in {"cpu", "order", "map", "emit", "protect"} => encoder.code_size = 0
  /\ pc \in {"map", "emit", "protect"} => backend = BACKEND_JIT
  /\ RunsFinishedCode

CodeInv == Written /\ Assembled

LEMMA InitCode == LifeInit => CodeInv
BY DEF LifeInit, CodeInv, Written, Assembled, RunsFinishedCode

LEMMA WrittenKept ==
  ASSUME LifeInv, CodeInv, [LifeNext]_lifeVars
  PROVE  Written'
<1> USE DEF CodeInv, Written, Goto, Fails
<1>1. CASE Create
  BY <1>1 DEF Create
<1>2. CASE Calloc \/ CallocFails \/ SelectWriter \/ UnsupportedCPU
  BY <1>2 DEF Calloc, CallocFails, SelectWriter, UnsupportedCPU
<1>3. CASE SelectStatic \/ SelectJit
  BY <1>3 DEF SelectStatic, SelectJit
<1>4. CASE Map
  <2>1. emitter' = NoEmitter /\ mapping'.bytes = <<>> /\ pc' = "emit"
    BY <1>4 DEF Map
  <2>2. Len(Pieces) \in Nat
    BY PiecesType
  <2> QED BY <2>1, <2>2, CopiedNone DEF NoEmitter
<1>5. CASE Emit
  <2>1. /\ pc = "emit" /\ pc' = "emit"
        /\ emitter.pieces < Len(Pieces) /\ emitter'.pieces = emitter.pieces + 1
    BY <1>5 DEF Emit
  <2>2. PICK n \in Nat : n = emitter.pieces /\ n < Len(Pieces) /\ Len(Pieces) \in Nat
    BY <2>1, PiecesType
  <2>3. ASSUME emitter'.status = "OK" PROVE mapping'.bytes = Copied(n + 1)
    <3>1. emitter.status = "OK"
      BY <1>5, <2>3 DEF Emit
    <3>2. mapping' = [mapping EXCEPT !.bytes = @ \o Pieces[emitter.pieces + 1]]
      BY <1>5, <2>3 DEF Emit
    <3>3. mapping'.bytes = mapping.bytes \o Pieces[n + 1]
      BY <2>2, <3>2 DEF LifeInv, LifeShapes
    <3> QED BY <2>1, <2>2, <3>1, <3>3, CopiedNext
  <2> QED BY <2>1, <2>2, <2>3
<1>6. CASE Emitted
  <2>1. /\ pc = "emit" /\ pc' = "protect" /\ mapping' = mapping
        /\ emitter.pieces = Len(Pieces) /\ emitter.status = "OK"
    BY <1>6 DEF Emitted
  <2> QED BY <2>1, CopiedAll
<1>7. CASE MapFails \/ EmitFails \/ ProtectFails
  BY <1>7 DEF MapFails, EmitFails, ProtectFails, CompileFails
<1>8. CASE Protect \/ Close
  BY <1>8 DEF Protect, Close
<1>9. CASE UNCHANGED lifeVars
  BY <1>9 DEF lifeVars
<1> QED BY <1>1, <1>2, <1>3, <1>4, <1>5, <1>6, <1>7, <1>8, <1>9 DEF LifeNext

LEMMA AssembledKept ==
  ASSUME LifeInv, CodeInv, [LifeNext]_lifeVars
  PROVE  Assembled'
<1> USE DEF CodeInv, Assembled, RunsFinishedCode, Goto, Fails,
        BackendJIT, BackendStatic, BACKEND_JIT, BACKEND_STATIC
<1>1. CASE Create
  BY <1>1 DEF Create
<1>2. CASE Calloc \/ CallocFails
  BY <1>2 DEF Calloc, CallocFails, ZeroEncoder
<1>3. CASE SelectWriter \/ UnsupportedCPU
  BY <1>3 DEF SelectWriter, UnsupportedCPU, LifeInv, LifeShapes, Fields
<1>4. CASE SelectStatic
  BY <1>4 DEF SelectStatic, LifeInv, LifeShapes, Fields, Owned
<1>5. CASE SelectJit
  BY <1>5 DEF SelectJit
<1>6. CASE Map \/ MapFails
  BY <1>6 DEF Map, MapFails, CompileFails
<1>7. CASE Emit
  BY <1>7 DEF Emit
<1>8. CASE Emitted \/ EmitFails
  BY <1>8 DEF Emitted, EmitFails, CompileFails
<1>9. CASE Protect
  <2>1. pc = "protect" /\ pc' = "open" /\ mapping.bytes = Code /\ backend' = BACKEND_JIT
    BY <1>9 DEF Protect, Written
  <2>2. mapping'.prot = "rx" /\ mapping'.bytes = mapping.bytes
    BY <1>9 DEF Protect, LifeInv, LifeShapes
  <2>3. encoder'.order_fn = "jit" /\ encoder'.code_size = Len(mapping.bytes)
    BY <1>9 DEF Protect, LifeInv, LifeShapes, Fields
  <2>4. Len(mapping.bytes) = 195
    BY <2>1, WholeCode DEF CodeLaidOut
  <2> QED BY <2>1, <2>2, <2>3, <2>4
<1>10. CASE ProtectFails
  BY <1>10 DEF ProtectFails, CompileFails
<1>11. CASE Close
  BY <1>11 DEF Close
<1>12. CASE UNCHANGED lifeVars
  BY <1>12 DEF lifeVars
<1> QED BY <1>1, <1>2, <1>3, <1>4, <1>5, <1>6, <1>7, <1>8, <1>9, <1>10, <1>11, <1>12
        DEF LifeNext

-----------------------------------------------------------------------------
(* A NewEncoder that fails, wherever it fails, and a Close leave neither a *)
(* C encoder nor a mapping behind (bridge_linux_amd64.c:26-43, 113-119,    *)
(* jit_linux_amd64.c:110-118, 130-138).                                    *)
THEOREM FailuresLeakNothing == LifeSpec => []NothingLeaks
<1>1. LifeInv => NothingLeaks
  BY DEF LifeInv, Owned, NothingLeaks
<1> QED BY <1>1, LifeInvariance, PTL

(* No processor without AVX2 gets the AVX2 writer, and a forced mode is    *)
(* honoured or refused (bridge_linux_amd64.c:26-34, encoder.go:131-143).   *)
THEOREM ForcedModes == LifeSpec => []ModeHonoured
<1>1. LifeInv => ModeHonoured
  BY DEF LifeInv, Choice, Selected, ModeHonoured
<1> QED BY <1>1, LifeInvariance, PTL

(* An encoder that is handed out runs the code to its last byte, from a    *)
(* mapping that can no longer be written to, or the static function and no *)
(* code at all; a page too small for the code fails NewEncoder instead     *)
(* (jit_linux_amd64.c:29-38, 102-127, encoder.go:101-111).                 *)
THEOREM FinishedCode == LifeSpec => []RunsFinishedCode
<1>1. LifeInv /\ CodeInv /\ [LifeNext]_lifeVars => CodeInv'
  BY WrittenKept, AssembledKept DEF CodeInv
<1>2. CodeInv => RunsFinishedCode
  BY DEF CodeInv, Assembled
<1> QED BY <1>1, <1>2, InitCode, LifeInvariance, PTL DEF LifeSpec
=============================================================================
