------------------------- MODULE Int64WriterProofs --------------------------
(***************************************************************************)
(* The digit buffer of jitjson_writer_int64 holds every integer, whatever  *)
(* the width of integers, when it has a byte more than the magnitude of    *)
(* the least integer has digits; and what it holds in the end are the      *)
(* decimal digits of the integer, as many as addInt64 counted, which is    *)
(* the text that is written.                                               *)
(***************************************************************************)
EXTENDS Int64Writer, RecursionLemmas

Byte == {ToString(d) : d \in 0 .. 9} \cup {"-"}

States == {"idle", "count", "digits", "sign", "reserve", "copy", "done"}

(* After k digits what is left of the magnitude is at most what is left of *)
(* the largest one.                                                        *)
IInv ==
  /\ pc \in States
  /\ value \in Ints
  /\ magnitude \in Nat
  /\ buffer \in Seq(Byte)
  /\ pc \in {"idle", "count"} => buffer = <<>>
  /\ pc = "digits" => /\ Len(buffer) <= BufferSize - 2
                      /\ magnitude <= Quotient[Len(buffer)]
  /\ pc = "sign" => Len(buffer) <= BufferSize - 1
  /\ Len(buffer) <= BufferSize

LEMMA ModBelow ==
  ASSUME NEW a \in Int, NEW m \in Nat \ {0}, 0 <= a, a < m
  PROVE  a % m = a
  OBVIOUS

LEMMA ModNegative ==
  ASSUME NEW a \in Int, NEW m \in Nat \ {0}, a < 0, -m <= a
  PROVE  a % m = a + m
  OBVIOUS

(* The unsigned magnitude of an integer is its absolute value, of the      *)
(* least integer too.                                                      *)
LEMMA MagnitudeAbsolute ==
  ASSUME NEW v \in Ints
  PROVE  Magnitude(v) = IF v < 0 THEN -v ELSE v
<1>1. v \in Int /\ -Half <= v /\ v < Half /\ Half \in Nat \ {0}
  BY HalfAssumption DEF Ints
<1>2. Modulus \in Nat \ {0} /\ Modulus = Half + Half
  BY <1>1 DEF Modulus
<1>3. CASE v >= 0
  <2>1. v % Modulus = v
    BY <1>1, <1>2, <1>3, ModBelow
  <2> QED BY <1>1, <1>3, <2>1 DEF Magnitude, Unsigned
<1>4. CASE v < 0
  <2>1. Unsigned(v) = v + Modulus
    BY <1>1, <1>2, <1>4, ModNegative DEF Unsigned
  <2>2. (0 - Unsigned(v)) % Modulus = (0 - Unsigned(v)) + Modulus
    <3> DEFINE a == 0 - Unsigned(v)
    <3>1. a \in Int /\ a < 0 /\ -Modulus <= a
      BY <1>1, <1>2, <1>4, <2>1
    <3> HIDE DEF a
    <3>2. a % Modulus = a + Modulus
      BY <1>2, <3>1, ModNegative
    <3> QED BY <3>2 DEF a
  <2>3. Magnitude(v) = (0 - Unsigned(v)) % Modulus
    BY <1>4 DEF Magnitude
  <2> QED BY <1>1, <1>2, <1>4, <2>1, <2>2, <2>3
<1> QED BY <1>1, <1>3, <1>4

LEMMA MagnitudeBounded ==
  ASSUME NEW v \in Ints
  PROVE  Magnitude(v) \in Nat /\ Magnitude(v) <= Half
BY MagnitudeAbsolute, HalfAssumption DEF Ints

LEMMA FrontShorter ==
  ASSUME NEW s \in Seq(Byte), s # <<>>
  PROVE  Front(s) \in Seq(Byte) /\ Len(Front(s)) = Len(s) - 1
<1>1. PICK n \in Nat : n = Len(s)
  OBVIOUS
<1>2. n >= 1 /\ \A j \in 1 .. n - 1 : s[j] \in Byte
  BY <1>1
<1>3. n - 1 \in Int
  BY <1>1
<1>4. /\ SubSeq(s, 1, n - 1) \in Seq(Byte)
      /\ Len(SubSeq(s, 1, n - 1)) = IF 1 <= n - 1 THEN n - 1 - 1 + 1 ELSE 0
  BY <1>2, <1>3, SubSeqProperties
<1>5. (IF 1 <= n - 1 THEN n - 1 - 1 + 1 ELSE 0) = n - 1
  BY <1>1, <1>2
<1> QED BY <1>1, <1>4, <1>5, Zenon DEF Front

-----------------------------------------------------------------------------
LEMMA Start == <<>> \in Seq(Byte) /\ Len(<<>>) = 0 /\ 0 \in Ints
<1>1. 0 \in Ints
  BY HalfAssumption DEF Ints
<1>2. <<>> \in Seq(Byte) /\ Len(<<>>) = 0
  OBVIOUS
<1> QED BY <1>1, <1>2

LEMMA InitIInv == Init => IInv
<1> SUFFICES ASSUME Init PROVE IInv
  OBVIOUS
<1>1. /\ pc = "idle" /\ value \in Ints /\ magnitude \in Nat
      /\ buffer = <<>> /\ buffer \in Seq(Byte) /\ Len(buffer) = 0
  BY Start DEF Init
<1> QED BY <1>1, BufferAssumption DEF IInv, States

(* One digit: the only step that fills the buffer and may do so again.     *)
LEMMA WriteDigitIInv ==
  ASSUME IInv, WriteDigit
  PROVE  IInv'
<1> DEFINE n == Len(buffer)
<1>1. /\ buffer \in Seq(Byte) /\ n \in Nat /\ magnitude \in Nat
      /\ value \in Ints /\ n <= BufferSize - 2 /\ magnitude <= Quotient[n]
  BY DEF IInv, WriteDigit
<1>2. ToString(magnitude % 10) \in Byte
  BY <1>1 DEF Byte
<1>3. buffer' \in Seq(Byte) /\ Len(buffer') = n + 1
  BY <1>1, <1>2, AppendProperties DEF WriteDigit
<1>4. magnitude' = magnitude \div 10 /\ magnitude' \in Nat
  BY <1>1 DEF WriteDigit
<1>5. CASE magnitude \div 10 = 0
  <2>1. pc' = "sign"
    BY <1>5 DEF WriteDigit, LastDigit
  <2> QED BY <1>1, <1>3, <1>4, <2>1, BufferAssumption DEF IInv, WriteDigit, States
<1>6. CASE magnitude \div 10 # 0
  <2>1. pc' = "digits"
    BY <1>6 DEF WriteDigit, LastDigit
  <2>2. Quotient[n] \in Nat /\ Quotient[n] >= 10
    <3>1. n \in 0 .. BufferSize - 2
      BY <1>1, BufferAssumption
    <3>2. Quotient[n] \in Nat
      BY <3>1, BufferAssumption
    <3>3. magnitude >= 10
      BY <1>1, <1>6
    <3> QED BY <1>1, <3>2, <3>3
  <2>3. n # BufferSize - 2
    BY <2>2, BufferAssumption
  <2>4. n + 1 \in 1 .. BufferSize - 2
    BY <1>1, <2>3, BufferAssumption
  <2>5. Quotient[n + 1] = Quotient[n] \div 10
    <3>1. Quotient[n + 1] = Quotient[(n + 1) - 1] \div 10
      BY <2>4, BufferAssumption
    <3> QED BY <1>1, <3>1
  <2>6. magnitude \div 10 <= Quotient[n] \div 10
    BY <1>1, <2>2
  <2> QED BY <1>1, <1>3, <1>4, <2>1, <2>4, <2>5, <2>6, BufferAssumption
          DEF IInv, WriteDigit, States
<1> QED BY <1>5, <1>6

LEMMA NextIInv == IInv /\ [Next]_vars => IInv'
<1> SUFFICES ASSUME IInv, [Next]_vars PROVE IInv'
  OBVIOUS
<1>0. BufferSize \in Nat /\ BufferSize >= 2 /\ Quotient[0] = Half /\ Len(<<>>) = 0
  BY BufferAssumption
<1>1. CASE Count
  <2>1. magnitude' \in Nat
    BY <1>1, MagnitudeBounded DEF Count
  <2> QED BY <1>1, <2>1 DEF Count, IInv, States
<1>2. CASE CountDigit
  <2>1. magnitude' \in Nat
    BY <1>2 DEF CountDigit, IInv
  <2> QED BY <1>2, <2>1 DEF CountDigit, IInv
<1>3. CASE Write
  <2>1. buffer' = <<>> /\ value' = value /\ pc' = "digits"
    BY <1>3 DEF Write, IInv
  <2>2. magnitude' \in Nat /\ magnitude' <= Half
    BY <1>3, MagnitudeBounded DEF Write, IInv
  <2> QED BY <1>0, <2>1, <2>2 DEF IInv, States
<1>4. CASE WriteDigit
  BY <1>4, WriteDigitIInv
<1>5. CASE Sign
  <2>1. buffer \in Seq(Byte) /\ Len(buffer) <= BufferSize - 1 /\ Len(buffer) \in Nat
    BY <1>5 DEF Sign, IInv
  <2>2. buffer' \in Seq(Byte) /\ Len(buffer') <= BufferSize
    BY <1>0, <1>5, <2>1, AppendProperties DEF Sign, Byte
  <2> QED BY <1>5, <2>2 DEF Sign, IInv, States
<1>6. CASE Reserve
  BY <1>6 DEF Reserve, IInv, States
<1>7. CASE CopyByte
  <2>1. buffer \in Seq(Byte) /\ Len(buffer) \in Nat /\ Len(buffer) <= BufferSize
        /\ buffer # <<>> /\ buffer' = Front(buffer)
    BY <1>7 DEF CopyByte, IInv
  <2>3. buffer' \in Seq(Byte) /\ Len(buffer') = Len(buffer) - 1
    BY <2>1, FrontShorter, Zenon
  <2> QED BY <1>0, <1>7, <2>1, <2>3 DEF CopyByte, IInv, States
<1>8. CASE Copied
  BY <1>8 DEF Copied, IInv, States
<1>9. CASE Again
  <2>1. /\ pc' = "idle" /\ value' \in Ints /\ magnitude' \in Nat
        /\ buffer' = <<>> /\ buffer' \in Seq(Byte) /\ Len(buffer') = 0
    BY <1>9, Start DEF Again
  <2> QED BY <1>0, <2>1 DEF IInv, States
<1>10. CASE UNCHANGED vars
  BY <1>10 DEF vars, IInv
<1> QED BY <1>1, <1>2, <1>3, <1>4, <1>5, <1>6, <1>7, <1>8, <1>9, <1>10 DEF Next

(* Whatever the width of integers, jitjson_writer_int64 never passes the   *)
(* end of its buffer on the stack (writer_linux_amd64.c:54-65).            *)
THEOREM DigitsFit == Spec => []BufferHolds
<1>1. IInv => BufferHolds
  BY DEF IInv, BufferHolds
<1> QED BY <1>1, InitIInv, NextIInv, PTL DEF Spec

-----------------------------------------------------------------------------
(* Powers of ten: the equations that their recursive definition promises.  *)
LEMMA PowerEquations ==
  /\ Power \in [Nat -> Nat]
  /\ \A k \in Nat : Power[k] = IF k = 0 THEN 1 ELSE 10 * Power[k - 1]
<1> DEFINE D == Nat \ {0}
           pred == [m \in D |-> m - 1]
           base == [m \in Nat |-> 1]
           step == [p \in Nat \X Nat |-> 10 * p[2]]
           Solves(f) == f = [k \in Nat |-> IF k = 0 THEN 1 ELSE 10 * f[k - 1]]
<1>1. Smaller(D, pred)
  BY DEF Smaller
<1>2. /\ D \in SUBSET Nat /\ base \in [Nat -> Nat]
      /\ step \in [Nat \X Nat -> Nat]
  OBVIOUS
<1>3. PICK f : Recurs(f, Nat, Nat, D, pred, base, step)
  <2> HIDE DEF D, pred, base, step
  <2> QED BY <1>1, <1>2, RecursionExists
<1>4. f \in [Nat -> Nat]
  BY <1>3 DEF Recurs
<1>5. ASSUME NEW k \in Nat PROVE f[k] = IF k = 0 THEN 1 ELSE 10 * f[k - 1]
  <2>1. f[k] = IF k \in D THEN step[<<k, f[pred[k]]>>] ELSE base[k]
    <3> HIDE DEF D, pred, base, step
    <3> QED BY <1>3 DEF Recurs
  <2>2. CASE k = 0
    BY <2>1, <2>2
  <2>3. CASE k # 0
    <3>1. k \in D /\ pred[k] = k - 1 /\ k - 1 \in Nat
      BY <2>3
    <3>2. f[k - 1] \in Nat
      BY <1>4, <3>1
    <3>3. step[<<k, f[k - 1]>>] = 10 * f[k - 1]
      BY <3>2
    <3> QED BY <2>1, <2>3, <3>1, <3>3
  <2> QED BY <2>2, <2>3
<1>6. Solves(f)
  BY <1>4, <1>5
<1>7. Solves(Power)
  <2> HIDE DEF Solves
  <2>1. Power = CHOOSE g : Solves(g)
    BY DEF Power, Solves
  <2> QED BY <1>6, <2>1
<1>8. \A k \in Nat : Power[k] = IF k = 0 THEN 1 ELSE 10 * Power[k - 1]
  BY <1>7
<1> DEFINE T == {k \in Nat : Power[k] \in Nat}
<1>9. Nat \subseteq T
  <2>1. 0 \in T
    BY <1>8
  <2>2. ASSUME NEW k \in Nat, k \in T PROVE k + 1 \in T
    <3>1. k + 1 \in Nat /\ k + 1 # 0 /\ (k + 1) - 1 = k
      OBVIOUS
    <3>2. Power[k + 1] = 10 * Power[k]
      BY <1>8, <3>1
    <3> QED BY <2>2, <3>2
  <2> HIDE DEF T
  <2> QED BY <2>1, <2>2, Induction
<1>10. Power = [k \in Nat |-> Power[k]]
  BY <1>7
<1> QED BY <1>8, <1>9, <1>10

LEMMA PowerNext ==
  ASSUME NEW k \in Nat
  PROVE  /\ Power[k] \in Nat /\ Power[k + 1] = 10 * Power[k]
         /\ Power[0] = 1
<1>1. k + 1 \in Nat /\ k + 1 # 0 /\ (k + 1) - 1 = k
  OBVIOUS
<1> QED BY <1>1, PowerEquations

LEMMA PowerGrows ==
  ASSUME NEW j \in Nat, NEW k \in Nat, j <= k
  PROVE  Power[j] \in Nat \ {0} /\ Power[j] <= Power[k]
<1> DEFINE P == {n \in Nat : Power[n] \in Nat \ {0}}
           T == {n \in Nat : Power[j] <= Power[j + n]}
<1>1. Nat \subseteq P
  <2>1. 0 \in P
    BY PowerNext
  <2>2. ASSUME NEW n \in Nat, n \in P PROVE n + 1 \in P
    BY <2>2, PowerNext
  <2> HIDE DEF P
  <2> QED BY <2>1, <2>2, Induction
<1>2. \A n \in Nat : Power[n] \in Nat \ {0}
  BY <1>1
<1> HIDE DEF P
<1>3. Nat \subseteq T
  <2>1. 0 \in T
    BY <1>2
  <2>2. ASSUME NEW n \in Nat, n \in T PROVE n + 1 \in T
    <3>1. PICK i \in Nat : i = j + n
      OBVIOUS
    <3>2. Power[i + 1] = 10 * Power[i] /\ Power[i] \in Nat /\ Power[j] \in Nat
      BY PowerNext
    <3>3. i + 1 = j + (n + 1)
      BY <3>1
    <3>4. Power[j] <= Power[i]
      BY <2>2, <3>1
    <3>5. Power[j] <= Power[i + 1]
      BY <3>2, <3>4
    <3> QED BY <3>3, <3>5
  <2> HIDE DEF T
  <2> QED BY <2>1, <2>2, Induction
<1>4. PICK n \in Nat : k = j + n
  <2>1. k - j \in Nat /\ k = j + (k - j)
    OBVIOUS
  <2> QED BY <2>1
<1> QED BY <1>2, <1>3, <1>4

-----------------------------------------------------------------------------
(* Division.                                                               *)
LEMMA Divided ==
  ASSUME NEW a \in Nat, NEW b \in Nat \ {0}
  PROVE  /\ a \div b \in Nat
         /\ \E r \in 0 .. b - 1 : a = b * (a \div b) + r
  OBVIOUS

LEMMA QuotientUnique ==
  ASSUME NEW a \in Nat, NEW b \in Nat \ {0}, NEW q \in Nat,
         NEW r \in 0 .. b - 1, a = b * q + r
  PROVE  a \div b = q
  OBVIOUS

LEMMA DividedTwice ==
  ASSUME NEW a \in Nat, NEW b \in Nat \ {0}
  PROVE  (a \div b) \div 10 = a \div (10 * b)
  OBVIOUS

-----------------------------------------------------------------------------
(* After k digits of a, m is what is left of it; the loops divide on only  *)
(* if something is.                                                        *)
Rest(a, k, m) == m = a \div Power[k] /\ (k = 0 \/ m >= 1)

LEMMA RestStarts ==
  ASSUME NEW a \in Nat
  PROVE  Rest(a, 0, a)
<1>1. a \div 1 = a
  OBVIOUS
<1> QED BY <1>1, PowerNext DEF Rest

LEMMA RestNext ==
  ASSUME NEW a \in Nat, NEW k \in Nat, NEW m, Rest(a, k, m), m >= 10
  PROVE  Rest(a, k + 1, m \div 10)
<1>1. PICK p \in Nat \ {0} : p = Power[k]
  BY PowerGrows
<1>2. m = a \div p /\ m \in Nat
  BY <1>1, Divided DEF Rest
<1>3. m \div 10 = a \div (10 * p)
  BY <1>1, <1>2, DividedTwice
<1>4. m \div 10 = a \div Power[k + 1]
  BY <1>1, <1>3, PowerNext
<1>5. m \div 10 >= 1
  BY <1>2
<1> QED BY <1>4, <1>5 DEF Rest

LEMMA RestEnds ==
  ASSUME NEW a \in Nat, NEW k \in Nat, NEW m, Rest(a, k, m), m < 10
  PROVE  HasDigits(a, k + 1)
<1>1. PICK p \in Nat \ {0} : p = Power[k]
  BY PowerGrows
<1>2. m = a \div p /\ m \in Nat
  BY <1>1, Divided DEF Rest
<1>3. PICK r \in 0 .. p - 1 : a = p * m + r
  BY <1>1, <1>2, Divided
<1>4. p * m <= p * 9
  BY <1>2
<1>5. a < 10 * p
  BY <1>2, <1>3, <1>4
<1>6. k = 0 \/ p <= a
  <2>1. CASE m >= 1
    <3>1. p * m >= p
      BY <1>2, <2>1
    <3> QED BY <1>2, <1>3, <3>1
  <2>2. CASE k = 0
    BY <2>2
  <2> QED BY <2>1, <2>2 DEF Rest
<1>7. k + 1 >= 1 /\ (k + 1) - 1 = k /\ Power[k + 1] = 10 * Power[k]
  BY PowerNext
<1>8. a < Power[k + 1]
  BY <1>1, <1>5, <1>7
<1>9. k + 1 = 1 \/ Power[(k + 1) - 1] <= a
  BY <1>1, <1>6, <1>7
<1> QED BY <1>7, <1>8, <1>9 DEF HasDigits

(* So both loops stop after the same number of digits.                     *)
LEMMA DigitsNotMore ==
  ASSUME NEW a \in Nat, NEW j \in Nat, NEW k \in Nat,
         HasDigits(a, j), HasDigits(a, k)
  PROVE  ~(j < k)
<1> SUFFICES ASSUME j < k PROVE FALSE
  OBVIOUS
<1>1. j >= 1 /\ a < Power[j] /\ k # 1 /\ Power[k - 1] <= a
  BY DEF HasDigits
<1>2. k - 1 \in Nat /\ j <= k - 1
  BY <1>1
<1>3. Power[j] <= Power[k - 1] /\ Power[j] \in Nat /\ Power[k - 1] \in Nat
  BY <1>2, PowerGrows, PowerNext
<1> QED BY <1>1, <1>3

LEMMA DigitsUnique ==
  ASSUME NEW a \in Nat, NEW j \in Nat, NEW k \in Nat,
         HasDigits(a, j), HasDigits(a, k)
  PROVE  j = k
<1>1. ~(j < k) /\ ~(k < j)
  BY DigitsNotMore
<1> QED BY <1>1

(* One more byte behind the digits that are there.                         *)
LEMMA DigitsKept ==
  ASSUME NEW bytes \in Seq(Byte), NEW byte \in Byte, NEW a,
         LastDigits(bytes, Len(bytes), a)
  PROVE  /\ LastDigits(Append(bytes, byte), Len(bytes), a)
         /\ Len(Append(bytes, byte)) = Len(bytes) + 1
         /\ Append(bytes, byte)[Len(bytes) + 1] = byte
         /\ Last(Append(bytes, byte)) = byte
<1>1. PICK n \in Nat : n = Len(bytes)
  OBVIOUS
<1>2. PICK t : t = Append(bytes, byte)
  OBVIOUS
<1>3. /\ Len(t) = n + 1 /\ t[n + 1] = byte
      /\ \A i \in 1 .. n : t[i] = bytes[i]
  BY <1>1, <1>2, AppendProperties
<1>4. LastDigits(t, n, a)
  BY <1>1, <1>3 DEF LastDigits
<1>5. Last(t) = byte
  BY <1>3 DEF Last
<1> QED BY <1>1, <1>2, <1>3, <1>4, <1>5

LEMMA DigitAdded ==
  ASSUME NEW bytes \in Seq(Byte), NEW a \in Nat, NEW m, Rest(a, Len(bytes), m),
         LastDigits(bytes, Len(bytes), a), ToString(m % 10) \in Byte
  PROVE  LET t == Append(bytes, ToString(m % 10))
         IN  LastDigits(t, Len(t), a)
<1>1. PICK n \in Nat : n = Len(bytes)
  OBVIOUS
<1>2. PICK t : t = Append(bytes, ToString(m % 10))
  OBVIOUS
<1>3. LastDigits(t, n, a) /\ Len(t) = n + 1 /\ t[n + 1] = ToString(m % 10)
  BY <1>1, <1>2, DigitsKept
<1>4. m = a \div Power[n]
  BY <1>1 DEF Rest
<1>5. ASSUME NEW k \in 1 .. n + 1
      PROVE  t[k] = ToString((a \div Power[k - 1]) % 10)
  <2>1. CASE k \in 1 .. n
    BY <1>3, <2>1 DEF LastDigits
  <2>2. CASE k = n + 1
    <3>1. k - 1 = n
      BY <2>2
    <3> QED BY <1>3, <1>4, <2>2, <3>1
  <2>3. k \in 1 .. n \/ k = n + 1
    OBVIOUS
  <2> QED BY <2>1, <2>2, <2>3
<1>6. LastDigits(t, n + 1, a)
  BY <1>5 DEF LastDigits
<1> QED BY <1>2, <1>3, <1>6

-----------------------------------------------------------------------------
(* n digits and the sign.                                                  *)
WithSign(n) == IF value < 0 THEN n + 1 ELSE n

CountedAll ==
  \E n \in Nat : counted = WithSign(n) /\ HasDigits(Absolute(value), n)

(* What the two loops have done.                                           *)
CountInv ==
  pc = "count" =>
    \E k \in Nat : /\ Rest(Absolute(value), k, magnitude)
                   /\ counted = WithSign(k + 1)

FillInv ==
  /\ pc \in {"digits", "sign", "reserve"} => CountedAll
  /\ pc \in {"digits", "sign"} => LastDigits(buffer, Len(buffer), Absolute(value))
  /\ pc = "digits" => Rest(Absolute(value), Len(buffer), magnitude)
  /\ pc = "sign" => HasDigits(Absolute(value), Len(buffer))

DigitsInv == CountInv /\ FillInv /\ DecimalBytes

LEMMA AbsoluteIsNat ==
  ASSUME NEW v \in Ints
  PROVE  Absolute(v) \in Nat /\ Magnitude(v) = Absolute(v)
<1>1. v \in Int
  BY HalfAssumption DEF Ints
<1> QED BY <1>1, MagnitudeAbsolute DEF Absolute

LEMMA CountStep ==
  ASSUME IInv, Count
  PROVE  CountInv'
<1>1. Absolute(value') \in Nat /\ magnitude' = Absolute(value')
  BY AbsoluteIsNat DEF Count
<1>2. Rest(Absolute(value'), 0, magnitude')
  BY <1>1, RestStarts
<1>3. value' \in Int
  BY HalfAssumption DEF Count, Ints
<1>4. counted' = IF value' < 0 THEN (0 + 1) + 1 ELSE 0 + 1
  BY <1>3 DEF Count
<1> QED BY <1>2, <1>4 DEF CountInv, WithSign

LEMMA CountDigitStep ==
  ASSUME IInv, CountInv, CountDigit
  PROVE  CountInv'
<1>1. PICK k \in Nat : /\ Rest(Absolute(value), k, magnitude)
                       /\ counted = WithSign(k + 1)
  BY DEF CountInv, CountDigit
<1>2. Absolute(value) \in Nat /\ value' = value /\ magnitude >= 10
  BY AbsoluteIsNat DEF IInv, CountDigit, MoreDigits
<1>3. Rest(Absolute(value), k + 1, magnitude \div 10)
  BY <1>1, <1>2, RestNext
<1>4. counted' = (WithSign((k + 1) + 1))'
  BY <1>1, <1>2 DEF CountDigit, WithSign
<1>5. k + 1 \in Nat /\ magnitude' = magnitude \div 10
  BY DEF CountDigit
<1>6. Rest(Absolute(value'), k + 1, magnitude')
  BY <1>2, <1>3, <1>5
<1> QED BY <1>4, <1>5, <1>6 DEF CountInv

(* The packer's loop has stopped at the last digit; the writer's begins.   *)
LEMMA WriteStep ==
  ASSUME IInv, CountInv, Write
  PROVE  FillInv'
<1>1. PICK k \in Nat : /\ Rest(Absolute(value), k, magnitude)
                       /\ counted = WithSign(k + 1)
  BY DEF CountInv, Write
<1>2. /\ value' = value /\ counted' = counted /\ pc' = "digits"
      /\ buffer' = <<>> /\ magnitude' = Absolute(value)
      /\ Absolute(value) \in Nat /\ magnitude \in Nat
  BY AbsoluteIsNat DEF Write, IInv
<1>3. magnitude < 10
  BY <1>2 DEF Write, MoreDigits
<1>4. HasDigits(Absolute(value), k + 1)
  BY <1>1, <1>2, <1>3, RestEnds
<1>5. CountedAll
  BY <1>1, <1>4 DEF CountedAll
<1>6. CountedAll'
  BY <1>2, <1>5 DEF CountedAll, WithSign
<1>7. Len(<<>>) = 0 /\ LastDigits(<<>>, 0, Absolute(value))
  BY DEF LastDigits
<1>8. Rest(Absolute(value), 0, Absolute(value))
  BY <1>2, RestStarts
<1>9. /\ LastDigits(buffer', Len(buffer'), Absolute(value'))
      /\ Rest(Absolute(value'), Len(buffer'), magnitude')
  BY <1>2, <1>7, <1>8
<1> QED BY <1>2, <1>6, <1>9 DEF FillInv

LEMMA WriteDigitStep ==
  ASSUME IInv, FillInv, WriteDigit
  PROVE  FillInv'
<1>1. /\ CountedAll
      /\ LastDigits(buffer, Len(buffer), Absolute(value))
      /\ Rest(Absolute(value), Len(buffer), magnitude)
  BY DEF FillInv, WriteDigit
<1>2. /\ value' = value /\ counted' = counted
      /\ buffer' = Append(buffer, ToString(magnitude % 10))
      /\ magnitude' = magnitude \div 10
      /\ magnitude \in Nat /\ buffer \in Seq(Byte) /\ Absolute(value) \in Nat
  BY AbsoluteIsNat DEF IInv, WriteDigit
<1>3. CountedAll'
  BY <1>1, <1>2 DEF CountedAll, WithSign
<1>4. ToString(magnitude % 10) \in Byte
  BY <1>2 DEF Byte
<1>5. LastDigits(buffer', Len(buffer'), Absolute(value'))
  BY <1>1, <1>2, <1>4, DigitAdded
<1>6. PICK n \in Nat : n = Len(buffer)
  BY <1>2
<1>7. Len(buffer') = n + 1
  BY <1>2, <1>4, <1>6, AppendProperties
<1>8. CASE magnitude \div 10 = 0
  <2>1. pc' = "sign"
    BY <1>8 DEF WriteDigit, LastDigit
  <2>2. magnitude < 10
    BY <1>2, <1>8
  <2>3. HasDigits(Absolute(value), n + 1)
    BY <1>1, <1>2, <1>6, <2>2, RestEnds
  <2>4. HasDigits(Absolute(value'), Len(buffer'))
    BY <1>2, <1>7, <2>3
  <2> QED BY <1>3, <1>5, <2>1, <2>4 DEF FillInv
<1>9. CASE magnitude \div 10 # 0
  <2>1. pc' = "digits"
    BY <1>9 DEF WriteDigit, LastDigit
  <2>2. magnitude >= 10
    BY <1>2, <1>9
  <2>3. Rest(Absolute(value), n + 1, magnitude \div 10)
    BY <1>1, <1>2, <1>6, <2>2, RestNext
  <2>4. Rest(Absolute(value'), Len(buffer'), magnitude')
    BY <1>2, <1>7, <2>3
  <2> QED BY <1>3, <1>5, <2>1, <2>4 DEF FillInv
<1> QED BY <1>8, <1>9

LEMMA SignStep ==
  ASSUME IInv, FillInv, Sign
  PROVE  FillInv' /\ DecimalBytes'
<1>1. /\ CountedAll
      /\ LastDigits(buffer, Len(buffer), Absolute(value))
      /\ HasDigits(Absolute(value), Len(buffer))
  BY DEF FillInv, Sign
<1>2. /\ value' = value /\ counted' = counted /\ pc' = "reserve"
      /\ buffer' = (IF value < 0 THEN Append(buffer, "-") ELSE buffer)
      /\ buffer \in Seq(Byte) /\ Absolute(value) \in Nat
  BY AbsoluteIsNat DEF IInv, Sign
<1>3. PICK n \in Nat : n = Len(buffer)
  BY <1>2
<1>4. counted = WithSign(n)
  <2>1. PICK j \in Nat : counted = WithSign(j) /\ HasDigits(Absolute(value), j)
    BY <1>1 DEF CountedAll
  <2>2. j = n
    BY <1>1, <1>2, <1>3, <2>1, DigitsUnique
  <2> QED BY <2>1, <2>2
<1>5. CountedAll'
  BY <1>1, <1>2 DEF CountedAll, WithSign
<1>6. FillInv'
  BY <1>2, <1>5 DEF FillInv
<1>7. CASE value < 0
  <2>1. counted' = n + 1 /\ n = counted' - 1
    BY <1>2, <1>4, <1>7 DEF WithSign
  <2>2. /\ LastDigits(buffer', n, Absolute(value))
        /\ Len(buffer') = n + 1 /\ Last(buffer') = "-"
    BY <1>1, <1>2, <1>3, <1>7, DigitsKept DEF Byte
  <2> QED BY <1>1, <1>2, <1>3, <1>6, <1>7, <2>1, <2>2 DEF DecimalBytes
<1>8. CASE ~(value < 0)
  <2>1. counted' = n /\ buffer' = buffer
    BY <1>2, <1>4, <1>8 DEF WithSign
  <2> QED BY <1>1, <1>2, <1>3, <1>6, <1>8, <2>1 DEF DecimalBytes
<1> QED BY <1>7, <1>8

LEMMA DigitsStep == IInv /\ DigitsInv /\ [Next]_vars => DigitsInv'
<1> SUFFICES ASSUME IInv, CountInv, FillInv, DecimalBytes, [Next]_vars
             PROVE  DigitsInv'
  BY DEF DigitsInv
<1>1. CASE Count
  <2>1. pc' = "count"
    BY <1>1 DEF Count
  <2>2. FillInv' /\ DecimalBytes'
    BY <2>1 DEF FillInv, DecimalBytes
  <2> QED BY <1>1, <2>2, CountStep DEF DigitsInv
<1>2. CASE CountDigit
  <2>1. pc' = "count"
    BY <1>2 DEF CountDigit
  <2>2. FillInv' /\ DecimalBytes'
    BY <2>1 DEF FillInv, DecimalBytes
  <2> QED BY <1>2, <2>2, CountDigitStep DEF DigitsInv
<1>3. CASE Write
  <2>1. pc' = "digits"
    BY <1>3 DEF Write
  <2>2. CountInv' /\ DecimalBytes'
    BY <2>1 DEF CountInv, DecimalBytes
  <2> QED BY <1>3, <2>2, WriteStep DEF DigitsInv
<1>4. CASE WriteDigit
  <2>1. pc' \in {"digits", "sign"}
    BY <1>4 DEF WriteDigit
  <2>2. CountInv' /\ DecimalBytes'
    BY <2>1 DEF CountInv, DecimalBytes
  <2> QED BY <1>4, <2>2, WriteDigitStep DEF DigitsInv
<1>5. CASE Sign
  <2>1. pc' = "reserve"
    BY <1>5 DEF Sign
  <2>2. CountInv'
    BY <2>1 DEF CountInv
  <2> QED BY <1>5, <2>2, SignStep DEF DigitsInv
<1>6. CASE Reserve \/ CopyByte \/ Copied \/ Again
  <2>1. pc' \in {"copy", "done", "idle"}
    BY <1>6 DEF Reserve, CopyByte, Copied, Again
  <2> QED BY <2>1 DEF DigitsInv, CountInv, FillInv, DecimalBytes
<1>7. CASE UNCHANGED vars
  BY <1>7 DEF vars, DigitsInv, CountInv, FillInv, DecimalBytes, CountedAll, WithSign
<1> QED BY <1>1, <1>2, <1>3, <1>4, <1>5, <1>6, <1>7 DEF Next

(* For integers of any width, the bytes for which jitjson_writer_int64     *)
(* asks for room are as many as addInt64 counted, by another loop, and     *)
(* they are the sign and the decimal digits of the integer, by place       *)
(* value and without a leading zero, of the least integer too              *)
(* (packed.go:357-369, writer_linux_amd64.c:53-65).                        *)
THEOREM DigitsAsCounted == Spec => []DecimalBytes
<1>1. Init => DigitsInv
  BY DEF Init, DigitsInv, CountInv, FillInv, DecimalBytes
<1>2. DigitsInv => DecimalBytes
  BY DEF DigitsInv
<1> QED BY <1>1, <1>2, InitIInv, NextIInv, DigitsStep, PTL DEF Spec
-----------------------------------------------------------------------------
(* What Int64Text says of a number: its digits one way are its digits the  *)
(* other way reversed, and as many as its divisions by ten say.            *)
LEMMA ByteIs == DigitIn(Byte) /\ "-" \in Byte
BY DEF DigitIn, Byte

LEMMA Chosen ==
  ChosenBackwards(Digits) /\ ChosenForwards(DecimalDigits) /\ ChosenAfterFirst(Divisions)
<1>1. ChosenBackwards(Digits)
  BY DEF ChosenBackwards, SolvesBackwards, Digits
<1>2. ChosenForwards(DecimalDigits)
  BY DEF ChosenForwards, SolvesForwards, DecimalDigits
<1>3. ChosenAfterFirst(Divisions)
  BY DEF ChosenAfterFirst, SolvesAfterFirst, Divisions
<1> QED BY <1>1, <1>2, <1>3

LEMMA DigitsAre ==
  ASSUME NEW m \in Nat
  PROVE  /\ Digits[m] \in Seq(Byte) /\ DecimalDigits[m] \in Seq(Byte)
         /\ Divisions[m] \in Nat
         /\ Reverse(Digits[m]) = DecimalDigits[m]
         /\ Len(Digits[m]) = 1 + Divisions[m]
BY ByteIs, Chosen, DigitTexts

LEMMA DigitsEquation ==
  ASSUME NEW m \in Nat
  PROVE  Digits[m] = <<ToString(m % 10)>> \o (IF m \div 10 = 0 THEN <<>> ELSE Digits[m \div 10])
<1>1. SolvesBackwards(Digits)
  BY ByteIs, Chosen, BackwardsEquations
<1> QED BY <1>1 DEF SolvesBackwards

LEMMA DivisionsEquation ==
  ASSUME NEW m \in Nat
  PROVE  Divisions[m] = IF m >= 10 THEN 1 + Divisions[m \div 10] ELSE 0
<1>1. SolvesAfterFirst(Divisions)
  BY Chosen, AfterFirstEquations
<1> QED BY <1>1 DEF SolvesAfterFirst

(* The buffer, copied out backwards, is the decimal text, and the count is *)
(* its length.                                                             *)
LEMMA TextIs ==
  ASSUME NEW v \in Ints
  PROVE  /\ Buffer(v) \in Seq(Byte) /\ Decimal(v) \in Seq(Byte)
         /\ Reverse(Buffer(v)) = Decimal(v)
         /\ Len(Buffer(v)) = Int64Length(v)
         /\ Len(Decimal(v)) = Int64Length(v)
         /\ Int64Length(v) \in Nat
<1>1. PICK m \in Nat : m = Magnitude(v) /\ m = IF v < 0 THEN -v ELSE v
  BY MagnitudeAbsolute, MagnitudeBounded
<1>2. PICK d \in Seq(Byte), t \in Seq(Byte) : d = Digits[m] /\ t = DecimalDigits[m]
  BY DigitsAre
<1>3. PICK n \in Nat : n = Divisions[m]
  BY DigitsAre
<1>4. Reverse(d) = t /\ Len(d) = 1 + n
  BY <1>2, <1>3, DigitsAre
<1>5. Len(t) = 1 + n
  BY <1>4, ReverseIs
<1>6. <<"-">> \in Seq(Byte) /\ Len(<<"-">>) = 1
  BY ByteIs
<1>7. CASE v < 0
  <2>1. /\ Buffer(v) = d \o <<"-">> /\ Decimal(v) = <<"-">> \o t
        /\ Int64Length(v) = 2 + n
    BY <1>1, <1>2, <1>3, <1>7 DEF Buffer, Decimal, Int64Length
  <2>2. Reverse(d \o <<"-">>) = Reverse(<<"-">>) \o Reverse(d)
    BY <1>6, ReverseJoined
  <2>3. Reverse(<<"-">>) = <<"-">>
    BY ByteIs, ReverseOne
  <2>4. d \o <<"-">> \in Seq(Byte) /\ Len(d \o <<"-">>) = (1 + n) + 1
    BY <1>4, <1>6, ConcatProperties
  <2>5. <<"-">> \o t \in Seq(Byte) /\ Len(<<"-">> \o t) = 1 + (1 + n)
    BY <1>5, <1>6, ConcatProperties
  <2>6. Reverse(Buffer(v)) = Decimal(v)
    BY <1>4, <2>1, <2>2, <2>3
  <2>7. (1 + n) + 1 = 2 + n /\ 1 + (1 + n) = 2 + n /\ 2 + n \in Nat
    OBVIOUS
  <2> QED BY <2>1, <2>4, <2>5, <2>6, <2>7
<1>8. CASE ~(v < 0)
  <2>1. /\ Buffer(v) = d \o <<>> /\ Decimal(v) = t /\ Int64Length(v) = 1 + n
    BY <1>1, <1>2, <1>3, <1>8 DEF Buffer, Decimal, Int64Length
  <2>2. d \o <<>> = d
    BY ConcatEmptySeq
  <2> QED BY <1>4, <1>5, <2>1, <2>2
<1> QED BY <1>7, <1>8

-----------------------------------------------------------------------------
(* What the two loops have done and what is left for them to do.           *)
CountLeft ==
  /\ pc = "count" => /\ counted \in Nat
                     /\ counted + Divisions[magnitude] = Int64Length(value)
  /\ pc \in {"digits", "sign", "reserve", "copy", "done"} => counted = Int64Length(value)

FillLeft ==
  /\ pc = "digits" => buffer \o Digits[magnitude] = Digits[Magnitude(value)]
  /\ pc = "sign" => buffer = Digits[Magnitude(value)]
  /\ pc = "reserve" => buffer = Buffer(value)

CopyLeft ==
  /\ pc \in {"idle", "count", "digits", "sign", "reserve"} => text = <<>>
  /\ pc \in {"digits", "sign", "reserve", "copy", "done"} => room \in Int
  /\ pc = "copy" => /\ text \in Seq(Byte)
                    /\ text \o Reverse(buffer) = Decimal(value)
                    /\ counted <= room
  /\ pc = "done" => text = IF room < counted THEN <<>> ELSE Decimal(value)

TextInv == CountLeft /\ FillLeft /\ CopyLeft

LEMMA CountLeftStep ==
  ASSUME IInv, CountLeft, [Next]_vars
  PROVE  CountLeft'
<1>1. CASE Count
  <2>1. /\ value' \in Ints /\ magnitude' = Magnitude(value') /\ pc' = "count"
        /\ counted' = IF value' < 0 THEN 2 ELSE 1
    BY <1>1 DEF Count
  <2> QED BY <2>1 DEF CountLeft, Int64Length
<1>2. CASE CountDigit
  <2>1. /\ pc = "count" /\ pc' = "count" /\ value' = value
        /\ counted' = counted + 1 /\ magnitude' = magnitude \div 10
        /\ magnitude >= 10 /\ magnitude \in Nat
    BY <1>2 DEF CountDigit, MoreDigits, IInv
  <2>2. PICK m \in Nat : m = magnitude
    BY <2>1
  <2>3. m \div 10 \in Nat
    OBVIOUS
  <2>4. Divisions[m] = 1 + Divisions[m \div 10] /\ Divisions[m \div 10] \in Nat
    BY <2>1, <2>2, <2>3, DivisionsEquation, DigitsAre
  <2>5. counted \in Nat /\ counted + Divisions[m] = Int64Length(value)
    BY <2>1, <2>2 DEF CountLeft
  <2>6. counted + 1 \in Nat /\ (counted + 1) + Divisions[m \div 10] = Int64Length(value)
    BY <2>4, <2>5
  <2> QED BY <2>1, <2>2, <2>6 DEF CountLeft
<1>3. CASE Write
  <2>1. /\ pc = "count" /\ pc' = "digits" /\ value' = value /\ counted' = counted
        /\ ~(magnitude >= 10) /\ magnitude \in Nat
    BY <1>3 DEF Write, MoreDigits, IInv
  <2>2. Divisions[magnitude] = 0
    BY <2>1, DivisionsEquation
  <2>3. counted \in Nat /\ counted + 0 = Int64Length(value)
    BY <2>1, <2>2 DEF CountLeft
  <2> QED BY <2>1, <2>3 DEF CountLeft
<1>4. CASE WriteDigit \/ Sign \/ Reserve \/ CopyByte \/ Copied
  <2>1. /\ pc \in {"digits", "sign", "reserve", "copy"} /\ pc' # "count"
        /\ value' = value /\ counted' = counted
    BY <1>4 DEF WriteDigit, Sign, Reserve, CopyByte, Copied
  <2> QED BY <2>1 DEF CountLeft
<1>5. CASE Again
  <2>1. pc' = "idle"
    BY <1>5 DEF Again
  <2> QED BY <2>1 DEF CountLeft
<1>6. CASE UNCHANGED vars
  BY <1>6 DEF CountLeft, vars
<1> QED BY <1>1, <1>2, <1>3, <1>4, <1>5, <1>6 DEF Next

LEMMA FillLeftStep ==
  ASSUME IInv, FillLeft, [Next]_vars
  PROVE  FillLeft'
<1>1. CASE Count \/ CountDigit \/ CopyByte \/ Copied \/ Again \/ Reserve
  <2>1. pc' \notin {"digits", "sign", "reserve"}
    BY <1>1 DEF Count, CountDigit, CopyByte, Copied, Again, Reserve
  <2> QED BY <2>1 DEF FillLeft
<1>2. CASE Write
  <2>1. /\ pc' = "digits" /\ value' = value /\ buffer' = <<>>
        /\ magnitude' = Magnitude(value) /\ Magnitude(value) \in Nat
    BY <1>2, MagnitudeBounded DEF Write, IInv
  <2>2. Digits[Magnitude(value)] \in Seq(Byte)
    BY <2>1, DigitsAre
  <2>3. <<>> \o Digits[Magnitude(value)] = Digits[Magnitude(value)]
    BY <2>2, ConcatEmptySeq
  <2> QED BY <2>1, <2>3 DEF FillLeft
<1>3. CASE WriteDigit
  <2>1. /\ pc = "digits" /\ value' = value /\ magnitude \in Nat
        /\ buffer \in Seq(Byte)
        /\ buffer' = Append(buffer, ToString(magnitude % 10))
        /\ magnitude' = magnitude \div 10
        /\ pc' = IF magnitude \div 10 = 0 THEN "sign" ELSE "digits"
    BY <1>3 DEF WriteDigit, LastDigit, IInv
  <2>2. PICK m \in Nat : m = magnitude
    BY <2>1
  <2>3. buffer \o Digits[m] = Digits[Magnitude(value)]
    BY <2>1, <2>2 DEF FillLeft
  <2>4. PICK x \in Byte : x = ToString(m % 10)
    BY ByteIs, OneDigit
  <2>5. PICK d : d = <<x>>
    OBVIOUS
  <2>6. d \in Seq(Byte) /\ Append(buffer, x) = buffer \o d
    BY <2>1, <2>5, AppendIsConcat
  <2>7. CASE m \div 10 = 0
    <3>1. Digits[m] = d \o <<>>
      BY <2>4, <2>5, <2>7, DigitsEquation
    <3>2. d \o <<>> = d
      BY <2>6, ConcatEmptySeq
    <3>3. buffer' = Digits[Magnitude(value)] /\ pc' = "sign"
      BY <2>1, <2>2, <2>3, <2>4, <2>6, <2>7, <3>1, <3>2
    <3> QED BY <2>1, <3>3 DEF FillLeft
  <2>8. CASE m \div 10 # 0
    <3>1. PICK r \in Seq(Byte) : r = Digits[m \div 10]
      <4>1. m \div 10 \in Nat
        OBVIOUS
      <4> QED BY <4>1, DigitsAre
    <3>2. Digits[m] = d \o r
      BY <2>4, <2>5, <2>8, <3>1, DigitsEquation
    <3>3. (buffer \o d) \o r = buffer \o (d \o r)
      <4>1. buffer \in Seq(Byte) /\ d \in Seq(Byte) /\ r \in Seq(Byte)
        BY <2>1, <2>6
      <4> QED BY <4>1, ConcatAssociative
    <3>4. buffer' \o r = Digits[Magnitude(value)]
      BY <2>1, <2>2, <2>3, <2>4, <2>6, <3>2, <3>3
    <3>5. pc' = "digits" /\ Digits[magnitude'] = r
      BY <2>1, <2>2, <2>8, <3>1
    <3> QED BY <2>1, <3>4, <3>5 DEF FillLeft
  <2> QED BY <2>7, <2>8
<1>4. CASE Sign
  <2>1. /\ pc = "sign" /\ pc' = "reserve" /\ value' = value
        /\ buffer \in Seq(Byte) /\ buffer = Digits[Magnitude(value)]
        /\ buffer' = IF value < 0 THEN Append(buffer, "-") ELSE buffer
    BY <1>4 DEF Sign, IInv, FillLeft
  <2>2. buffer \o <<>> = buffer /\ Append(buffer, "-") = buffer \o <<"-">>
    BY <2>1, ByteIs, ConcatEmptySeq, AppendIsConcat
  <2>3. buffer' = Buffer(value)
    BY <2>1, <2>2 DEF Buffer
  <2> QED BY <2>1, <2>3 DEF FillLeft
<1>5. CASE UNCHANGED vars
  BY <1>5 DEF FillLeft, vars
<1> QED BY <1>1, <1>2, <1>3, <1>4, <1>5 DEF Next

(* A sequence is its front and its last.                                   *)
LEMMA FrontLast ==
  ASSUME NEW s \in Seq(Byte), s # <<>>
  PROVE  /\ Front(s) \in Seq(Byte) /\ Last(s) \in Byte
         /\ s = Front(s) \o <<Last(s)>>
<1>1. PICK n \in Nat : n = Len(s)
  OBVIOUS
<1>2. n >= 1 /\ n \in 1 .. n
  BY <1>1
<1>3. PICK x \in Byte : x = Last(s) /\ x = s[n]
  BY <1>1, <1>2 DEF Last
<1>4. PICK f \in Seq(Byte) : f = Front(s) /\ Len(f) = n - 1
  BY <1>1, FrontShorter
<1>5. \A i \in 1 .. n - 1 : f[i] = s[i]
  <2>1. f = SubSeq(s, 1, n - 1)
    BY <1>1, <1>4 DEF Front
  <2> QED BY <1>1, <2>1
<1>6. PICK t : t = Append(f, x)
  OBVIOUS
<1>7. /\ t \in Seq(Byte) /\ Len(t) = n /\ t[n] = x
      /\ \A i \in 1 .. n - 1 : t[i] = f[i]
  <2>1. Len(f) + 1 = n
    BY <1>1, <1>4
  <2> QED BY <1>4, <1>6, <2>1, AppendProperties
<1>8. ASSUME NEW i \in 1 .. n PROVE s[i] = t[i]
  <2>1. i \in 1 .. n - 1 \/ i = n
    BY <1>1
  <2> QED BY <1>3, <1>5, <1>7, <2>1
<1>9. s = t
  BY <1>1, <1>7, <1>8, SeqEqual
<1>10. t = f \o <<x>>
  BY <1>6, AppendIsConcat
<1> QED BY <1>3, <1>4, <1>9, <1>10

LEMMA CopyByteStep ==
  ASSUME IInv, CopyLeft, CountLeft, CopyByte
  PROVE  CopyLeft'
<1>1. /\ pc = "copy" /\ pc' = "copy" /\ buffer # <<>> /\ buffer \in Seq(Byte)
      /\ text' = Append(text, Last(buffer)) /\ buffer' = Front(buffer)
      /\ value' = value /\ counted' = counted /\ room' = room
      /\ text \in Seq(Byte) /\ text \o Reverse(buffer) = Decimal(value)
      /\ counted <= room /\ room \in Int
  BY DEF CopyByte, CopyLeft, IInv
<1>2. PICK f \in Seq(Byte), x \in Byte : f = Front(buffer) /\ x = Last(buffer)
  BY <1>1, FrontLast
<1>3. buffer = f \o <<x>>
  BY <1>1, <1>2, FrontLast
<1>4. PICK d \in Seq(Byte) : d = <<x>>
  <2>1. <<x>> \in Seq(Byte)
    OBVIOUS
  <2> QED BY <2>1
<1>5. Reverse(buffer) = d \o Reverse(f)
  <2>1. Reverse(d) = d
    BY <1>4, ReverseOne
  <2>2. Reverse(f \o d) = Reverse(d) \o Reverse(f)
    BY ReverseJoined
  <2> QED BY <1>3, <1>4, <2>1, <2>2
<1>6. PICK r \in Seq(Byte) : r = Reverse(f)
  BY ReverseIs
<1>7. Append(text, x) = text \o d /\ text \o d \in Seq(Byte)
  <2>1. Append(text, x) = text \o <<x>>
    BY <1>1, AppendIsConcat
  <2>2. text \o d \in Seq(Byte)
    BY <1>1, ConcatProperties
  <2> QED BY <1>4, <2>1, <2>2
<1>8. (text \o d) \o r = text \o (d \o r)
  <2>1. text \in Seq(Byte) /\ d \in Seq(Byte) /\ r \in Seq(Byte)
    BY <1>1
  <2> QED BY <2>1, ConcatAssociative
<1>9. text' \in Seq(Byte) /\ text' \o Reverse(buffer') = Decimal(value')
  BY <1>1, <1>2, <1>5, <1>6, <1>7, <1>8
<1> QED BY <1>1, <1>9 DEF CopyLeft

LEMMA CopyLeftStep ==
  ASSUME IInv, CountLeft, FillLeft, CopyLeft, [Next]_vars
  PROVE  CopyLeft'
<1>1. CASE Count \/ CountDigit \/ Again
  <2>1. pc' \in {"idle", "count"} /\ text' = <<>>
    BY <1>1 DEF Count, CountDigit, Again, CopyLeft
  <2> QED BY <2>1 DEF CopyLeft
<1>2. CASE Write
  <2>1. pc = "count" /\ pc' = "digits" /\ text' = text
    BY <1>2 DEF Write
  <2>2. counted \in Int
    BY <2>1 DEF CountLeft
  <2>3. PICK spare \in Spares : room' = counted + spare
    BY <1>2 DEF Write
  <2>4. spare \in Int
    BY BufferAssumption
  <2>5. room' \in Int
    BY <2>2, <2>3, <2>4
  <2> QED BY <2>1, <2>5 DEF CopyLeft
<1>3. CASE WriteDigit \/ Sign
  <2>1. /\ pc \in {"digits", "sign"} /\ pc' \in {"digits", "sign", "reserve"}
        /\ text' = text /\ room' = room
    BY <1>3 DEF WriteDigit, Sign
  <2> QED BY <2>1 DEF CopyLeft
<1>4. CASE Reserve
  <2>1. /\ pc = "reserve" /\ text' = text /\ room' = room /\ value' = value
        /\ counted' = counted /\ buffer' = buffer /\ value \in Ints
        /\ pc' = IF Len(buffer) > room THEN "done" ELSE "copy"
        /\ text = <<>> /\ room \in Int
    BY <1>4 DEF Reserve, CopyLeft, IInv
  <2>2. buffer = Buffer(value) /\ counted = Int64Length(value)
    BY <2>1 DEF FillLeft, CountLeft
  <2>3. /\ Len(buffer) = counted /\ counted \in Nat
        /\ Reverse(buffer) = Decimal(value) /\ Decimal(value) \in Seq(Byte)
    BY <2>1, <2>2, TextIs
  <2>4. <<>> \in Seq(Byte) /\ <<>> \o Decimal(value) = Decimal(value)
    BY <2>3, ConcatEmptySeq
  <2>5. CASE room < counted
    <3>1. pc' = "done" /\ text' = <<>> /\ room' \in Int /\ room' < counted'
      BY <2>1, <2>3, <2>5
    <3> QED BY <3>1 DEF CopyLeft
  <2>6. CASE ~(room < counted)
    <3>1. pc' = "copy" /\ counted' <= room' /\ room' \in Int
      BY <2>1, <2>3, <2>6
    <3>2. text' \in Seq(Byte) /\ text' \o Reverse(buffer') = Decimal(value')
      BY <2>1, <2>3, <2>4
    <3> QED BY <3>1, <3>2 DEF CopyLeft
  <2> QED BY <2>5, <2>6
<1>5. CASE CopyByte
  BY <1>5, CopyByteStep
<1>6. CASE Copied
  <2>1. /\ pc = "copy" /\ pc' = "done" /\ buffer = <<>> /\ text' = text
        /\ room' = room /\ counted' = counted /\ value' = value
        /\ text \in Seq(Byte) /\ text \o Reverse(buffer) = Decimal(value)
        /\ counted <= room /\ room \in Int /\ value \in Ints
    BY <1>6 DEF Copied, CopyLeft, IInv
  <2>2. Reverse(<<>>) = <<>>
    <3>1. <<>> \in Seq(Byte) /\ Len(<<>>) = 0
      OBVIOUS
    <3>2. Reverse(<<>>) \in Seq(Byte) /\ Len(Reverse(<<>>)) = 0
      BY <3>1, ReverseIs
    <3> QED BY <3>2, EmptySeq
  <2>3. text \o <<>> = text
    BY <2>1, ConcatEmptySeq
  <2>4. counted \in Nat
    <3>1. counted = Int64Length(value)
      BY <2>1 DEF CountLeft
    <3> QED BY <2>1, <3>1, TextIs
  <2>5. text' = Decimal(value') /\ ~(room' < counted')
    BY <2>1, <2>2, <2>3, <2>4
  <2> QED BY <2>1, <2>5 DEF CopyLeft
<1>7. CASE UNCHANGED vars
  BY <1>7 DEF CopyLeft, vars
<1> QED BY <1>1, <1>2, <1>3, <1>4, <1>5, <1>6, <1>7 DEF Next

(* For integers of any width and outputs of any size, what addInt64 counts *)
(* is the length of the decimal text, and jitjson_writer_int64 writes that *)
(* text, digit by digit and backwards through its buffer, whenever there   *)
(* is room for it and nothing when there is not, of the least integer too  *)
(* (packed.go:357-369, writer_linux_amd64.c:53-72).                        *)
THEOREM IntegersWritten == Spec => []WrittenAsCounted
<1>1. Init => TextInv
  BY DEF Init, TextInv, CountLeft, FillLeft, CopyLeft
<1>2. IInv /\ TextInv /\ [Next]_vars => TextInv'
  BY CountLeftStep, FillLeftStep, CopyLeftStep DEF TextInv
<1>3. IInv /\ TextInv => WrittenAsCounted
  <2> SUFFICES ASSUME IInv, CountLeft, CopyLeft, pc = "done" PROVE WrittenAsCounted
    BY DEF TextInv, WrittenAsCounted
  <2>1. value \in Ints /\ counted = Int64Length(value)
    BY DEF IInv, CountLeft
  <2>2. /\ Int64Length(value) = Len(Decimal(value))
        /\ Int64Bytes(value) = Decimal(value)
    BY <2>1, TextIs DEF Int64Bytes
  <2> QED BY <2>1, <2>2 DEF CopyLeft, WrittenAsCounted
<1> QED BY <1>1, <1>2, <1>3, InitIInv, NextIInv, PTL DEF Spec
=============================================================================
