----------------------------- MODULE Int64Text ------------------------------
(***************************************************************************)
(* The decimal text of a signed integer, computed twice:                   *)
(* sizeAccumulator.addInt64 (packed.go) counts its bytes, and              *)
(* jitjson_writer_int64 (C) fills a buffer from the last digit to the      *)
(* first and copies it out backwards.  Both take the magnitude in unsigned *)
(* arithmetic, where the least integer has one and its negation has none.  *)
(* These are the results of the two; Int64Writer runs their loops.         *)
(***************************************************************************)
EXTENDS Integers, SequencesExt

CONSTANT Half \* integers are -Half .. Half - 1: 2^63 in the code

ASSUME HalfAssumption == Half \in Nat \ {0}

Modulus == 2 * Half
Ints    == -Half .. Half - 1

Unsigned(v) == v % Modulus

(* Mutant: the magnitude is taken in signed arithmetic, where negating the *)
(* least integer overflows back to itself.                                 *)
MagnitudeSigned(v) ==
  IF v < 0 THEN (Modulus - Unsigned(v)) % (Modulus \div 2) ELSE v

Magnitude(v) == IF v < 0 THEN (0 - Unsigned(v)) % Modulus ELSE Unsigned(v)

(* Bytes counted by addInt64: one, one for the sign, one for each division *)
(* by ten that leaves a magnitude of ten or more.                          *)
Divisions[m \in Nat] == IF m >= 10 THEN 1 + Divisions[m \div 10] ELSE 0

Int64Length(v) ==
  (IF v < 0 THEN 2 ELSE 1) + Divisions[Magnitude(v)]

(* The buffer of jitjson_writer_int64 after its do-while loop, first byte  *)
(* first: the last digit of the number.                                    *)
Digits[m \in Nat] ==
  <<ToString(m % 10)>> \o (IF m \div 10 = 0 THEN <<>> ELSE Digits[m \div 10])

Buffer(v) == Digits[Magnitude(v)] \o (IF v < 0 THEN <<"-">> ELSE <<>>)

(* The bytes as they are copied out.                                       *)
Int64Bytes(v) == Reverse(Buffer(v))

-----------------------------------------------------------------------------
(* strconv.AppendInt, which the reference encoder uses: the decimal digits *)
(* of a number, the first digit first.                                     *)
DecimalDigits[m \in Nat] ==
  (IF m < 10 THEN <<>> ELSE DecimalDigits[m \div 10]) \o <<ToString(m % 10)>>

Decimal(v) ==
  IF v < 0 THEN <<"-">> \o DecimalDigits[-v] ELSE DecimalDigits[v]
=============================================================================
