---------------------------- MODULE Int64Writer -----------------------------
(***************************************************************************)
(* An integer on its way into the output, loop by loop: the packer counts  *)
(* its bytes (sizeAccumulator.addInt64), and the writer later fills a      *)
(* buffer of BufferSize bytes with its digits, asks for room and copies    *)
(* the buffer out backwards (jitjson_writer_int64).                        *)
(***************************************************************************)
EXTENDS Int64Text

CONSTANTS
  BufferSize, \* bytes of the buffer: 20 in the code
  Spares,     \* room left in the output beyond the bytes counted, or short
  Quotient    \* Quotient[k]: Half divided by ten k times

(* The magnitude of the least integer has a digit less than the buffer has *)
(* bytes: 2^63 divided by ten 18 times is 9.                               *)
ASSUME BufferAssumption ==
  /\ BufferSize \in Nat /\ BufferSize >= 2
  /\ Spares \subseteq Int
  /\ Quotient \in [0 .. BufferSize - 2 -> Nat]
  /\ Quotient[0] = Half
  /\ \A k \in 1 .. BufferSize - 2 : Quotient[k] = Quotient[k - 1] \div 10
  /\ Quotient[BufferSize - 2] < 10

VARIABLES
  pc,        \* "idle", "count", "digits", "sign", "reserve", "copy", "done"
  value,     \* the integer
  magnitude, \* what is left of its magnitude
  counted,   \* bytes counted by the packer
  room,      \* bytes left in the output
  buffer,    \* the bytes of the buffer in use, first byte first
  text       \* what was appended to the output

vars == <<pc, value, magnitude, counted, room, buffer, text>>

Init ==
  /\ pc = "idle"
  /\ value = 0
  /\ magnitude = 0
  /\ counted = 0
  /\ room = 0
  /\ buffer = <<>>
  /\ text = <<>>

-----------------------------------------------------------------------------
(* addInt64.                                                               *)
Count ==
  /\ pc = "idle"
  /\ value' \in Ints
  /\ magnitude' = Magnitude(value')
  /\ counted' = IF value' < 0 THEN 2 ELSE 1
  /\ pc' = "count"
  /\ UNCHANGED <<room, buffer, text>>

(* Mutant: the count stops one number late, at a ten.                      *)
MoreDigitsLoose(m) == m > 10

MoreDigits(m) == m >= 10

CountDigit ==
  /\ pc = "count"
  /\ MoreDigits(magnitude)
  /\ counted' = counted + 1
  /\ magnitude' = magnitude \div 10
  /\ UNCHANGED <<pc, value, room, buffer, text>>

(* The packer is done; the writer is called with the output it has.        *)
Write ==
  /\ pc = "count"
  /\ ~MoreDigits(magnitude)
  /\ \E spare \in Spares : room' = counted + spare
  /\ magnitude' = Magnitude(value)
  /\ pc' = "digits"
  /\ UNCHANGED <<value, counted, buffer, text>>

-----------------------------------------------------------------------------
(* jitjson_writer_int64.                                                   *)

(* Mutant: the loop tests the magnitude before it divides.                 *)
LastDigitLate(m) == m = 0

LastDigit(m) == m \div 10 = 0

WriteDigit ==
  /\ pc = "digits"
  /\ buffer' = Append(buffer, ToString(magnitude % 10))
  /\ magnitude' = magnitude \div 10
  /\ pc' = IF LastDigit(magnitude) THEN "sign" ELSE "digits"
  /\ UNCHANGED <<value, counted, room, text>>

Sign ==
  /\ pc = "sign"
  /\ buffer' = IF value < 0 THEN Append(buffer, "-") ELSE buffer
  /\ pc' = "reserve"
  /\ UNCHANGED <<value, magnitude, counted, room, text>>

Reserve ==
  /\ pc = "reserve"
  /\ pc' = IF Len(buffer) > room THEN "done" ELSE "copy"
  /\ UNCHANGED <<value, magnitude, counted, room, buffer, text>>

CopyByte ==
  /\ pc = "copy"
  /\ buffer # <<>>
  /\ text' = Append(text, Last(buffer))
  /\ buffer' = Front(buffer)
  /\ UNCHANGED <<pc, value, magnitude, counted, room>>

Copied ==
  /\ pc = "copy"
  /\ buffer = <<>>
  /\ pc' = "done"
  /\ UNCHANGED <<value, magnitude, counted, room, buffer, text>>

(* The next integer.                                                       *)
Again ==
  /\ pc = "done"
  /\ pc' = "idle"
  /\ value' = 0
  /\ magnitude' = 0
  /\ counted' = 0
  /\ room' = 0
  /\ buffer' = <<>>
  /\ text' = <<>>

Next ==
  \/ Count \/ CountDigit \/ Write
  \/ WriteDigit \/ Sign \/ Reserve \/ CopyByte \/ Copied \/ Again

Spec == Init /\ [][Next]_vars

-----------------------------------------------------------------------------
(* Properties.                                                             *)

(* The digits and the sign of every integer, the least one included, fit   *)
(* the buffer on the C stack (writer_linux_amd64.c:54-65).                 *)
BufferHolds == Len(buffer) <= BufferSize

(* Ten to the power k.                                                     *)
Power[k \in Nat] == IF k = 0 THEN 1 ELSE 10 * Power[k - 1]

Absolute(v) == IF v < 0 THEN -v ELSE v

(* The last n decimal digits of m, the last of them first.                 *)
LastDigits(bytes, n, m) ==
  \A k \in 1 .. n : bytes[k] = ToString((m \div Power[k - 1]) % 10)

(* As many digits as m has when it is written without leading zeros.       *)
HasDigits(m, n) == n >= 1 /\ m < Power[n] /\ (n = 1 \/ Power[n - 1] <= m)

(* The bytes for which the writer asks for room are as many as the packer  *)
(* counted, and they are the decimal digits of the integer by place value, *)
(* all of them, no leading zero, and its sign (packed.go:357-369,          *)
(* writer_linux_amd64.c:53-65).                                            *)
DecimalBytes ==
  pc = "reserve" =>
    LET digits == IF value < 0 THEN counted - 1 ELSE counted
    IN  /\ Len(buffer) = counted
        /\ HasDigits(Absolute(value), digits)
        /\ LastDigits(buffer, digits, Absolute(value))
        /\ value < 0 => Last(buffer) = "-"

(* The bytes appended are the decimal text of the integer and as many as   *)
(* the packer counted, all of them when there is room for as many, none    *)
(* when there is not; both loops compute what Int64Text says               *)
(* (packed.go:357-369, writer_linux_amd64.c:53-72).                        *)
WrittenAsCounted ==
  pc = "done" =>
    /\ counted = Len(Decimal(value))
    /\ text = (IF room < counted THEN <<>> ELSE Decimal(value))
    /\ Int64Length(value) = counted
    /\ Int64Bytes(value) = Decimal(value)
=============================================================================
