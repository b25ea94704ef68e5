---------------------------- MODULE StringWriter ----------------------------
(***************************************************************************)
(* How the native encoder writes one string: write_escaped with the scalar *)
(* scan or the AVX2 scan of simd_linux_amd64.c, or the plain copy.  Bytes  *)
(* are 0 .. 255.  A step is a turn of one of the loops: the blocks of the  *)
(* AVX2 scan, the bytes of the scalar scan (also the tail of the AVX2      *)
(* one), the run and the escape of write_escaped.                          *)
(***************************************************************************)
EXTENDS Integers, Sequences, SequencesExt

CONSTANTS
  Values,    \* strings to write
  Caps,      \* bytes left in the output
  Block,     \* bytes of an AVX2 vector: 32
  Threshold  \* strings shorter than this are scanned byte by byte: 64

Byte == 0 .. 255

ASSUME StringsAssumption ==
  /\ Values \subseteq Seq(Byte)
  /\ Caps \subseteq Nat
  /\ Block \in Nat \ {0}
  /\ Threshold \in Nat

VARIABLES
  value,  \* the string
  writer, \* batch->write_string: "plain", "scalar" or "avx2"
  pc,     \* "start", "block", "tail", "copy", "escape", "close", "done"
  pos,    \* position: bytes of the string written
  i,      \* bytes of the rest of the string scanned
  out,    \* bytes written
  cap,    \* capacity of the output
  status  \* "OK" or "NO_SPACE"

vars == <<value, writer, pc, pos, i, out, cap, status>>

Quote     == 34
Backslash == 92

Init ==
  /\ value \in Values
  /\ writer \in {"plain", "scalar", "avx2"}
  /\ cap \in Caps
  /\ pc = "start"
  /\ pos = 0
  /\ i = 0
  /\ out = <<>>
  /\ status = "OK"

(* Mutant: the room is compared with the capacity, not with what is left.  *)
LiteralLoose(bytes) ==
  IF status = "OK" /\ Len(bytes) <= cap
  THEN out' = out \o bytes /\ UNCHANGED status
  ELSE status' = "NO_SPACE" /\ UNCHANGED out

(* jitjson_writer_literal: all the bytes, or an error that stays.          *)
Literal(bytes) ==
  IF status = "OK" /\ Len(bytes) <= cap - Len(out)
  THEN out' = out \o bytes /\ UNCHANGED status
  ELSE status' = "NO_SPACE" /\ UNCHANGED out

Remaining == Len(value) - pos

(* Byte k of the rest of the string, from 0.                               *)
At(k) == value[pos + k + 1]

-----------------------------------------------------------------------------
(* The scans.                                                              *)

Special(byte) == byte < 32 \/ byte = Quote \/ byte = Backslash

(* The lane of a byte in the movemask: byte & 0xe0 = 0, or an equality.    *)
HighBits(byte) == byte - (byte % 32)
Lane(byte) == HighBits(byte) = 0 \/ byte = Quote \/ byte = Backslash

Mask == {k \in 0 .. Block - 1 : Lane(At(i + k))}

(* __builtin_ctz                                                           *)
LowestOf(mask) == CHOOSE k \in mask : \A j \in mask : k <= j

(* Where write_escaped starts a scan: the AVX2 writer hands strings below  *)
(* the threshold to the scalar one.                                        *)
Scan ==
  IF writer = "avx2" /\ Len(value) >= Threshold THEN "block" ELSE "tail"

(* The loop of write_escaped ends with the string or with an error.        *)
NextRun(status_, pos_) ==
  IF pos_ < Len(value) /\ status_ = "OK" THEN Scan ELSE "close"

Start ==
  /\ pc = "start"
  /\ Literal(<<Quote>>)
  /\ pc' = IF writer = "plain" THEN "copy" ELSE NextRun(status', pos)
  /\ i' = IF writer = "plain" THEN Len(value) ELSE 0
  /\ UNCHANGED <<value, writer, pos, cap>>

BlockFound ==
  /\ pc = "block"
  /\ i + Block <= Remaining
  /\ Mask # {}
  /\ i' = i + LowestOf(Mask)
  /\ pc' = "copy"
  /\ UNCHANGED <<value, writer, pos, out, cap, status>>

(* Mutant: the loop does not advance.                                      *)
BlockClearStuck ==
  /\ pc = "block"
  /\ i + Block <= Remaining
  /\ Mask = {}
  /\ UNCHANGED vars

BlockClear ==
  /\ pc = "block"
  /\ i + Block <= Remaining
  /\ Mask = {}
  /\ i' = i + Block
  /\ UNCHANGED <<value, writer, pc, pos, out, cap, status>>

(* Mutant: the bytes after the last full block are not scanned.            *)
BlocksDoneNoTail ==
  /\ pc = "block"
  /\ i + Block > Remaining
  /\ i' = Remaining
  /\ pc' = "copy"
  /\ UNCHANGED <<value, writer, pos, out, cap, status>>

BlocksDone ==
  /\ pc = "block"
  /\ i + Block > Remaining
  /\ pc' = "tail"
  /\ UNCHANGED <<value, writer, pos, i, out, cap, status>>

TailClear ==
  /\ pc = "tail"
  /\ i < Remaining
  /\ ~Special(At(i))
  /\ i' = i + 1
  /\ UNCHANGED <<value, writer, pc, pos, out, cap, status>>

TailDone ==
  /\ pc = "tail"
  /\ i < Remaining => Special(At(i))
  /\ pc' = "copy"
  /\ UNCHANGED <<value, writer, pos, i, out, cap, status>>

-----------------------------------------------------------------------------
(* The writes.                                                             *)

(* The run of i bytes that need no escape, or the whole plain string.      *)
Run == SubSeq(value, pos + 1, pos + i)

(* Mutant: the next scan goes on from the length of the last run.          *)
CopyRunKept ==
  /\ pc = "copy"
  /\ Literal(Run)
  /\ pos' = pos + i
  /\ pc' = IF pos' = Len(value) THEN "close" ELSE "escape"
  /\ UNCHANGED <<value, writer, i, cap>>

CopyRun ==
  /\ pc = "copy"
  /\ Literal(Run)
  /\ pos' = pos + i
  /\ i' = 0
  /\ pc' = IF pos' = Len(value) THEN "close" ELSE "escape"
  /\ UNCHANGED <<value, writer, cap>>

Hex(n) == IF n < 10 THEN 48 + n ELSE 87 + n

(* Mutant: no short form for the line feed.                                *)
EscapeLineFeed(byte) ==
  CASE byte = Quote     -> <<Backslash, Quote>>
    [] byte = Backslash -> <<Backslash, Backslash>>
    [] byte = 8         -> <<Backslash, 98>>
    [] byte = 12        -> <<Backslash, 102>>
    [] byte = 13        -> <<Backslash, 114>>
    [] byte = 9         -> <<Backslash, 116>>
    [] OTHER -> <<Backslash, 117, 48, 48, Hex(byte \div 16), Hex(byte % 16)>>

Escape(byte) ==
  CASE byte = Quote     -> <<Backslash, Quote>>
    [] byte = Backslash -> <<Backslash, Backslash>>
    [] byte = 8         -> <<Backslash, 98>>
    [] byte = 12        -> <<Backslash, 102>>
    [] byte = 10        -> <<Backslash, 110>>
    [] byte = 13        -> <<Backslash, 114>>
    [] byte = 9         -> <<Backslash, 116>>
    [] OTHER -> <<Backslash, 117, 48, 48, Hex(byte \div 16), Hex(byte % 16)>>

EscapeByte ==
  /\ pc = "escape"
  /\ Literal(Escape(At(0)))
  /\ pos' = pos + 1
  /\ pc' = NextRun(status', pos')
  /\ UNCHANGED <<value, writer, i, cap>>

Close ==
  /\ pc = "close"
  /\ Literal(<<Quote>>)
  /\ pc' = "done"
  /\ UNCHANGED <<value, writer, pos, i, cap>>

Next ==
  \/ Start
  \/ BlockFound \/ BlockClear \/ BlocksDone \/ TailClear \/ TailDone
  \/ CopyRun \/ EscapeByte \/ Close

Safe == Init /\ [][Next]_vars
Spec == Safe /\ WF_vars(Next)

-----------------------------------------------------------------------------
(* What Go expects of it: analyzeJSONString (packed.go) and                *)
(* appendJSONString (reference.go).                                        *)

ShortEscapes == {Quote, Backslash, 8, 12, 10, 13, 9}
LongEscapes  == (0 .. 7) \cup {11} \cup (14 .. 31)
NeedsEscape(byte) == byte \in ShortEscapes \cup LongEscapes

(* Bytes that an escape adds.                                              *)
Extra(byte) ==
  IF byte \in ShortEscapes THEN 1 ELSE IF byte \in LongEscapes THEN 5 ELSE 0

AnalyzedSize(bytes) ==
  LET size[k \in 0 .. Len(bytes)] ==
        IF k = 0 THEN Len(bytes) + 2 ELSE size[k - 1] + Extra(bytes[k])
  IN  size[Len(bytes)]

AnalyzedPlain(bytes) == \A k \in 1 .. Len(bytes) : ~NeedsEscape(bytes[k])

ReferenceByte(byte) ==
  IF byte >= 32 /\ byte # Quote /\ byte # Backslash THEN <<byte>>
  ELSE CASE byte \in {Quote, Backslash} -> <<Backslash, byte>>
         [] byte = 8  -> <<Backslash, 98>>
         [] byte = 12 -> <<Backslash, 102>>
         [] byte = 10 -> <<Backslash, 110>>
         [] byte = 13 -> <<Backslash, 114>>
         [] byte = 9  -> <<Backslash, 116>>
         [] OTHER -> <<Backslash, 117, 48, 48, Hex(byte \div 16), Hex(byte % 16)>>

ReferenceString(bytes) ==
  <<Quote>> \o FlattenSeq([k \in 1 .. Len(bytes) |-> ReferenceByte(bytes[k])])
    \o <<Quote>>

=============================================================================
