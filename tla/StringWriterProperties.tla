----------------------- MODULE StringWriterProperties -----------------------
(***************************************************************************)
(* What is checked, and in StringWriterProofs proved, of StringWriter.     *)
(***************************************************************************)
EXTENDS StringWriter

TypeOK ==
  /\ value \in Seq(Byte)
  /\ writer \in {"plain", "scalar", "avx2"}
  /\ pc \in {"start", "block", "tail", "copy", "escape", "close", "done"}
  /\ pos \in 0 .. Len(value)
  /\ i \in 0 .. Len(value) - pos
  /\ out \in Seq(Byte)
  /\ cap \in Nat
  /\ status \in {"OK", "NO_SPACE"}

(* The run that is copied unescaped holds no byte that Go counts as one to *)
(* escape (packed.go:384-405), the byte behind it is one, and neither      *)
(* reaches past the string: the vector lanes, the blocks, the last partial *)
(* block and the scalar tail find the first such byte together             *)
(* (simd_linux_amd64.c:7-39, writer_linux_amd64.c:115-124).                *)
RunsAreSafe ==
  /\ pc = "copy" /\ writer # "plain" =>
       /\ \A k \in 0 .. i - 1 : ~NeedsEscape(At(k))
       /\ i < Remaining => NeedsEscape(At(i))
  /\ pc = "escape" => pos < Len(value) /\ NeedsEscape(At(0))

(* The output never holds more bytes than its capacity, also after a write *)
(* that did not fit (writer_linux_amd64.c:32-51).                          *)
StaysInside == Len(out) <= cap

(* Each writer writes what the reference encoder writes, when the plain    *)
(* copy is only used where packing found nothing to escape                 *)
(* (packed.go:384-405, bridge_linux_amd64.c:88); it runs out of space      *)
(* exactly when there is less of it than packing counted.                  *)
WritesReference ==
  pc = "done" /\ (writer = "plain" => AnalyzedPlain(value)) =>
    /\ status = "OK" <=> AnalyzedSize(value) <= cap
    /\ status = "OK" => out = ReferenceString(value)
    /\ IsPrefix(out, ReferenceString(value))

(* Every turn of the loops makes progress.                                 *)
Terminates == <>(pc = "done")
=============================================================================
