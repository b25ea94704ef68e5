--------------------------- MODULE NativeEncoder ----------------------------
(***************************************************************************)
(* The life of a native encoder: NewEncoder (encoder.go and                *)
(* native_linux_amd64.go), jitjson_encoder_create and jitjson_compile_order *)
(* with every call of the system that may fail, and Close.  One encoder at *)
(* a time; a caller whose NewEncoder failed, or who closed, may start over. *)
(***************************************************************************)
EXTENDS JitProgram, NativeABI

CONSTANTS
  Modes,    \* values of Options.Mode tried, in and out of range
  Backends, \* values of Options.Backend tried, in and out of range
  PageSizes \* results of sysconf(_SC_PAGESIZE) tried

ASSUME OptionsAssumption ==
  /\ Modes \subseteq Nat
  /\ Backends \subseteq Nat
  /\ PageSizes \subseteq Int

VARIABLES
  pc,      \* "none", "calloc", "cpu", "order", "map", "emit",
           \* "protect", "open"
  mode,    \* the arguments of NewEncoder
  backend,
  avx2,    \* the processor has AVX2
  heap,    \* the C encoder is allocated
  encoder, \* the fields of the C encoder
  mapping, \* the mapping of the code: its protection, size and bytes
  emitter, \* the emitter: pieces handled and status
  err      \* what the last NewEncoder returned

lifeVars == <<pc, mode, backend, avx2, heap, encoder, mapping, emitter, err>>

NoMapping == [prot |-> "none", size |-> 0, bytes |-> <<>>]
NoEmitter == [pieces |-> 0, status |-> "OK"]

(* A calloc'ed encoder.                                                    *)
ZeroEncoder ==
  [write_string |-> "null", order_fn |-> "null", code |-> "null",
   code_size |-> 0, mapping_size |-> 0]

LifeInit ==
  /\ pc = "none"
  /\ mode = ModeAuto
  /\ backend = BackendJIT
  /\ avx2 \in BOOLEAN
  /\ heap = FALSE
  /\ encoder = ZeroEncoder
  /\ mapping = NoMapping
  /\ emitter = NoEmitter
  /\ err = "none"

Goto(label) == pc' = label

Fails(error) == err' = error /\ Goto("none")

-----------------------------------------------------------------------------
(* jitjson_encoder_create.                                                 *)

(* Options are checked in Go, so that C never sees values it refuses.      *)
Create ==
  /\ pc = "none"
  /\ mode' \in Modes
  /\ backend' \in Backends
  /\ IF mode' > ModeAVX2 \/ backend' > BackendStatic THEN Fails("ErrInvalidMode")
     ELSE Goto("calloc") /\ err' = "none"
  /\ UNCHANGED <<avx2, heap, encoder, mapping, emitter>>

Calloc ==
  /\ pc = "calloc"
  /\ heap' = TRUE
  /\ encoder' = ZeroEncoder
  /\ Goto("cpu")
  /\ UNCHANGED <<mode, backend, avx2, mapping, emitter, err>>

CallocFails ==
  /\ pc = "calloc"
  /\ Fails(MapNativeError("JIT_ALLOC"))
  /\ UNCHANGED <<mode, backend, avx2, heap, encoder, mapping, emitter>>

(* Mutant: a forced mode is not checked.                                   *)
SelectWriterUnchecked ==
  /\ pc = "cpu"
  /\ encoder' = [encoder EXCEPT !.write_string =
                   IF mode = MODE_AVX2 \/ (mode = MODE_AUTO /\ avx2)
                   THEN "avx2" ELSE "scalar"]
  /\ Goto("order")
  /\ UNCHANGED <<mode, backend, avx2, heap, mapping, emitter, err>>

SelectWriter ==
  /\ pc = "cpu"
  /\ mode = MODE_AVX2 => avx2
  /\ encoder' = [encoder EXCEPT !.write_string =
                   IF mode = MODE_AVX2 \/ (mode = MODE_AUTO /\ avx2)
                   THEN "avx2" ELSE "scalar"]
  /\ Goto("order")
  /\ UNCHANGED <<mode, backend, avx2, heap, mapping, emitter, err>>

UnsupportedCPU ==
  /\ pc = "cpu"
  /\ mode = MODE_AVX2 /\ ~avx2
  /\ heap' = FALSE
  /\ Fails(MapNativeError("UNSUPPORTED_CPU"))
  /\ UNCHANGED <<mode, backend, avx2, encoder, mapping, emitter>>

SelectStatic ==
  /\ pc = "order"
  /\ backend = BACKEND_STATIC
  /\ encoder' = [encoder EXCEPT !.order_fn = "static"]
  /\ Goto("open")
  /\ UNCHANGED <<mode, backend, avx2, heap, mapping, emitter, err>>

SelectJit ==
  /\ pc = "order"
  /\ backend = BACKEND_JIT
  /\ Goto("map")
  /\ UNCHANGED <<mode, backend, avx2, heap, encoder, mapping, emitter, err>>

-----------------------------------------------------------------------------
(* jitjson_compile_order.  Where it fails, create frees the encoder.       *)

CompileFails(status) ==
  /\ heap' = FALSE
  /\ Fails(MapNativeError(status))
  /\ UNCHANGED <<mode, backend, avx2, encoder>>

(* sysconf and mmap.                                                       *)
Map ==
  /\ pc = "map"
  /\ \E size \in PageSizes :
       /\ size > 0
       /\ mapping' = [prot |-> "rw", size |-> size, bytes |-> <<>>]
  /\ emitter' = NoEmitter
  /\ Goto("emit")
  /\ UNCHANGED <<mode, backend, avx2, heap, encoder, err>>

MapFails ==
  /\ pc = "map"
  /\ CompileFails("JIT_ALLOC")
  /\ UNCHANGED <<mapping, emitter>>

(* emit_bytes: nothing more is written after a piece that did not fit.     *)
Emit ==
  LET piece == Pieces[emitter.pieces + 1]
      fits  == Len(piece) <= mapping.size - Len(mapping.bytes)
  IN  /\ pc = "emit"
      /\ emitter.pieces < Len(Pieces)
      /\ emitter' = [pieces |-> emitter.pieces + 1,
                     status |-> IF emitter.status = "OK" /\ fits THEN "OK"
                                ELSE "INTERNAL"]
      /\ mapping' = IF emitter'.status = "OK"
                    THEN [mapping EXCEPT !.bytes = @ \o piece] ELSE mapping
      /\ UNCHANGED <<pc, mode, backend, avx2, heap, encoder, err>>

(* Mutant: the emitter's status is not looked at.                          *)
EmittedUnchecked ==
  /\ pc = "emit"
  /\ emitter.pieces = Len(Pieces)
  /\ Goto("protect")
  /\ UNCHANGED <<mode, backend, avx2, heap, encoder, mapping, emitter, err>>

Emitted ==
  /\ pc = "emit"
  /\ emitter.pieces = Len(Pieces)
  /\ emitter.status = "OK"
  /\ Goto("protect")
  /\ UNCHANGED <<mode, backend, avx2, heap, encoder, mapping, emitter, err>>

EmitFails ==
  /\ pc = "emit"
  /\ emitter.pieces = Len(Pieces)
  /\ emitter.status # "OK"
  /\ mapping' = NoMapping
  /\ CompileFails(emitter.status)
  /\ UNCHANGED emitter

(* mprotect, and the fields that publish the code.                         *)
Protect ==
  /\ pc = "protect"
  /\ mapping' = [mapping EXCEPT !.prot = "rx"]
  /\ encoder' = [encoder EXCEPT !.code = "mapping", !.order_fn = "jit",
                                !.code_size = Len(mapping.bytes),
                                !.mapping_size = mapping.size]
  /\ Goto("open")
  /\ UNCHANGED <<mode, backend, avx2, heap, emitter, err>>

(* Mutant: the mapping is left behind.                                     *)
ProtectFailsMapped ==
  /\ pc = "protect"
  /\ CompileFails("JIT_PROTECT")
  /\ UNCHANGED <<mapping, emitter>>

ProtectFails ==
  /\ pc = "protect"
  /\ mapping' = NoMapping
  /\ CompileFails("JIT_PROTECT")
  /\ UNCHANGED emitter

-----------------------------------------------------------------------------
(* Close: jitjson_release_code, when there is code, and free.              *)
Close ==
  /\ pc = "open"
  /\ mapping' = IF encoder.code # "null" /\ encoder.mapping_size # 0
                THEN NoMapping ELSE mapping
  /\ heap' = FALSE
  /\ encoder' = ZeroEncoder
  /\ Goto("none")
  /\ UNCHANGED <<mode, backend, avx2, emitter, err>>

LifeNext ==
  \/ Create \/ Calloc \/ CallocFails
  \/ SelectWriter \/ UnsupportedCPU \/ SelectStatic \/ SelectJit
  \/ Map \/ MapFails \/ Emit \/ Emitted \/ EmitFails \/ Protect \/ ProtectFails
  \/ Close

LifeSpec == LifeInit /\ [][LifeNext]_lifeVars

-----------------------------------------------------------------------------
(* Properties.                                                             *)

(* A NewEncoder that returned an error, and a Close, leave nothing behind: *)
(* no C encoder, no mapping (bridge_linux_amd64.c:26-43, 113-119,          *)
(* jit_linux_amd64.c:110-118, 130-138).                                    *)
NothingLeaks == pc = "none" => ~heap /\ mapping = NoMapping

(* The encoder that NewEncoder hands out runs the whole of the code, from  *)
(* a mapping nobody can write to any more, or the static function and has  *)
(* no code at all; CodeSize reports 195 or 0                               *)
(* (jit_linux_amd64.c:102-127, encoder.go:101-111).                        *)
RunsFinishedCode ==
  pc = "open" =>
    IF backend = BackendStatic
    THEN encoder.order_fn = "static" /\ encoder.code_size = 0 /\ mapping = NoMapping
    ELSE /\ encoder.order_fn = "jit"
         /\ mapping.prot = "rx"
         /\ mapping.bytes = Code
         /\ encoder.code_size = 195

(* The AVX2 writer is used only by a processor that has AVX2; a mode that  *)
(* the caller forces is honoured or refused, never replaced; and a caller  *)
(* is told that the processor is the reason only when it is                *)
(* (bridge_linux_amd64.c:26-34, encoder.go:31-40, 131-143).                *)
ModeHonoured ==
  /\ pc = "open" =>
       /\ encoder.write_string = "avx2" => avx2
       /\ mode # ModeAuto =>
            encoder.write_string = (IF mode = ModeScalar THEN "scalar" ELSE "avx2")
  /\ pc = "none" /\ err = "ErrUnsupportedCPU" => mode = ModeAVX2 /\ ~avx2
=============================================================================
