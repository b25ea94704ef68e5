# Verification of the JIT/SIMD JSON encoder

`jitjson` encodes batches of orders as JSON. Go code packs a batch into flat rows
and computes the exact size of its text; C code, reached through cgo, writes the
text, either with a static function or with x86-64 code generated when the encoder
is created, scanning strings with AVX2 or byte by byte. A second encoder in Go is
the reference. This directory models all of that in TLA+, checks it with TLC on
small instances and proves the central safety properties with TLAPS for all.

## The system

| Part | State it keeps | Operations | Modules |
|---|---|---|---|
| Encoder API (`encoder.go`) | RWMutex, `native` pointer, `closed`, pool of workspaces | `NewEncoder`, `Marshal`, `MarshalPacked`, `CodeSize`, `Close`, by any number of goroutines | `EncoderCalls`, `EncoderContract`, `RWMutex`, `Encoder`, `EncoderProperties`, `EncoderProofs`, `EncoderCloseHistory` |
| Packing (`packed.go`) | `PackedBatch`: rows, items, string arena, flags, exact size | `Pack`, `packIntoReusable`, `reset` | `PackBatch`, `Int64Text`, `Int64Writer`, `Int64WriterProofs`, `Pipeline`, `RowsProofs`, `TextProofs` |
| Reference encoder (`reference.go`, `format.go`, the estimate in `packed.go`) | none | `MarshalReference`, `estimateMaxOutput` | `OrderSchema`, `ReferenceEncoder`, `TextProofs` |
| Native bridge and writer (`bridge_linux_amd64.c`, `writer_linux_amd64.c`, `native_linux_amd64.go`) | a writer: buffer, length, first error | `jitjson_encoder_encode`, the `jitjson_op_*` operations, the static function | `OrderWriter`, `NativeEncode`, `NativeRows`, `RowsProofs`, `TextProofs`, `Int64Writer`, `Pipeline` |
| String scan and SIMD (`simd_linux_amd64.c`, `write_escaped`) | position in the string, index in the scan | scalar scan, AVX2 scan, escape, plain copy | `StringWriter`, `StringWriterProperties`, `StringWriterProofs` |
| JIT (`jit_linux_amd64.c`) | a mapping and the emitter | `jitjson_compile_order`, the emitted code, `jitjson_release_code` | `JitProgram`, `JitMachine`, `JitProofs`, `OrderCalls`, `NativeEncoder` |
| Native encoder's life (`bridge_linux_amd64.c`, `jit_linux_amd64.c`) | heap block, mapping, selected functions | `jitjson_encoder_create`, `jitjson_encoder_destroy` | `NativeABI`, `NativeEncoder`, `JitProofs` |
| Layout shared by Go and C (`types.go`, `jitjson.h`) | rows as bytes | stores of `packOrder`, loads of C, `ValidateGoLayout` | `RowLayout`, `RowLayoutProofs` |

How they interact. `Marshal` takes a workspace from the pool, packs into it without
a lock, then calls `MarshalPacked`, which holds the read lock from the closed check
to the end of the cgo call. `Close` takes the write lock, destroys the C encoder and
marks the Go encoder closed. The native encoder gets the rows, the items, the string
arena and an uncleared buffer of exactly the size that packing computed; it calls
`order_fn` once per order, which calls the operations of the writer, which read the
view and append to the buffer. The Go side compares the length written with the
length allocated and returns the buffer.

What is hard here: Close against calls under way; workspaces and rows reused from
earlier calls, complete or failed; sizes that must be exact to the byte; five
descriptions of the same field order and two of the same literals; 32-bit offsets;
a writer that goes on calling operations after an error; a vector scan that must
agree with a scalar one at every boundary; machine code that must obey the calling
convention; creation that may fail in five places; rows, modes and statuses declared once in Go and
once in C. `PROJECT.json` lists each of
these hazards at its line.

## Modules

### Encoder API

`EncoderCalls` holds the calls and what each answers. `EncoderContract` is the
abstract specification: a call is invoked, takes effect at one instant, returns;
Close closes for good; a successful call answers the orders of its own batch.
`RWMutex` models `sync.RWMutex` as it is documented: a writer in `Lock` holds back
later readers, waits for those inside, and `Unlock` lets the waiting readers in.

`Encoder` is `encoder.go`. A step of a goroutine is a stretch of code with at most
one access to shared state; packing and native encoding go order by order so that
others come in between. `rows[s]` is the backing array of a workspace, with what
earlier calls left there; `Reset` makes or reslices it, `PackOrder` writes one row,
`EncodeOrder` reads one row into an output that starts as `Garbage` (the buffer of
`dirtmake.Bytes` is not cleared). `pool` is `sync.Pool`: `Get` may return any pooled
workspace or make a new one, `Collect` is the garbage collector. `Release` is the
deferred `releasePacked`; the array of a workspace that it drops, or that is collected,
is gone. `CheckClosed`, `CheckOpen`, `ReadSize`, `EncodeDone` and
`ReleaseRead` are `MarshalPacked` and `CodeSize` under the read lock; `AcquireWrite`,
`CloseAgain`, `Destroy`, `MarkClosed` and `ReleaseWrite` are `Close`.
`EncoderProperties` states what is checked and the refinement mapping; a call takes
effect where its answer is decided (a failed validation, the nil check, the closed
check under the read lock, the end of Close's critical section).
`EncoderCloseHistory` adds a history variable for one question about `Close`.

### Packing, reference and native encoding

`OrderSchema` transcribes, as tables of steps, the field order of packing, of the
estimate, of the reference encoder, of the static C function and of each JIT
operation, and the literals of Go and of C separately, so that drift between any two
of them is a counterexample. A string is a sequence of byte classes: ordinary bytes,
one byte with a two-byte escape, one with a six-byte escape, one that makes the
string invalid UTF-8. A text is a sequence of characters, each a TLA+ string of length
one; `Chars` takes a literal of the code apart. What the proofs have to know of the
literals is in three assumptions that TLC evaluates: their characters are in the
alphabet, the lengths that the Go code writes down as numbers are theirs, and three
pairs of Go literals joined are the literals of C.

`PackBatch` packs one order over these tables: limits, references, items, flags, the
size accumulator and the errors, in the order the code tests them, each loop a
recursive function of its turns, and the
capacities of the arrays, which `append` doubles or makes as large as needed
(`Grown`; the allocator's rounding is left out, and nothing checked depends on it).
`Int64Text` says what both treatments of integers compute, the counting loop of Go
and the digit loop of C, over two's complement numbers from `-Half` to `Half - 1`.
`Int64Writer` runs the two loops turn by turn, with the digit buffer on the C stack
and the test for room. `ReferenceEncoder` is `MarshalReference` with its estimate.
`OrderWriter` is the C writer and the operations, each loop a recursive function of
its turns (`EscapeTurn`, `NextItem`, `RowStep`); `NativeEncode` one call of
`jitjson_encoder_encode`, in which the machine code calls one operation per step,
without looking at the status in between, and the static function runs in one step.
`Pipeline` composes packing and native encoding for successive `Marshal` and `Pack`
calls that share one pooled workspace: `Get` and `Release` are the two sides of the
pool, `Release` with the rule of 64 MiB over the capacities of rows, items and
strings (`MaxRetained`), and `MarshalAgain` encodes the result of one `Pack` again.
`NativeRows` calls the native encoder with rows that packing did not make: any that the
C declarations admit (`RowsAssumption`).

### Layout

`RowLayout` takes the two declarations of each row, lays them out by the rule both
compilers follow, and treats rows as bytes: the assignments of `packOrder` in their
order, the branches not taken, packing given up at any string or limit, the array
used again uncleared. It justifies that the other modules take a row for one record
seen by both sides. `ValidateGoLayout` guards the start as in the code; the static
assertions of the header are an assumption that TLC evaluates. Both compare sizes
and the offsets of the fields that are not strings: two references that change
places on one side pass every check (the mutant of the run does just that), and only
the comparison of whole declarations, or of output texts, tells.

### Strings

`StringWriter` writes one string, byte values 0 to 255, in steps that are turns of
the loops in the code: a block of the vector scan, a byte of the scalar scan, a run
copied, a byte escaped. The block size (32) and the threshold (64) are parameters.
The byte classes used above are justified here, where every byte value is checked.

### JIT

`JitProgram` holds the bytes that `jitjson_compile_order` emits, transcribed from
the source. `JitMachine` decodes and executes them the way the processor does (REX
prefixes, opcodes, ModRM) under the loop that calls the code; an operation may leave
anything in the registers that the ABI does not preserve and may set the status. An
instruction that cannot be decoded, or a return to a wrong place, is a deadlock, and
the run checks that there is none.

`OrderCalls` is the loop of the bridge and the code it calls, as control alone: an
order is begun while the status is OK, a comma that may fail comes first, all
operations are called in order whatever they set, and the loop goes on. Two modules
implement it: `JitMachine`, where `done` is the operations whose calls the processor
has executed, and `NativeEncode` under `NativeRows`, where it is read off `index` and
`op` (the static function, which is no machine code, maps to an idle loop). So the
composition is sound: what `NativeEncode` takes one step of the machine code for is
what the bytes were shown to do.

`NativeABI` has the numbers of modes and back ends that Go and C declare apart, the
statuses, and the errors made of them. `NativeEncoder` is creation and destruction with
each call of the system that may fail, the emitter piece by piece, and page sizes
too small for the code.

## Runs

| Run | Question | Bounds |
|---|---|---|
| `EncoderRefine` | Types, exclusive workspaces, own answers, and the contract with its liveness | 2 goroutines, 2 workspaces, batches `<<a,a>>`, `<<b>>`, `<<b,bad>>`, `<<a,b,a>>` and a packed `<<b,a>>`, nil and unfilled; a workspace of more than two rows is not retained, which drops the array of the longest batch and keeps the others. A reused array is longer than, as long as or shorter than the batch and holds other orders or the rows that a failed pack left |
| `EncoderLive` | No use after close, one destruction, every call returns | 3 goroutines in MarshalPacked, CodeSize and Close: two readers can alternate against a writer, a writer can queue behind a writer and a reader behind both |
| `EncoderCloseWaits` (violation) | Has every Marshal that a Close met returned when the Close returns? | 2 goroutines |
| `Pipeline` | Rows that are the batch, exact preallocation, bounded pool, text equal to the reference text | all batches of up to two of four orders that differ in every conditional field, nil and empty, by both entries, both back ends, in any succession through one workspace; a pool of 256 bytes, which the workspaces of some batches exceed and of others do not |
| `PipelineLimits` | Refusal exactly at the limits, exact estimate, prefixes only, packed rows never found at fault | 3 items or string bytes at most, texts of at most 384 bytes, which is the text of two of the orders; 6 other capacities; without validation in Marshal |
| `NativeRows` | Malformed rows refused and no others, back ends alike, `OrderCalls` implemented (safety) | references and ranges off by one at each end, null flags with counts, alone and after a good row; 5 capacities |
| `NativeFirstError` (violation) | Is the first error of the writer final? | the same |
| `Int64Writer` | Digits fit the buffer, counted as written, the digits the decimal ones, nothing written without room | every integer of 12 bits, a buffer of 5 bytes, as tight for `-2048` as 20 bytes are for `-2^63`; room of one byte less, as much and more than counted |
| `StringWriter` | Runs safe, output inside the buffer, reference text, termination | blocks of 2, threshold 4, all strings of up to 5 bytes of 3 kinds, a quote at each place of 7 bytes, every byte value, capacities 0 to 12 and 100 |
| `JitMachine` | ABI kept, clean return, never stuck, implements `OrderCalls` | the 195 bytes, 2 orders, any status after any operation and after the comma between them |
| `RowLayout` | C reads what Go assigned, field by field | 2 rows, so that the stride counts, used twice, so that bytes of the first use are there; the deadlock check is off because the caller stops after its calls |
| `NativeEncoder` | No leak, only finished code, mode honoured | all modes and back ends and one beyond, 5 page sizes (one byte short of the code and exact among them), each failure |

Why the bounds are enough. The encoder's goroutines are alike, so the interesting
races need two of them, and one more to keep a lock busy; the proofs remove the
bound for the safety properties. Packing has no state across orders except the
workspace, the arena, the plain flag and the accumulator, and two orders in two
successive calls exercise each of them in every combination of nil, empty, escaped
and refused. The limits are scaled down with the data, as they only ever meet in
comparisons. A string of seven bytes with blocks of two has all positions of a
special byte relative to a block and to the tail; the proofs remove this bound too.

Every property is known to be falsifiable: `PROJECT.json` pairs it with a plausible
bug, written in the module beside the definition it would change (marked *Mutant*),
under which the run finds a violation.

Two runs show where the code and the design document part:

- `EncoderCloseWaits`. The document says that Close waits for the Marshal calls being
  executed. `Marshal` packs before it takes the read lock, and a Close does not wait for
  it: the run ends with a Close that has returned before a Marshal called earlier, which
  the closed check is then going to refuse. It is harmless for memory (`EncoderLive`,
  `NeverUsedAfterClose`) and within the contract, but it is not what is written.
- `NativeFirstError`. The document says that after an error writer operations stop
  at once. `jitjson_writer_items` sets `INVALID_ARGUMENT` without testing the status,
  so a batch that ran out of space may report an invalid argument. Nothing more is
  written (`WritesPrefix`); only the status differs.

Also seen while reading: `native_unsupported.go` declares an `Encode` with five
parameters where `encoder.go:90` passes six, so that other platforms do not build.

## Fairness

`Encoder`: weak fairness of each goroutine's steps once it has made a call (the Go
scheduler runs every runnable goroutine again); strong fairness of `AcquireWrite`,
since the mutex that writers queue on hands over to a waiter that it has starved for
a millisecond. Nothing is assumed of readers behind a writer: that they go on
follows from `Unlock`. No goroutine is obliged to make a call.
`StringWriter`: weak fairness of its sequential steps, which are loops of C code.
`JitMachine`: weak fairness of its steps; a processor goes on, and every operation it
calls returns, since an operation is a fixed sequence of literals, integers and
strings and loops over the items of one order only (`Terminates` of `StringWriter`
covers the strings). No other run needs fairness.

## Proofs

All proofs are by an inductive invariant, for all values of the constants that
satisfy the named assumptions of the modules.

`EncoderProofs` builds the invariant in layers, each proved inductive on top of
those before: `ControlInv` (types of control; which labels belong to which call, and
when a workspace is held), `LockInv` (who is in the read section is a reader or
waits; who is in Close's section is the writer; what `sync.RWMutex` excludes),
`ObjectInv` (the C encoder is freed only inside or after a Close's section, and then
the flag is set before the lock is dropped), `WorkspaceInv` (workspaces are held by
one goroutine and not pooled meanwhile), `DataInv` (the rows written so far by a
goroutine are its orders, its output so far is a copy of them, its answer is its
batch). The layers are needed because no property is inductive by itself: that
nothing is used after Close depends on the readers being in the lock, that answers
are one's own on nobody else writing to the workspace. From them:

| Theorem | Says |
|---|---|
| `NeverUsedAfterClose` | `Safe => []NoUseAfterClose` |
| `DestroyedAtMostOnce` | `Safe => []DestroyedOnce` |
| `WorkspaceExclusive` | `Safe => []ScratchExclusive` |
| `AnswersAreOwn` | `Safe => []AnswersOwnBatch` |
| `TypesHold` | `Safe => []TypeOK` |

It ends with `ImplementsSafely`, `Safe => Contract!Safe`, by the same
invariant: the safety part of `ImplementsContract`, which the run `EncoderRefine`
checks with its liveness. There is a lemma for each way in which a goroutine moves
in the contract: it begins a call, it returns, its call takes effect (a failure, the
open check, the end of `Close`), or nothing changes. The hard case is `EncodeDone`:
the answer fixed when the closed check passed is the one computed later, which needs
`DataInv` for the text and `BatchData` for the orders Pack accepted.

`RecursionLemmas` is what the proofs about loops rest on. Induction on the natural
numbers is proved for a set in place of a predicate (`Induction`), from the least
element that the well-foundedness of `<` gives, and with it that a recursive function
is what its equation says: a solution exists, and any two agree (`RecursionUnique`,
`RecursionExists`). `FlattenIs` and `FlattenAppend` say the same of `FlattenSeq`;
the rest is about sums, about sequences that grow and about decimal digits, where the
induction goes from a tenth of a number to the number (`InductionByTens`): the digits
written backwards and those written forwards are each other's reverse, one more than the
divisions by ten that are counted (`DigitTexts`).

`StringWriterProofs` proves, for every set of strings, capacity, block size and
threshold, `TypesHold`, `RunsSafe`, `WritesStayInside` and `StringsAsReference`. The
invariant adds to the types and to `RunsAreSafe` that the bytes scanned so far need no
escape (`ScanInv`); lemma `ClassesAgree` shows that the vector comparison, the scalar
comparison and Go's switch single out the same 34 bytes, and `LowestExists` that the
lowest lane of a non-empty mask exists. For `StringsAsReference` (`WritesReference`)
`TextInv` adds that the output is the reference text of the bytes passed, and that a
refused write had less room than the text takes; that what packing counted
(`AnalyzedSize`) is the length of that text is proved by induction over the string.

`Int64WriterProofs` proves `DigitsFit`, `Spec => []BufferHolds`, `DigitsAsCounted`,
`Spec => []DecimalBytes`, and `IntegersWritten`, `Spec => []WrittenAsCounted`, for every
`Half` and `BufferSize`. The only fact assumed of the
two is `BufferAssumption`: `Half` divided by ten `BufferSize - 2` times is less than ten.
For the code it reads: 2^63 divided by ten 18 times is 9, with 20 bytes. For the first,
the invariant says that after `k` digits the rest of the magnitude is at most
`Quotient[k]`, so that the last digit comes at the latest as the last byte but one, which
leaves one for the sign; lemma `MagnitudeAbsolute` shows that the wrapping negation gives
the absolute value of the least integer too. For the second, the digits so far are the
last digits of the absolute value by place value (`LastDigits`, over `Power[k]`, the
powers of ten), and both loops, that of Go and that of C, stop at the same digit, the
first that leaves a quotient of zero. For the third (`TextInv`), what is counted and what
is still to be counted, what the buffer holds and what is still to be put in front of it,
and what is copied and what is still in the buffer are, at every turn, the length and the
digits of the whole number; that these are the digits of `strconv.AppendInt` is
`DigitTexts`.

`JitProofs` is about the machine code. It begins with `WholeCode`: the code has 195 bytes,
and where each of them is, for any eight addresses. It then executes them by proof, for any
number of orders: the invariant says, for every offset at which an instruction begins, what
the registers, the stack and the calls made so far are, and each case of the step decodes
the bytes at that offset. It gives `OperationsGetTheirArguments` (`CallsKeepABI`),
`CodeReturnsClean` (`ReturnsClean`) and `CodeCallsOperations`, `Spec => Calls!Safe`, the
safety part of `ImplementsCalls`.

Its second part is about the encoder that gets the code: `FailuresLeakNothing`
(`LifeSpec => []NothingLeaks`), `ForcedModes` (`ModeHonoured`) and `FinishedCode`
(`RunsFinishedCode`) for all modes, back ends and page sizes. The invariant `LifeInv` has
three parts: `LifeShapes` (labels and fields), `Owned` (which labels
own the C encoder and the mapping; an open encoder with a mapping has the code pointer and
the size by which `Close` will release it) and `Choice` (from the selection of the writer
on, it agrees with the mode and the processor; the emitter's status is never the one that
blames the processor). `FinishedCode` adds `Written` (as long as the emitter has not
failed, the bytes in the page are the pieces emitted so far, and the whole code when the
page is about to be protected) and `Assembled` (no code has a size before). Together with
the first part: what an open encoder with the machine code runs are the bytes that were
shown to call every operation.

`RowsProofs` is about rows: those that nobody checked before, given to the native encoder
(`NativeSpec`), and those that packing makes (`Spec` of `Pipeline`), for any number of
orders, items and bytes, any limits and capacities and any number of calls:

| Theorem | Says |
|---|---|
| `OnlyWellFormed` | `NativeSpec => []AcceptsOnlyWellFormed` |
| `OnlyIllFormedBlamed` | `NativeSpec => []BlamesOnlyIllFormed` |
| `BothBackendsAgree` | `NativeSpec => []BackendsAgree` |
| `EncodesByCalls` | `NativeSpec => ImplementsCalls` |
| `PacksTheBatch` | `Spec => []PackedWell` |
| `AllocatesOnce` | `Spec => []PreallocatesExactly` |
| `PoolStaysBounded` | `Spec => []PoolBounded` |
| `PackedIsWellFormed` | what is packed is a view of the C declarations and `WellFormed` |
| `PackedNeverBlamed` | `Spec => []NeverInvalid` |
| `MarshalSameByBoth` | `Spec => []BackendsAgree` |

The first rests on what every operation of the writer does to its status, `Follows`: it
may become an error and never becomes OK again, so a status that is OK in the end was OK
after every string and range on the way, each of which was then inside (`LoopInv`: the
orders written, and the operations of the present one, were inside, or the writer has
failed). The second is its converse: an operation of which every string and range is
inside does not set `INVALID_ARGUMENT` (`Blameless`). For the third, the eight tables of
the operations are the static table cut at the steps `Starts` (`OperationIsPart`), the
steps of a table are joined and unique (`RowStepsJoin`, `RowStepsSame`), and the invariant
`LoopAgrees` says that the writer is the one that the static function would have after as
many steps, or orders. The fourth maps each step to a step of `OrderCalls`. With
`CodeCallsOperations` the two levels meet: the bytes of the machine code implement
`OrderCalls`, and so does the encoding of a batch.

Packing appends, so that a reference made early must still be right at the end. While an
order is packed, arrays only grow and what they hold stays (`Later`); a field is done when
its reference has the bytes of its string (`StringDone`), the items are done when the range
of the row is those appended (`ItemsDone`), and each step of the table does its own field
and keeps the others (`StepDone`, `AllKept`). The row is then held (`RowHeld`), whatever it
held for an earlier order, and stays held as the arrays grow (`HeldLater`). The invariant
`PackInv` of the calls has the types, the fact that the rows packed so far are held by what
is in use (`BatchIsHeld`), and that C was called before its status is read; from `RowHeld`
the orders are read back. `AllocatesOnce` needs more: that the totals of the first walk,
recursive functions over the batch, are sums over the orders (`Sums`), that the bytes which
the steps of an order append are those that the walk counts (`StringBytesPacked`), and that
an array with room is not moved. `EncodeInv` puts the two halves together: the native encoder
is inside `Pipeline` with the view of a packed workspace, which nobody changes meanwhile,
so what was proved about any rows holds of those: they are well formed, hence C finds no
fault with them and the only error is a buffer too small, and the back ends agree.

`TextProofs` is about what is in the buffer, for any batches, limits, capacities and
histories of the workspace:

| Theorem | Says |
|---|---|
| `EncodesTheReference` | `Spec => []EncodesReference` |
| `WritesOnlyAPrefix` | `Spec => []WritesPrefix` |
| `EstimatesExactly` | `Spec => []EstimateExact` |
| `RefusesForAReason` | `Spec => []RefusesExactly` |

Three tables describe an order, that of packing, that of the reference encoder and that of
C, and the walks over them count, concatenate or write. Each walk is shown to count or to
write one text for each step of its table: the bytes counted for a string (`EncodedSize`)
are those of its escaped form by induction over the string, the steps of an item and of an
order follow the table, items and orders go by induction again. The tables differ in three
places, where a literal of C is two literals of Go, and concatenate to the same text
(`TextsMatch`). The writer of C, given an order held by the rows (`RowHeld`) and strings
that are plain if the flag says so (`Clean`), either appends the text of the order or stops
with a prefix of it, and appends nothing more once it has stopped (`Writes`).

The invariant is `PackInv /\ EncodeInv /\ TextInv`. `TextInv` says of packing under way
that the size so far is the length of the frame and of the orders so far, that the strings
and items are those counted and that no order so far was invalid (`Progress`); of a
workspace ready to be encoded that `maxOutput` is the length of the whole text
(`Complete`); and of a refusal that the batch has a reason for it (`RefusedFor`).
`EncodesReference` is a conjunct of it and not inductive alone: that the text is whole needs
the size to be exact, and that it is the text of this batch needs the rows to be held. The
size is tested at every addition; since the sizes on the way are never larger than the text
(`SizeIsBelow`), a test that fails means that the whole text is too long. For
`RefusesForAReason`, what the walks over the tables check string by string is shown to be
the validity of all strings of the batch (`Says`), and the answers of `MarshalReference`
follow from the same size and validity (`ReferenceAnswers`).

`RowLayoutProofs` proves `FieldsReadAsWritten`, `Spec => []ReadsWhatWasWritten`, for any
number of rows and uses. Most of it holds for any declaration whose fields have names of
their own: the offsets are a solution of their recursive equation (`OffsetsLay`), the fields
lie one behind the other and inside the row (`OffsetsOrdered`, `SizeIs`), so that a store is
loaded again and changes no other field (`LoadsStored`, `LoadsElsewhere`). The invariant
`LayoutInv` is that every field of every row, and of the item, holds what was assigned to it
last. What remains is about the source: each declaration names a field once, every assignment is
to a field of the row (`AssignmentsNamed`), and the two sides declare the same fields in the
same order (`SameDeclarations`), which is where two exchanged references would show.

Only model-checked: liveness, that of the contract included (fairness): `CallsReturn`,
`Terminates` and the parts of `ImplementsContract` and `ImplementsCalls` that fairness adds.
Every invariant that a passing run checks has a theorem.

## Not modelled

- The nil `*Encoder` receiver, which returns before it touches any state.
- Real memory: pointers are references to data, freeing is a flag. In `Encoder` the
  64 MiB rule of the pool is a bound on rows; `Pipeline` has it in full.
- Several processors with relaxed memory: all shared accesses are under the lock or
  inside `sync.Pool`, which order them.
- A caller that changes a batch or a `PackedBatch` while it is being used.
- `native_unsupported.go`: the package does not build with it (above), so that there
  is no behaviour to model.
- The demo, tests and benchmarks, which drive the library one call after the other.
- `OrderCount`, `ItemCount`, `StringBytes`, `SupportsAVX2` and
  `jitjson_status_message`: they read one value or format a message.

## Plan

Done: everything above. What the code asks for and proofs with these provers cannot give
is liveness under fairness; it stays with TLC.

A composition of `NativeEncoder` with `JitMachine` would add nothing: `RunsFinishedCode`
says that the bytes published are `Code`, the bytes that `JitMachine` executes, and
`NoUseAfterClose` that nobody executes them once they are unmapped.
