# A verification of zinc-simulator in TLA+

zinc-simulator executes RV64IM programs with the single-precision
floating-point, Zicsr and machine-mode extensions. It loads an ELF file, runs
it one instruction at a time on one hart, prints a JSON *commit* per retired
instruction, and stops when the program writes a nonzero value to `tohost`.
The commits are meant to be compared with those of another implementation, so
two things matter: that the architectural state is right, and that the log
tells the whole truth about it.

These modules model that program from its source: the loading of the file, the
decoder, the state of the hart, the semantics of each instruction with the
integer and floating-point units, the way `step` applies an instruction's
effects, and the main loop. TLC checks them on small instances, and TLAPS proves
the main results in general: for all instruction sets, images, files and boot
contents, for every instruction word, for every width of the integer registers,
and for every floating-point format.

## 1. The system

| Component | Source | State | Operations | Interaction |
| --- | --- | --- | --- | --- |
| Core | `cpu.cpp`, `cpu.h` | pc, privilege, 32 x registers, 32 f registers, 4096 CSRs | `get_csr`, `set_csr`, `has_csr`, `take_exception`, getters and setters | read by `execute`, written only by `step` |
| Executor | `execute.cpp`, `execute.h` | none | one `execute` overload per instruction class, `step` | an overload returns a `StepResult`; `step` applies it and returns a `Commit` |
| Memory | `ram.cpp` | a byte array | `get_8` to `get_64`, `set_8` to `set_64`, `load`, `clear` | read by `execute` and the fetch, written by `step` |
| Decoder | `decode.cpp`, `decode.h` | none | `decode` | word in, `DecodedInsn` out, or a C++ exception |
| MulDivUnit | `mul_div.cpp` | none | `execute`, `execute_word` | called by OP and OP-32 |
| Fpu | `fpu.cpp` | none | `binary`, `unary`, `convert`, `fma` | called by OP-FP and the fused operations; returns a value and flags |
| ElfLoader | `elf_loader.cpp` | none | `load` | segments, entry and `tohost` for `main` |
| main | `main.cpp` | the loop | fetch, decode, step, print, test `tohost` | owns Core and Memory |

There is one thread, nothing blocks and nothing is persisted. What makes the
program hard is different:

* **Effects are applied one after the other.** An overload computes with the
  state before the instruction; `step` rewrites the list of effects (x0
  dropped, fcsr split, an mstatus write appended) and applies it write by
  write. Any of them may throw, after earlier ones took effect.
* **Registers overlap.** `fflags` and `frm` are views of `fcsr`; SD summarises
  FS; mstatus is rebuilt by three writers (CSR instructions, trap entry, the
  dirty mark of `step`), and trap entry and `mret` stack a context in it.
* **Masks differ.** What an instruction asks to write, what `set_csr` stores,
  what it returns and what `get_csr` reads are four values.
* **Some state is never initialized**: every CSR except mstatus, and the
  `tohost` of the loaded image.
* **The program executes the memory it stores to**, and `step` reads the
  instruction a second time for the log.
* **The arithmetic is written by hand**: rounding, alignment, normalization and
  sticky bits of binary32, and a 128-bit product from 64-bit halves.
* **A word is told by parts of it.** The decoder casts fields to enumerations
  and scatters immediates; some fields it does not look at.
* **Errors end the process.** C++ exceptions, failed assertions and undefined
  behaviour are reachable from guest programs, and not all of them at places
  where the source expects them.

What makes each component correct: Core keeps every register legal and stacks
contexts faithfully; Executor changes what an instruction names and nothing
else, and leaves next to nothing of an instruction that ends the program;
MulDivUnit and Fpu agree with exact arithmetic, and the flags of Fpu with those of
the standards (all but two cases, which section 5 names); Memory is
one array seen through four widths; the log accounts for every change; the
decoder takes no word for another instruction; the loader leaves in memory what
the program headers say; the loop executes only instructions, and stops on the
signal.
`PROJECT.json` lists the hazards line by line with the properties aimed at each.

## 2. The modules

| Module | Models |
| --- | --- |
| `Words` | 64-bit words as sets of bit positions, with the C++ operators on them |
| `Alu` | the integer switches of `execute.cpp` |
| `MulDiv` | `mul_div.cpp`, on numbers |
| `Fpu` | `fpu.cpp`, on numbers, for a format of any width |
| `Core` | the hart's registers, `get_csr`, `set_csr`, `take_exception`, the constructor |
| `Ram` | the byte array, its accessors and their assertions |
| `Executor` | all `execute` overloads and `step`; the state machine over all instructions |
| `TrapStack` | abstract: a stack of one interrupted context |
| `TraceReplay` | `Executor` with a reader that applies only logged writes |
| `Decoder` | `decode.cpp`: every field extractor, enumeration and format |
| `Loader` | `ElfLoader::load`, `Memory::load` and `clear`, and the part of `main` that uses them |
| `Simulator` | the loop of `main.cpp` around `Decoder` and `Executor`'s step |
| `AluCheck` | `Alu` and `MulDiv` against integer arithmetic |
| `FpuCheck` | `Fpu` against exact arithmetic |
| `ImageCheck` | files for `Loader`, and `Decoder` against an encoder |
| `MCExecutor`, `MCTraceReplay`, `MCSimulator` | instances for TLC |
| `Words_proofs` | lemmas and a theorem about words as numbers |
| `AluCheck_proofs`, `FpuCheck_proofs`, `Executor_proofs`, `Simulator_proofs` | theorems about the modules they are named for |
| `FpuConvert_proofs` | the rest of `FpuCheck`: fused operations, comparisons, reserved rounding modes, and conversions and packing, for which it instantiates `FpuCheck_proofs` with the converted format |
| `Status_proofs` | the status registers, `TrapStack`, steps that end the program, and the log (`TraceReplay`) |
| `ImageCheck_proofs` | `Loader`, and `Decoder` against the encoder of `ImageCheck` |

`Executor` extends `Core`, `Ram` and `Alu`, which extend `Words`;
`TraceReplay` extends `Executor`, `Simulator` extends `Executor` and `Decoder`,
`Loader` extends `Ram`; `Executor` instantiates `TrapStack` under a refinement
mapping. `MulDiv` extends `Alu`; `Fpu` takes only the widths of the integer
registers from `Words`.

**Words.** A word is the set of its one bits, so `a & ~b` is `a \ b`, a mask
is a set, and registers keep their full 64 bits in TLC and in proofs. Addition
is a formula about carries, without recursion, and is modulo 2^64. Where a word
is a number, as in a shift amount or a register number, `LowValue` sums the
powers of two at its bits; `Power` is a recursive function, as are the sums, so
that they can be reasoned about.

**MulDiv, Fpu.** Their values are numbers, and arithmetic on `std::uint64_t` is
arithmetic modulo a power of two. `Fpu` has the widths of the exponent and the
fraction, of the window of the fused product and of the integer registers as
constants; a literal position in the code is written as the distance from them
that it is in binary32, so that a narrow format runs the same algorithm. A loop
that shifts by one until a bit is in place is the search for the highest bit
(`Msb`).

**Executor.** `Execute*` operators correspond one to one to the overloads. Each
yields the set of `StepResult`s its overload may return: one, unless the value
comes from `MulDivUnit` or `Fpu` (constants `MulDivResults`, `FpResults`,
`FpToIntResults`) or from undefined behaviour. What is shown of `Executor` thus
holds whatever the two units compute; what they compute is checked apart.
`Retire`, `TakeTrap` and `Fail` are the three ways `step` uses the result.
`Next` lets any instruction of `Insns` execute wherever the fetch succeeds,
which covers every program, including self-modifying ones. A thrown C++
exception or a failed assertion is `status = "aborted"`, undefined behaviour is
`"undefined"`; both are final. When a CSR refuses a write, `Retire` keeps what
`step` had already applied: the new pc and the destination register.

**Decoder.** `decode` maps a word to the record of `decode.h`. A field value
that no enumerator has is `"invalid"`, as a C++ cast lets it through for the
overload to refuse; floating-point words that no case knows make `decode` throw.

**Loader.** One action per branch of the two loops of `load` and of the loop of
`main`: a section is skipped or ends the scan, a segment is taken or not, loaded,
and its tail cleared. A file is what the ELF library returns for it: sections
with the value their symbols give `tohost`, segments with addresses, sizes and
bytes. Addresses and sizes are 64-bit words and wrap; a copy that leaves the
array is `phase = "undefined"`. `tohost` starts as any member of `Uninitialized`.

**Simulator.** One action per part of the loop body: `Fetch`, `Execution`,
`CheckTohost`. Memory holds real RISC-V encodings, and `Decode` is `Decoder`'s
`decode` on them; `Insns` holds every instruction the programs contain, and any
other word is `InvalidInsn`. Between `Fetch` and `Execution` the state of the
loop is the local variable `insn`. The loop begins where `Loader` ends.

**TrapStack.** Mode, interrupt enable and address, and a stacked copy of the
three. `Trap` pushes, `Return` pops, software may rewrite the stacked copy, the
interrupt enable and the handler. The mapping reads the stacked fields out of
mstatus and mepc; a step of `Executor` is a step of this machine or a stutter.

**Mutations.** Next to some definitions stands a *mutation*: the same operator
with a plausible bug. `PROJECT.json` pairs each property with the mutation that
must break it.

## 3. The runs

| Run | What it asks | Instance | Distinct states |
| --- | --- | --- | --- |
| `priv` | `TypeOK`, `MstatusWellFormed`, `TrapStackSpec` | 14 instructions: CSR writes of mstatus, mepc, mtvec, mhartid, `mret`, `ecall`, `ebreak`, a jump; zeroed and dirty boot registers | 296,409 |
| `fp` | `MstatusWellFormed`, `FpChangesAreDirty`, `AccruedFlagsStick`, `FcsrUpperBitsFrozen` | 19 instructions: every class of floating-point operation, static, dynamic and reserved rounding modes, writes of fcsr, its halves and mstatus | 94,560 |
| `replay_mem` | `ReplayedRegisters`, `ReplayedMemory`, `ReplayedReads`, `FailuresLeaveLittle` | loads and stores of every width and type, aligned and not, of a value with distinct bytes in two words of memory; a refused write of mhartid | 174,774 |
| `replay_csr` | `ReplayedRegisters`, `ReplayedCsrs`, `OnlyOperandBitsChange` | writes of each kind of CSR, a refused write, traps and returns | 124,704 |
| `alu` | `OpAgrees`, `OpImm32Agrees`, `Op32Agrees`, `BranchAgrees`, `MulDivAgrees`, `MulDivWordAgrees` | every pair of 8-bit operands with 4-bit words | 65,536 |
| `fpu` | the ten properties of `FpuCheck` | every pair of operands of a format with 4 exponent and 3 fraction bits, every rounding mode; conversions with 5 exponent bits | 65,536 |
| `image` | `LoadedAsLinked`, `TohostIsTheSymbol`, `ProgramsDecode`, `DecodingIsLossless` | 7 section tables with 12 segment layouts; a file for every instruction, and for 18 values of funct7 under every opcode | 29,417 |
| `loop` | `CommitNamesFetchedWord`, `SignalStopsExecution`, `ExecutorSpec`, `SignalIsSeen` | six programs, two entry points, two boot contents | 201 |
| `jump`, `float_access`, `clear`, `dynamic` | each one statement of the source that the code contradicts | | found at once |

*Bounds.* Two integer registers (x0 and one other) are enough for every
distinction the code makes on register numbers; `replay_mem` has an address, a
data and a result register besides x0.
Eight bytes of memory contain two words and every alignment case. Registers
and CSRs are 64 bits wide; what is small is the set of values the instructions
build (a few immediates, pc values and masks that together hit every field of
mstatus, its neighbours, and both alignment bits of mepc and mtvec). The
results of `Fpu` are two: nothing raised, and one flag raised with a changed
value. The state spaces are finite without a bound on steps: instructions may
execute in any order, any number of times. `alu` narrows the register to 8
bits with the proportions of the program's (a word is half a register, shift
fields are logarithms of the widths); `Alu` and `MulDiv` have no constants but
those four numbers.

*The reader of the log.* `TraceReplay` knows nothing of the elements the
accessors of `Ram` index. A logged access is bytes at consecutive addresses from
the logged one on (`AddrOf`, `ByteOf`), and its memory changes byte by byte
(`Patched`), so that `ReplayedMemory` compares two descriptions of a store, and
`ReplayedReads` what a load of each width would find with bytes that came in
stores of others. The three `Replayed*` invariants are about a program that runs;
`FailuresLeaveLittle` is about the step that ends it. The writes of a step are
applied one by one and a late one may fail, so the order in which they come
decides what is left.

*The format of `fpu`.* Eight bits hold zeros, subnormals, fourteen binades,
infinities, quiet and signalling NaNs of both signs. Three fraction bits are as
few as leave the guard, round and sticky bits distinct, and four exponent bits
enough that operands lie further apart than the significand is wide, which is
where alignment loses bits. The reference is independent: a float is an integer
multiple of the smallest subnormal, and the result is looked up among *all*
floats of the format. Its flags are those of IEEE 754 and the RISC-V manual:
tininess is detected after rounding, with no bound to the exponent. For a value
near the smallest normal that means rounding it to one more digit than
subnormals have, which is rounding its double (`Delivered`). Comparisons cover
value and flags. Of sums, roots and conversions the flags agree; of products,
quotients and fused operations they agree but for underflow to the smallest
normal, which the unit does not raise (`Raised`), and for infinity by zero
(`ByZero` in `DivAgrees`). The properties state these two cases and so that there
is no third. The fused
operations take their factors from twelve values (`Factors`: zero,
subnormals, the ends of the range, around one, infinity, NaNs) and every
addend. In the conversion format the largest floats exceed every integer type,
as binary32's do. `FormatAssumption` names what a format needs for the widths to
stand in the relations they have in the program.

*The files of `image`.* Section tables: the symbol in the only table, behind one
without it, in two with different values, with value zero, absent. Layouts:
tails that end where another segment begins, segments that overlap in both
orders, one up to the end of memory, past it and below it, an empty one outside,
one with more bytes than its size. Of each instruction there are eight words,
such that any two operand bits differ in one of them; a decoder that swapped
two bits of an immediate or two register fields would encode back to another
word. The encoder is written from the tables of the RISC-V manual, not from
`decode.cpp`: a set of rows for each opcode (`Rows`), and for each immediate format
the bit of the immediate that each bit of the word is (`Figure`).

*Programs of `loop`.* A store that overwrites the next word and runs it; a
store that overwrites itself and is run again; a body that traps (by `ecall`,
and by a misaligned load) into a handler that signals; a handler that returns
to the trapping instruction, so that the loop never ends without a signal; a
program that runs off its end.

*Fairness.* Only `SimSpec` has any: weak fairness of `Iterate`, the loop body.
One thread runs it and no call in it blocks, so it takes its next step. With
that, `SignalIsSeen` says that a program whose store reaches `tohost` is
stopped. Programs that never signal run for ever, as in the simulator.

*Deadlock* is checked everywhere; a program that has ended stutters by `Ended`,
`Exited` or `Ready`.

*Assertions.* `Asserts` is TRUE in all runs: `CMakeLists.txt` sets no build
type, so `assert` is compiled in. The proofs hold for both values, but for
`LogAccountsForMemory` and `LoadsReadTheLog`, which need the assertions: without
them an `FSW` to a misaligned address writes the aligned element around it.

### What the violations show

* `jump`: jump targets are not checked, so `JALR` and `JAL` to an address that
  is not a multiple of four reach the assertion in `get_32`.
* `float_access`: `FLW` and `FSW` lack the alignment check of `LW` and `SW`
  and reach the assertions in `get_32` and `set_32`. The property looks at the
  addresses the overloads come to ask for (`AccessesOf`), before any assertion
  has ended the program.
* `clear`: `CSRRCI` complements its immediate as a 32-bit number and so clears
  bits 32 to 63 of the register as well. `CSRRC` does not.
* `dynamic`: `get_csr(Frm)` does not mask, `set_csr(Frm)` does, and the array
  they share starts uninitialized: a dynamic operation can fail with a valid
  mode in `frm`.

## 4. The proofs

Assumptions, each of which every run whose modules extend it evaluates:

* `WidthAssumption`: both integer widths are powers of two and the shift fields
  their logarithms. The theorems on `Words`, `Alu` and `MulDiv` are for *every*
  such machine; `CoreAssumption` fixes 64 and 32 for the rest.
* `CoreAssumption`, `RamAssumption`, `ExecutorAssumption`, `SimulatorAssumption`:
  x0 is a register, memory is made of whole 64-bit elements; instructions,
  images, boot contents and arithmetic results are *any* sets of the right type.
  The initial contents of the CSR array are not restricted.
* `LoaderAssumption`: files have the types of what the ELF library returns, and
  memory is an interval of addresses that does not begin at zero.
* `ImageAssumption` says what `keys` of a file means: the words that its headers
  put at `CodeAddrs` are words of that instruction (`IsEncoding`: the bits that
  tell it, any operands, nothing else). It is about the input, in the terms of the
  encoder; nothing in it is taken from `decode` or from the steps of `Loader`.
* `FormatAssumption`: how the widths of a floating-point format, of the fused
  product's window and of the integer registers relate. binary32 in the
  program's words satisfies it, and so does every format of at least two exponent
  and three fraction bits with a window that is wide enough. `CvtAssumption`
  asks of the format that is converted to and from integers that its exponent has
  at least two bits, too; the rest it shares.
* `PowersAssumption` (of `MulDiv` and of `Fpu`, and in `CvtAssumption`): `2^0 = 1` and
  `2^(n + 1) = 2 * 2^n` for the exponents that occur. This is a fact and restricts
  nothing; it is stated because the provers take exponentiation as given and know
  nothing of it.

| Theorem | Statement | Argument |
| --- | --- | --- |
| `TypeCorrect` | `Spec => []TypeOK` | every overload returns `StepResult`s (`ExecuteType`, one lemma per class with lemmas on what `Alu` returns); the three ways of finishing keep types |
| `MstatusStaysWellFormed` | `Spec => []MstatusWellFormed` | inductive with `TypeOK`: `set_csr` repairs any value written, so each of the three writers does |
| `FpChangesMarkDirty` | `Spec => FpChangesAreDirty` | `ExecuteEffects`: which CSR and which f register a result may name; a step that touches either appends the mark unless it was there, and no such step writes mstatus itself |
| `AccruedFlagsAreKept` | `Spec => AccruedFlagsStick` | `ExecuteEffects` again: an arithmetic write of fflags contains the old flags; frm, traps and the mark leave them |
| `FcsrKeepsUpperBits` | `Spec => FcsrUpperBitsFrozen` | after the split only fflags and frm are written, and each keeps the rest |
| `SetAndClearSelectBits` | `Spec => OnlyOperandBitsChange` in a program without `CSRRCI` | old and new value differ in operand bits (`SelectedBits`), and `set_csr` adds those it derives; with `CSRRCI` it is false, as `clear` shows |
| `ImplementsTrapStack` | `Spec => TrapStackSpec` | initial states map; each result is a `Trap`, a `Return`, a rewrite or a `Run`; needs `TypeOK`, and that the masks of `set_csr` let every stacked field through |
| `LogAccountsForRegisters` | `ReplaySpec => []ReplayedRegisters` | inductive with `TypeOK`: commit and `step` are computed from one `StepResult` |
| `LogAccountsForMemory` | `ReplaySpec => []ReplayedMemory`, if `Asserts` | inductive with `TypeOK`: a write without a size is no write (`StepShape`), one the accessor lets pass is aligned, and then the bytes at consecutive addresses are those of the element (`AddrOfAligned`, `PatchedIsSet`) |
| `LoadsReadTheLog` | `ReplaySpec => []ReplayedReads`, if `Asserts` | from the theorem before: the bytes of what `get_*` assembles are those at the addresses of the load, and extending it leaves them (`BytesOfGet`, `BytesOfLoad`) |
| `FailuresStopShort` | `Spec => FailuresLeaveLittle` | `StepShape`: a step whose writes may fail is a store, which carries nothing else, or a CSR instruction with mhartid, which carries its destination register |
| `LogAccountsForCsrs` | `ReplaySpec => []ReplayedCsrs` | inductive with `TypeOK` and `MstatusWellFormed`: a write changes what no *other* register reads (`ReadbackElsewhere`), so what is not logged is as it was (`UnloggedKept`); a trap recomputes SD and, mstatus being well formed, gets what it was (`TrapChanges`) |
| `LoopImplementsExecutor` | `SimSpec => ExecutorSpec` | `Decode` yields members of `Insns`; the other actions leave `Executor`'s state alone |
| `CommitsNameFetchedWords` | `SimSpec => []CommitNamesFetchedWord` | inductive with `FetchedWordHolds`: while the loop is between fetch and step, `insn` is still the word at the pc |
| `SignalEndsTheLoop` | `SimSpec => []SignalStopsExecution`, if no image holds a signal at the start | only a step that returns stores (`FailuresStoreNothing`), and after it the signal is looked at before the next fetch; the condition is needed, as `main` looks only after a step |
| `MulDivCorrect`, `MulDivWordCorrect` | `Spec => []MulDivAgrees`, `[]MulDivWordAgrees` (`AluCheck`) | signed and unsigned reading differ by a multiple of the range, which a remainder does not see; a truncated quotient fits its type but for the overflow the code tests for |
| `HighHalfIsQuotient` | the carry scheme of `multiply_high_unsigned` yields the product divided by the range | expansion of the product of two-digit numbers in base `2^(XLEN/2)` |
| `WordArithmetic` | `Plus`, `Minus` and `Ltu` on bit sets are sum, difference and order modulo `2^XLEN` | induction on the position: the carry into it is what the lower bits sum to beyond its power (`Value` of a word is the sum of its powers) |
| `OpCorrect`, `OpImm32Correct`, `Op32Correct`, `BranchCorrect` | `Spec => []OpAgrees` and so on (`AluCheck`) | the references are numbers: `WordArithmetic`, shifts as products and quotients by a power, sign extension as a change of representative |
| `TohostIsLookedUp` | `LoaderSpec => []TohostIsTheSymbol` | inductive: while the scan lasts, no table before `n` has the symbol, so the one that ends it is the first |
| `MemoryIsLoaded` | `LoaderSpec => []LoadedAsLinked` | inductive: memory is as the segments already taken say, the last one that covers an address first; address arithmetic that wraps is the arithmetic of `WordArithmetic` |
| `AdditionIsExact`, `MultiplicationIsExact`, `DivisionIsExact`, `FusedIsExact` | `Spec => []AddSubAgrees`, `[]MulAgrees`, `[]DivAgrees`, `[]FmaAgrees` (`FpuCheck`) | `CorrectlyRounded` for the value and `DeliveredIs` for the flags, and for each operation that the significand it hands to `round_and_pack` is exact or jammed; see below |
| `RootIsExact` | `Spec => []SqrtAgrees` (`FpuCheck`), if `FRACBITS + MinExponent <= 0` | the same; with that, as in binary32, no root is small enough to underflow |
| `ComparisonsOrderNumbers` | `Spec => []ComparisonsAgree` (`FpuCheck`) | sign and magnitude order floats as their numbers (`GridGrows`: the numbers grow with the bits) |
| `IntegerToFloatIsExact` | `Spec => []IntegerToFloatAgrees` (`FpuCheck`) | an integer moved to the place of the significand is exact or jammed (`IntegerStands`), and `CorrectlyRounded` does the rest; the reference searches from one upwards, which finds the same (`OnesRounded`) |
| `FloatToIntegerIsExact` | `Spec => []FloatToIntegerAgrees` (`FpuCheck`) | the shift splits the magnitude into quotient and remainder of an exact fraction (`CutIs`); the limits the code compares with are the ends of the type on either side of zero (`BoundsAre`), and the test for a magnitude that no register holds does not overflow itself (`TooLargeIs`) |
| `PackingLosesNothing` | `Spec => []PackingInverts` (`FpuCheck`) | a subnormal is normalized by as many places as packing shifts it back |
| `ReservedModeIsFatal` | `Spec => []ReservedModeThrows` (`FpuCheck`) | `round_and_pack` throws unless its significand is zero, and that does not depend on the mode; see below |
| `DecodingLosesNothing` | `LoaderSpec => []DecodingIsLossless` (`ImageCheck`) | `DecodeLossless`, for every word and so whatever was loaded: fields and immediates go back to the slices they are read from, and the slices are the word; see below |
| `InstructionsAreDecoded` | every 32-bit word that has the bits of a row of the opcode map (`IsWordOf`) is decoded to the instruction of that row | a number placed in a field is read back (`PlacedIsRead`), so the word has the fields of the row (`FieldsTold`); for each opcode the type of every row is the one `decode` finds for those fields (`TypesOfRows` and so on) |
| `ProgramsAreDecoded` | `LoaderSpec => []ProgramsDecode` (`ImageCheck`) | `LoadingInvariant` makes the word in memory the linked one (`CodeIsLinked`), `InstructionsAreDecoded` its instruction the right one, and `DecodeLossless` its encoding the word again, as a word of an instruction has no bits that `decode` would have ignored (`EncodingsComeBack`) |

`MstatusWellFormed`, `CommitNamesFetchedWord`, `ReplayedCsrs` and
`TohostIsTheSymbol` are not inductive alone: the first needs the type of the CSR
file, the second that nothing runs between fetch and execution, the third the
form of mstatus, the last what the scan has rejected so far. `ExecuteEffects` is
the key lemma for `Executor`: it bounds the effects an instruction can have
without looking at its arithmetic, and the action properties on fcsr and the
refinement rest on it.

**How the floating-point theorems go.** The reference finds the neighbours of the
exact value among all floats; the code shifts, cuts off and looks at three bits.
What connects them is an *order*: for every `h`, the side of `h / 2` smallest
subnormals on which the exact value lies, which is all that the reference asks.
A significand *jams* an order if it lies where the value does with respect to
every even number: it may be wrong in its last bit, but only by saying "there is
more". Shifting right with `shift_right_jam` keeps that (`JamSides`, `Tracking`).
With three bits below the significand, the floats and the middles between them
are even numbers, so `should_round_up` decides as the reference does, in every
mode (`UpAgrees`); with the carry and the overflow of `round_and_pack` this is
`CorrectlyRounded`. The flags of the reference need the order of twice the value,
too: an inexact result below the smallest normal comes from a tiny value and one
above it does not (`TinyIs`), so the two UF rules can differ for the smallest
normal only (`DeliveredIs`). Each operation then owes that its result is exact or
jams. For the sum this is alignment (`AlignedSum`: what is lost of the smaller
operand does not count unless the result stays long); for quotient and root the
restoring loops return quotient or root with what is left over
(`DivideUnsignedIs`, `SquareRootUnsignedIs`); for the fused operations a jammed
sum is cut and jammed a second time (`SidesOfUpperBits`). The theorems say of
`FmaAgrees` what the run does, for factors in `Factors`; the lemma `FmaIs`
behind them is for any three floats.

**Conversions, and reserved modes.** Conversions are about a second format, an
instance `Cvt` of `Fpu` inside `FpuCheck`. `FpuCheck_proofs` proves its lemmas on
them for *the* format, and `FpuConvert_proofs` instantiates the whole of
`FpuCheck_proofs` for the second one (`Conv`); what is left is that `Conv` and
`Cvt` have the same operators and that their reference is the one of `FpuCheck`
(`SameConversion`, `SameInteger`). For the reserved modes both directions need the
arithmetic. If the exact result is not zero then the significand is not: were it
zero, every mode would return an exact zero, and the reference, which the code
agrees with in the other modes, returns that for no such value (`NeverZero`). If
the exact result is zero then the aligned significands of the terms cancel: they
were not cut, as what is cut off leaves a trace in the jammed bit (`Cancels`).

**Decoding.** A word is the union of the slices its fields are read from
(`Slices`). A field read as a number and placed again is its slice (`FieldBack`,
by the arithmetic of `Words_proofs`), and an immediate laid out by the manual's
figure is the slices it was collected from (`ImmediatesAre`). The bits that tell
an instruction come from the opcode map, not from the word: for every opcode it
is shown that a row whose type is the one decode found has the `funct3`, `funct7`
and `rs2` of the word (`RowsTell`), so that its bits are slices, too (`FixedOf`).
Here the theorem says more than the run can: a `funct7` taken for another, or a
bit that no case looks at, would be found in any of the 2^32 words.

The other direction, that no instruction is refused or taken for another, is
`InstructionsAreDecoded`. It asks only for the bits that tell the instruction
(`Telling`): a fence with registers in its unused fields is one of its words, and
in a 64-bit shift bit 25 belongs to the amount. Both directions and the theorem on
memory make `ProgramsAreDecoded`, in which the loader counts: whatever segments a
file has, in whatever order, the executor is given the instructions that were
assembled, with their operands.

**Induction.** The induction theorems of the library take an operator as a
parameter, which the installed provers do not instantiate. `Words_proofs` proves
induction over sets instead: a set of naturals that is not all of them has a
least member outside (`Least`), which the base or the step puts inside. Sums over
bits, the two restoring loops and the powers of two are defined by recursive
functions and reasoned about that way.

Only model-checked: `SignalIsSeen`, which is liveness. Every safety property of a
passing run is the statement of a theorem.

## 5. Not modelled

* Parsing of the ELF file by the ELFIO library: external. Its results are the
  records of `Files`; that every value of `tohost` comes from one of the
  symbol tables is taken from how `load` uses it.
* The text of the log. (A load is printed with the value 0.) What a commit
  contains is modelled.
* The build files.
* The arithmetic units inside `Executor`, by choice (section 2): only sign
  injection, classification, the moves, and whether a reserved rounding mode
  throws are there, and `Fpu` and `MulDiv` are checked apart.

Observed while modelling, and in the model as they are:

* `ecall` in privilege Supervisor ends the program, though `mret` can reach it;
  neither `mret` nor CSR instructions look at the privilege; floating-point
  instructions run with FS off; a write of mhartid ends the program.
* Traps leave no commit, so a reader of the log learns of their CSR changes
  only from later reads (`ReplayedCsrs` excludes exactly those).
* A word shift by 32 or more is undefined in C++ (`Op32Agrees`).
* `ElfImage::tohost` is not initialized: a file without the symbol is refused
  only if the member happens to be zero. A symbol with the value zero in the
  first table ends the search, and the file is refused although a later table
  may have it (`TohostIsTheSymbol`).
* Neither `Memory::load` nor `clear` looks at the bounds of the array. A segment
  with more bytes than its size makes the length of its tail wrap around.
* Two flags are not those of IEEE 754 and the RISC-V manual. UF is decided on the
  packed result (`fpu.cpp:133`): where a tiny inexact value is rounded up to the
  smallest normal, only NX is raised. (In the format of `fpu`, 15 units times 0.5
  is 7.5 units, which rounds to 8.) And DZ is raised for infinity divided by
  zero, too, which is exact (`fpu.cpp:449`). The repository does not say which
  flags it means to raise, so these are not listed as findings; `MulAgrees`,
  `DivAgrees` and `FmaAgrees` say that the flags differ there and nowhere else.
* A write of mhartid is refused only after the destination register has been
  written and the pc moved (`FailuresLeaveLittle` says what such an end leaves).
* `UnpackedFp32::to_bits` is called nowhere; `PackingInverts` is about it.
* A reserved rounding mode in an instruction ends the program only where a
  nonzero finite result is rounded, and never in a conversion to integer
  (`ReservedModeThrows` says exactly where).
* `decode` looks neither at the width of a floating-point load or store nor at
  the funct3 of `JALR`: `FLD` runs as `FLW` (`Unchecked` lists every such field).

## 6. Plan

Done: all modules of section 2, their runs, and the theorems of section 4.
What is left, in the order of its use:

1. `Loader` composed with `Simulator`, so that a run starts from a file. (The
   units stay apart from `Executor`: they compute with numbers, and TLC's have
   32 bits where registers have 64.)
2. That `decode` yields a `DecodedInsn` for every word, and so that `Insns` can
   be all of them.
