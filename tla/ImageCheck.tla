----------------------------- MODULE ImageCheck -----------------------------
(***************************************************************************)
(* Programs on their way from the assembler to the executor: encoded as    *)
(* the RISC-V manual says, linked into ELF files of several layouts,       *)
(* loaded by Loader and decoded by Decoder.  The encoder shares nothing    *)
(* with the decoder: it has the manual's opcode map and, for every         *)
(* immediate format, the manual's figure that gives each bit of the word   *)
(* its bit of the immediate.                                               *)
(***************************************************************************)
EXTENDS Loader, Decoder, FiniteSets

-----------------------------------------------------------------------------
\* A row of the opcode map: the opcode of an instruction, and the funct3,
\* funct7 and rs2 that tell it from others, -1 where the word has none.  Rows
\* that one field tells apart come together.
None == -1
One(type, opcode, funct3, funct7, rs2) ==
    [type |-> type, opcode |-> opcode, funct3 |-> funct3, funct7 |-> funct7, rs2 |-> rs2]
Alone(opcode, funct3) == {One("", opcode, funct3, None, None)}
ByFunct3(opcode, funct7, rs2, funct3) ==
    {One(t, opcode, funct3[t], funct7, rs2) : t \in DOMAIN funct3}
ByRs2(opcode, funct3, funct7, rs2) ==
    {One(t, opcode, funct3, funct7, rs2[t]) : t \in DOMAIN rs2}

Rows == [
    Lui     |-> Alone(55, None),
    Auipc   |-> Alone(23, None),
    Jal     |-> Alone(111, None),
    Jalr    |-> Alone(103, 0),
    Branch  |-> ByFunct3(99, None, None, [Eq |-> 0, Ne |-> 1, Lt |-> 4, Ge |-> 5,
                                         Ltu |-> 6, Geu |-> 7]),
    Load    |-> ByFunct3(3, None, None, [B |-> 0, H |-> 1, W |-> 2, D |-> 3,
                                        Bu |-> 4, Hu |-> 5, Wu |-> 6]),
    Store   |-> ByFunct3(35, None, None, [B |-> 0, H |-> 1, W |-> 2, D |-> 3]),
    OpImm   |-> ByFunct3(19, None, None, [Add |-> 0, Slt |-> 2, Sltu |-> 3, Xor |-> 4,
                                         Or |-> 6, And |-> 7])
                \cup ByFunct3(19, 0, None, [Sll |-> 1, Srl |-> 5])
                \cup ByFunct3(19, 32, None, [Sra |-> 5]),
    Op      |-> ByFunct3(51, 0, None, [Add |-> 0, Sll |-> 1, Slt |-> 2, Sltu |-> 3,
                                      Xor |-> 4, Srl |-> 5, Or |-> 6, And |-> 7])
                \cup ByFunct3(51, 32, None, [Sub |-> 0, Sra |-> 5])
                \cup ByFunct3(51, 1, None, [Mul |-> 0, Mulh |-> 1, Mulhsu |-> 2, Mulhu |-> 3,
                                           Div |-> 4, Divu |-> 5, Rem |-> 6, Remu |-> 7]),
    MiscMem |-> ByFunct3(15, None, None, [Fence |-> 0, FenceI |-> 1]),
    System  |-> ByFunct3(115, None, None, [Csrrw |-> 1, Csrrs |-> 2, Csrrc |-> 3,
                                         Csrrwi |-> 5, Csrrsi |-> 6, Csrrci |-> 7])
                \cup ByRs2(115, 0, 0, [Ecall |-> 0, Ebreak |-> 1])
                \cup ByRs2(115, 0, 24, [Mret |-> 2]),
    OpImm32 |-> ByFunct3(27, None, None, [Add |-> 0])
                \cup ByFunct3(27, 0, None, [Sll |-> 1, Srl |-> 5])
                \cup ByFunct3(27, 32, None, [Sra |-> 5]),
    Op32    |-> ByFunct3(59, 0, None, [Add |-> 0, Sll |-> 1, Srl |-> 5])
                \cup ByFunct3(59, 32, None, [Sub |-> 0, Sra |-> 5])
                \cup ByFunct3(59, 1, None, [Mul |-> 0, Div |-> 4, Divu |-> 5, Rem |-> 6,
                                           Remu |-> 7]),
    LoadFp  |-> Alone(7, 2),
    StoreFp |-> Alone(39, 2),
    FmaFp   |-> {One("MAdd", 67, None, 0, None), One("MSub", 71, None, 0, None),
                 One("NmSub", 75, None, 0, None), One("NmAdd", 79, None, 0, None)},
    OpFp    |-> {One("Add", 83, None, 0, None), One("Sub", 83, None, 4, None),
                 One("Mul", 83, None, 8, None), One("Div", 83, None, 12, None),
                 One("Sqrt", 83, None, 44, 0)}
                \cup ByFunct3(83, 16, None, [Sgnj |-> 0, Sgnjn |-> 1, Sgnjx |-> 2])
                \cup ByFunct3(83, 20, None, [Min |-> 0, Max |-> 1])
                \cup ByFunct3(83, 80, None, [Le |-> 0, Lt |-> 1, Eq |-> 2])
                \cup ByRs2(83, None, 96, [CvtWFromS |-> 0, CvtWuFromS |-> 1,
                                         CvtLFromS |-> 2, CvtLuFromS |-> 3])
                \cup ByRs2(83, None, 104, [CvtSToW |-> 0, CvtSToWu |-> 1,
                                          CvtSToL |-> 2, CvtSToLu |-> 3])
                \cup ByFunct3(83, 112, 0, [MoveToX |-> 0, Class |-> 1])
                \cup ByFunct3(83, 120, 0, [MoveFromX |-> 0])]

\* The instructions, by opcode and type, and the row of each.
Keys == UNION {{<<op, row.type>> : row \in Rows[op]} : op \in DOMAIN Rows}
OpcodeMap == [key \in Keys |-> CHOOSE row \in Rows[key[1]] : row.type = key[2]]

\* The numbers of the control and status registers.
CsrNumber == [fflags |-> 1, frm |-> 2, fcsr |-> 3, mstatus |-> 768, mie |-> 772,
              mtvec |-> 773, mscratch |-> 832, mepc |-> 833, mcause |-> 834, mtval |-> 835,
              pmpcfg0 |-> 928, pmpaddr0 |-> 944, mhartid |-> 3860]

\* The bit of the immediate that each bit of the word is.
Figure == [I |-> [p \in 20 .. 31 |-> p - 20],
           Shift64 |-> [p \in 20 .. 25 |-> p - 20],
           Shift32 |-> [p \in 20 .. 24 |-> p - 20],
           S |-> [p \in (7 .. 11) \cup (25 .. 31) |-> IF p < 12 THEN p - 7 ELSE p - 20],
           B |-> [p \in (7 .. 11) \cup (25 .. 31) |->
                     IF p = 7 THEN 11 ELSE IF p < 12 THEN p - 7
                     ELSE IF p < 31 THEN p - 20 ELSE 12],
           U |-> [p \in 12 .. 31 |-> p],
           J |-> [p \in 12 .. 31 |->
                     IF p < 20 THEN p ELSE IF p = 20 THEN 11
                     ELSE IF p < 31 THEN p - 20 ELSE 20]]
FormatOf(d) ==
    CASE d.op \in {"Lui", "Auipc"}     -> "U"
      [] d.op = "Jal"                  -> "J"
      [] d.op = "Branch"               -> "B"
      [] d.op \in {"Store", "StoreFp"} -> "S"
      [] d.op \in {"OpImm", "OpImm32"} /\ d.type \in {"Sll", "Srl", "Sra"} ->
            IF d.op = "OpImm" THEN "Shift64" ELSE "Shift32"
      [] OTHER -> "I"

Key(d) == <<d.op, IF "type" \in DOMAIN d THEN d.type ELSE "">>
Has(d, field) == field \in DOMAIN d

\* A number or a set of bits placed at a position; no number has more than
\* twelve bits.
Weight == <<1, 2, 4, 8, 16, 32, 64, 128, 256, 512, 1024, 2048>>
At(number, from) == {i + from : i \in {j \in 0 .. 11 : (number \div Weight[j + 1]) % 2 = 1}}
Shifted(bits, from) == {i + from : i \in bits}
OrNothing(p, bits) == IF p THEN bits ELSE {}

IsTrap(key) == key[1] = "System" /\ OpcodeMap[key].funct7 # None
IsCsrAccess(key) == key[1] = "System" /\ ~IsTrap(key)

\* The bits that tell an instruction, and where its operands are.
FixedBits(key) ==
    LET row == OpcodeMap[key]
    IN  At(row.opcode, 0)
        \cup OrNothing(row.funct3 # None, At(row.funct3, 12))
        \cup OrNothing(row.funct7 # None, At(row.funct7, 25))
        \cup OrNothing(row.rs2 # None, At(row.rs2, 20))
OperandBits(key) ==
    LET row == OpcodeMap[key]
        funct7 == CASE key[1] = "FmaFp" -> 25 .. 26
                    [] key[1] = "OpImm" -> 26 .. 31
                    [] key[1] = "System" -> 20 .. 31
                    [] OTHER -> 25 .. 31
    IN  IF key[1] = "MiscMem" \/ IsTrap(key) THEN {}
        ELSE ((7 .. 31) \ OrNothing(row.funct3 # None, 12 .. 14))
                \ (OrNothing(row.funct7 # None \/ key[1] = "System", funct7)
                        \cup OrNothing(row.rs2 # None, 20 .. 24))

\* The word of an instruction.
Encode(d) ==
    LET figure == Figure[FormatOf(d)]
        ordinary == ~IsTrap(Key(d))
    IN  FixedBits(Key(d))
        \cup OrNothing(Has(d, "imm"), {p \in DOMAIN figure : figure[p] \in d.imm})
        \cup OrNothing(Has(d, "rd") /\ ordinary, At(d.rd, 7))
        \cup OrNothing(Has(d, "rs1") /\ ordinary, At(d.rs1, 15))
        \cup OrNothing(d.op = "FmaFp", At(d.fd, 7) \cup At(d.fs1, 15) \cup At(d.fs3, 27))
        \cup OrNothing(Has(d, "rs2"), At(d.rs2, 20))
        \cup OrNothing(Has(d, "fs2"), At(d.fs2, 20))
        \cup OrNothing(Has(d, "rm"), Shifted(d.rm, 12))
        \cup OrNothing(d.op = "System" /\ ordinary /\ d.csr # "unimplemented",
                       At(CsrNumber[d.csr], 20))

\* An instruction with a type of its opcode, which the executor carries out.
Accepted(d) == d \notin {InvalidWord, Thrown} /\ Key(d) \in Keys

\* Bits the manual gives a meaning, or reserves, that decode does not look at.
Unchecked(d) ==
    CASE d.op \in {"Jalr", "LoadFp", "StoreFp"} -> 12 .. 14
      [] d.op = "MiscMem"                       -> (7 .. 11) \cup (15 .. 31)
      [] d.op = "System"                        ->
            IF IsTrap(Key(d)) THEN (7 .. 11) \cup (15 .. 19)
            ELSE OrNothing(d.csr = "unimplemented", 20 .. 31)
      [] OTHER                                  -> {}

-----------------------------------------------------------------------------
(***************************************************************************)
(* Memory is 64 bytes.  Eight words of code come first; in the eight words *)
(* of one instruction every operand bit is set in the words of its own     *)
(* number, so that no two can change places, and none can be taken for     *)
(* another, in all of them.                                                *)
(***************************************************************************)
Base == {31}
MCAddrs == {Base \cup o : o \in SUBSET Low(6)}

Pattern(j) ==
    CASE j \in 0 .. 4 -> {p \in Low(32) : (p \div 2^j) % 2 = 1}
      [] j = 5        -> Low(32)
      [] j = 6        -> {}
      [] j = 7        -> {p \in Low(32) : p % 2 = 0}
CsrIn(j) == LET numbers == {CsrNumber[f] : f \in DOMAIN CsrNumber}
            IN  CHOOSE k \in numbers : Cardinality({m \in numbers : m < k}) = j % 13

\* The words of an instruction; for each CSR instruction another register
\* comes first.
WordsOf(key) ==
    [i \in 1 .. 8 |->
        FixedBits(key) \cup (OperandBits(key) \cap Pattern(i - 1))
            \cup OrNothing(key[1] = "System" /\ ~IsTrap(key),
                           At(CsrIn(i + 2 * OpcodeMap[key].funct3), 20))]

\* Words of an opcode and a funct7, legal or not, one for each funct3.
AnyWords(opcode, funct7, rs2, j) ==
    [i \in 1 .. 8 |-> At(opcode, 0) \cup At(i - 1, 12) \cup At(funct7, 25) \cup At(rs2, 20)
                        \cup (Pattern(j) \cap ((7 .. 11) \cup (15 .. 19)))]

\* The bytes of eight words, by their offset.
Number(o, k) == CHOOSE m \in 0 .. 2^k - 1 : At(m, 0) = o
BytesOf(words) ==
    [o \in SUBSET Low(5) |->
        LET word == words[1 + Number({i - 2 : i \in o \ {0, 1}}, 3)]
        IN  Field(word, 8 * Number(o \cap {0, 1}, 2), 8)]

Segment(type, addr, size, filesz, data) ==
    [type |-> type, addr |-> addr, size |-> size, filesz |-> filesz, data |-> data]
Code(words) == Segment("LOAD", Base, {5}, {5}, BytesOf(words))
\* filesz bytes, every one different from zero, in size bytes from an offset.
Data(offset, size, filesz, byte) ==
    Segment("LOAD", Base \cup At(offset, 0), At(size, 0), At(filesz, 0),
            [o \in {At(k, 0) : k \in 0 .. filesz - 1} |-> {byte} \cup o])

Symtab(values) == [type |-> "SYMTAB", tohost |-> values]
Dynsym(values) == [type |-> "DYNSYM", tohost |-> values]
Text == [type |-> "PROGBITS", tohost |-> {}]
Tohost == Base \cup {3, 4, 5}

File(sections, segs, keys) ==
    [readable |-> TRUE, sections |-> sections, segments |-> segs, keys |-> keys]

SectionTables ==
    {<<Text, Symtab({Tohost})>>, <<Dynsym({}), Text, Symtab({Tohost})>>,
     <<Dynsym({Base}), Symtab({Tohost})>>, <<Symtab({Tohost}), Dynsym({{}})>>,
     <<Text, Dynsym({})>>, <<Symtab({{}})>>, <<>>}
Nops == [i \in 1 .. 8 |-> {0, 1, 4}]
Layouts ==
    {<<Code(Nops), Data(32, 16, 8, 5)>>, <<Data(32, 24, 0, 5), Code(Nops)>>,
     \* A tail that ends where an earlier segment begins.
     <<Data(40, 8, 8, 5), Data(32, 8, 4, 6), Code(Nops)>>,
     \* Segments that share bytes, in both orders.
     <<Data(0, 48, 8, 5), Data(32, 8, 8, 6)>>, <<Data(32, 8, 8, 6), Data(0, 48, 8, 5)>>,
     \* Up to the end of memory and past it, from below it, not to be loaded.
     <<Code(Nops), Data(56, 8, 8, 5)>>, <<Code(Nops), Data(56, 16, 8, 5)>>,
     <<Data(56, 16, 16, 5)>>,
     <<Segment("LOAD", {4}, {3}, {3}, [o \in SUBSET Low(3) |-> o])>>,
     <<Code(Nops), Segment("NOTE", {4}, {3}, {}, << >>)>>,
     \* Nothing outside memory, and more bytes than the size.
     <<Segment("LOAD", {4}, {}, {}, << >>), Code(Nops)>>, <<Data(32, 4, 8, 5)>>}

MCUninitialized == {{}, {5, 40}}

Linked(words, key) == File(<<Text, Symtab({Tohost})>>, <<Code(words)>>, key)
Opcodes == {OpcodeMap[k].opcode : k \in Keys} \cup {0, 43, 127}
Funct7s == {0, 1, 2, 4, 8, 12, 16, 20, 24, 32, 33, 44, 80, 96, 104, 112, 120, 127}

MCFiles ==
    {File(s, l, <<>>) : s \in SectionTables, l \in Layouts}
    \cup {[File(<<>>, <<>>, <<>>) EXCEPT !.readable = FALSE]}
    \cup {Linked(WordsOf(key), key) : key \in Keys}
    \cup {Linked(AnyWords(opcode, funct7, rs2, (opcode + funct7) % 8), <<>>) :
              opcode \in Opcodes, funct7 \in Funct7s, rs2 \in 0 .. 4}

-----------------------------------------------------------------------------
CodeAddrs == {Base \cup o : o \in SUBSET {2, 3, 4}}
Fetched(addr) == decode(Get(mem, addr, 4))

\* A word of an instruction: outside its operands it has the bits that tell
\* the instruction and no others, and one that accesses a control and status
\* register has the number of a register.
IsEncoding(w, key) ==
    /\ w \ (OperandBits(key) \cup OrNothing(IsCsrAccess(key), 20 .. 31)) = FixedBits(key)
    /\ IsCsrAccess(key) => \E f \in DOMAIN CsrNumber : w \cap (20 .. 31) = At(CsrNumber[f], 20)

\* The code is in memory.  A file with an instruction for its keys has eight
\* words of that instruction there.
ASSUME ImageAssumption ==
    /\ CodeAddrs \subseteq RamAddrs
    /\ \A f \in Files :
          f.keys # <<>> =>
              /\ f.keys \in Keys
              /\ \A addr \in CodeAddrs :
                    IsEncoding(Get([a \in RamAddrs |-> LinkedByte(f, a)], addr, 4), f.keys)

\* What was assembled is what the executor is given: every instruction of the
\* base, M, F and Zicsr sets, with every operand in its place, after it has
\* been through the file and the memory.
ProgramsDecode ==
    phase = "run" /\ file.keys # <<>> =>
        \A addr \in CodeAddrs :
            /\ Key(Fetched(addr)) = file.keys
            /\ file.keys[1] \in {"MiscMem"} \/ Encode(Fetched(addr)) = Get(mem, addr, 4)

\* No word is taken for an instruction it is not: what decode accepts encodes
\* to the same word again, up to the bits it does not look at, which are the
\* width of a floating-point load, the funct3 of JALR, and unused fields.
DecodingIsLossless ==
    phase = "run" =>
        \A addr \in CodeAddrs :
            Accepted(Fetched(addr)) =>
                Xor(Get(mem, addr, 4), Encode(Fetched(addr))) \subseteq Unchecked(Fetched(addr))
=============================================================================
