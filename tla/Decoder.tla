------------------------------- MODULE Decoder -------------------------------
(***************************************************************************)
(* Decoder::decode of decode.cpp: from an instruction word, a set of bits, *)
(* to the record of decode.h for it.  The C++ casts a field to its enum    *)
(* without a test; a value no enumerator has is "invalid" here, and the    *)
(* executor's overload is the one to refuse it.  Only floating-point words *)
(* are looked at more closely: they make decode throw.                     *)
(***************************************************************************)
EXTENDS Words, Sequences

InvalidWord == [op |-> "Invalid"]     \* InvalidInsn: main throws
Thrown == [op |-> "Throws"]           \* decode throws

\* (insn >> from) & ((1 << width) - 1), as bits and as a number; and those
\* bits moved to another place.
Field(insn, from, width) == {i \in Low(width) : i + from \in insn}
FieldNumber(insn, from, width) == Amount(Field(insn, from, width), width)
Moved(insn, from, width, to) == {i + to : i \in Field(insn, from, width)}

-----------------------------------------------------------------------------
\* The fields of the formats.
get_opcode(insn) == FieldNumber(insn, 0, 7)
get_rd(insn) == FieldNumber(insn, 7, 5)
get_funct3(insn) == FieldNumber(insn, 12, 3)
get_rs1(insn) == FieldNumber(insn, 15, 5)
get_zicsr_uimm(insn) == Field(insn, 15, 5)
get_rs2(insn) == FieldNumber(insn, 20, 5)
get_shamt(insn) == Field(insn, 20, 6)
get_zicsr_csr(insn) == FieldNumber(insn, 20, 12)
get_fmt(insn) == FieldNumber(insn, 25, 2)
get_funct7(insn) == FieldNumber(insn, 25, 7)
get_rs3(insn) == FieldNumber(insn, 27, 5)

get_u_type_imm(insn) == Sext(insn \cap 12 .. 31, 32)
get_i_type_imm(insn) == Sext(Field(insn, 20, 12), 12)
get_s_type_imm(insn) == Sext(Moved(insn, 25, 7, 5) \cup Moved(insn, 7, 5, 0), 12)
get_b_type_imm(insn) ==
    Sext(Moved(insn, 31, 1, 12) \cup Moved(insn, 25, 6, 5)
            \cup Moved(insn, 8, 4, 1) \cup Moved(insn, 7, 1, 11), 13)
\* Mutation of get_j_type_imm: bits 30 to 20 are taken as one field.
get_j_type_imm_in_order(insn) ==
    Sext(Moved(insn, 31, 1, 20) \cup Moved(insn, 20, 11, 1) \cup Moved(insn, 12, 8, 12), 21)
get_j_type_imm(insn) ==
    Sext(Moved(insn, 31, 1, 20) \cup Moved(insn, 21, 10, 1)
            \cup Moved(insn, 20, 1, 11) \cup Moved(insn, 12, 8, 12), 21)

-----------------------------------------------------------------------------
\* The enumerations, by their encodings.
OpType(funct7, funct3) ==
    CASE funct7 = 0 ->
            <<"Add", "Sll", "Slt", "Sltu", "Xor", "Srl", "Or", "And">>[funct3 + 1]
      [] funct7 = 1 ->
            <<"Mul", "Mulh", "Mulhsu", "Mulhu", "Div", "Divu", "Rem", "Remu">>[funct3 + 1]
      [] funct7 = 32 /\ funct3 = 0 -> "Sub"
      [] funct7 = 32 /\ funct3 = 5 -> "Sra"
      [] OTHER -> "invalid"

BranchType(funct3) ==
    <<"Eq", "Ne", "invalid", "invalid", "Lt", "Ge", "Ltu", "Geu">>[funct3 + 1]
MemAccessType(funct3) == <<"B", "H", "W", "D", "Bu", "Hu", "Wu", "invalid">>[funct3 + 1]
MiscMemType(funct3) == CASE funct3 = 0 -> "Fence" [] funct3 = 1 -> "FenceI" [] OTHER -> "invalid"

\* A SYSTEM word with funct3 zero is told by its whole immediate.
SystemType(funct3, imm) ==
    IF funct3 # 0
    THEN <<"Csrrw", "Csrrs", "Csrrc", "invalid", "Csrrwi", "Csrrsi", "Csrrci">>[funct3]
    ELSE CASE imm = {}         -> "Ecall"
           [] imm = {0}        -> "Ebreak"
           [] imm = {1, 8, 9}  -> "Mret"
           [] OTHER            -> "invalid"

\* enum class Csr; has_csr refuses the other numbers.
CsrName(number) ==
    CASE number = \h001 -> "fflags"   [] number = \h002 -> "frm"
      [] number = \h003 -> "fcsr"     [] number = \h300 -> "mstatus"
      [] number = \h304 -> "mie"      [] number = \h305 -> "mtvec"
      [] number = \h340 -> "mscratch" [] number = \h341 -> "mepc"
      [] number = \h342 -> "mcause"   [] number = \h343 -> "mtval"
      [] number = \h3a0 -> "pmpcfg0"  [] number = \h3b0 -> "pmpaddr0"
      [] number = \hf14 -> "mhartid"  [] OTHER -> "unimplemented"

-----------------------------------------------------------------------------
\* The sixth bit of the shift amount is the lowest of funct7: it is not
\* looked at in the type of a 64-bit shift and is in that of a 32-bit one.
IsShift(funct3) == funct3 \in {1, 5}

OpImmOf(insn) ==
    LET funct3 == get_funct3(insn)
        funct6 == FieldNumber(insn, 26, 6)
    IN  [op |-> "OpImm",
         type |-> OpType(IF IsShift(funct3) THEN 2 * funct6 ELSE 0, funct3),
         imm |-> IF IsShift(funct3) THEN get_shamt(insn) ELSE get_i_type_imm(insn),
         rs1 |-> get_rs1(insn), rd |-> get_rd(insn)]

\* Mutation of OpImm32Of: a shift is told by funct6, as the 64-bit one is.
OpImm32Funct6(insn) == [OpImmOf(insn) EXCEPT !.op = "OpImm32"]

OpImm32Of(insn) ==
    LET funct3 == get_funct3(insn) IN
    [op |-> "OpImm32",
     type |-> OpType(IF IsShift(funct3) THEN get_funct7(insn) ELSE 0, funct3),
     imm |-> IF IsShift(funct3) THEN get_shamt(insn) ELSE get_i_type_imm(insn),
     rs1 |-> get_rs1(insn), rd |-> get_rd(insn)]

SystemOf(insn) ==
    [op |-> "System", type |-> SystemType(get_funct3(insn), get_i_type_imm(insn)),
     csr |-> CsrName(get_zicsr_csr(insn)), rs1 |-> get_rs1(insn),
     uimm |-> get_zicsr_uimm(insn), rd |-> get_rd(insn)]

\* The operation of an OP-FP word, or "throws".
Nth(names, n) == IF n < Len(names) THEN names[n + 1] ELSE "throws"
OpFpType(funct7, funct3, rs2) ==
    CASE funct7 = \b0000000 -> "Add"
      [] funct7 = \b0000100 -> "Sub"
      [] funct7 = \b0001000 -> "Mul"
      [] funct7 = \b0001100 -> "Div"
      [] funct7 = \b0010000 -> Nth(<<"Sgnj", "Sgnjn", "Sgnjx">>, funct3)
      [] funct7 = \b0010100 -> Nth(<<"Min", "Max">>, funct3)
      [] funct7 = \b0101100 -> Nth(<<"Sqrt">>, rs2)
      [] funct7 = \b1010000 -> Nth(<<"Le", "Lt", "Eq">>, funct3)
      [] funct7 = \b1100000 -> Nth(<<"CvtWFromS", "CvtWuFromS", "CvtLFromS", "CvtLuFromS">>, rs2)
      [] funct7 = \b1101000 -> Nth(<<"CvtSToW", "CvtSToWu", "CvtSToL", "CvtSToLu">>, rs2)
      [] funct7 = \b1110000 ->
            IF rs2 # 0 THEN "throws" ELSE Nth(<<"MoveToX", "Class">>, funct3)
      [] funct7 = \b1111000 ->
            IF rs2 # 0 THEN "throws" ELSE Nth(<<"MoveFromX">>, funct3)
      [] OTHER -> "throws"

\* Which file a register number indexes depends on the type; rm is not
\* looked at.
OpFpOf(insn) ==
    LET type == OpFpType(get_funct7(insn), get_funct3(insn), get_rs2(insn)) IN
    IF type = "throws" THEN Thrown
    ELSE [op |-> "OpFp", type |-> type, rm |-> Field(insn, 12, 3),
          fs1 |-> get_rs1(insn), fs2 |-> get_rs2(insn), rs1 |-> get_rs1(insn),
          rd |-> get_rd(insn), fd |-> get_rd(insn)]

FmaFpOf(insn, type) ==
    IF get_fmt(insn) # 0 THEN Thrown
    ELSE [op |-> "FmaFp", type |-> type, rm |-> Field(insn, 12, 3),
          fs1 |-> get_rs1(insn), fs2 |-> get_rs2(insn), fs3 |-> get_rs3(insn),
          fd |-> get_rd(insn)]

\* Records that several opcodes share.
WithRd(op, insn, imm) == [op |-> op, imm |-> imm, rd |-> get_rd(insn)]
WithRs1(op, insn) ==
    [op |-> op, imm |-> get_i_type_imm(insn), rs1 |-> get_rs1(insn), rd |-> get_rd(insn)]
Typed(op, insn, type, imm) ==
    [op |-> op, type |-> type, imm |-> imm, rs1 |-> get_rs1(insn), rs2 |-> get_rs2(insn)]
Registers3(op, insn) ==
    [op |-> op, type |-> OpType(get_funct7(insn), get_funct3(insn)),
     rs1 |-> get_rs1(insn), rs2 |-> get_rs2(insn), rd |-> get_rd(insn)]

decode(insn) ==
    LET opcode == get_opcode(insn)
        funct3 == get_funct3(insn)
    IN  CASE opcode = \b0110111 -> WithRd("Lui", insn, get_u_type_imm(insn))
          [] opcode = \b0010111 -> WithRd("Auipc", insn, get_u_type_imm(insn))
          [] opcode = \b1101111 -> WithRd("Jal", insn, get_j_type_imm(insn))
          [] opcode = \b1100111 -> WithRs1("Jalr", insn)
          [] opcode = \b1100011 ->
                Typed("Branch", insn, BranchType(funct3), get_b_type_imm(insn))
          [] opcode = \b0000011 ->
                [op |-> "Load", type |-> MemAccessType(funct3), imm |-> get_i_type_imm(insn),
                 rs1 |-> get_rs1(insn), rd |-> get_rd(insn)]
          [] opcode = \b0100011 ->
                Typed("Store", insn, MemAccessType(funct3), get_s_type_imm(insn))
          [] opcode = \b0010011 -> OpImmOf(insn)
          [] opcode = \b0110011 -> Registers3("Op", insn)
          [] opcode = \b0001111 -> [op |-> "MiscMem", type |-> MiscMemType(funct3)]
          [] opcode = \b1110011 -> SystemOf(insn)
          [] opcode = \b0011011 -> OpImm32Of(insn)
          [] opcode = \b0111011 -> Registers3("Op32", insn)
          [] opcode = \b0000111 -> WithRs1("LoadFp", insn)
          [] opcode = \b0100111 ->
                [op |-> "StoreFp", imm |-> get_s_type_imm(insn),
                 rs1 |-> get_rs1(insn), rs2 |-> get_rs2(insn)]
          [] opcode = \b1000011 -> FmaFpOf(insn, "MAdd")
          [] opcode = \b1000111 -> FmaFpOf(insn, "MSub")
          [] opcode = \b1001011 -> FmaFpOf(insn, "NmSub")
          [] opcode = \b1001111 -> FmaFpOf(insn, "NmAdd")
          [] opcode = \b1010011 -> OpFpOf(insn)
          [] OTHER              -> InvalidWord
=============================================================================
