---------------------------- MODULE MCExecutor ----------------------------
(***************************************************************************)
(* Instances of Executor for TLC.  Each run gives the hart two words of    *)
(* memory to execute in, two integer registers and the instructions that   *)
(* exercise one part of the machine, in any order and number.              *)
(***************************************************************************)
EXTENDS Executor

\* Sixteen bytes from 0x80000000 (bit 31).
MCAddrs == {{31} \cup o : o \in SUBSET (0 .. 2)}
MCAddrs16 == {{31} \cup o : o \in SUBSET (0 .. 3)}
Base == {31}

Zeroes == [n \in StoredCsrs |-> {}]
\* What the stack might have held: bits no write can clear, unaligned addresses.
Junk == [Zeroes EXCEPT !["fcsr"] = {0, 9}, !["mepc"] = {31, 1},
                       !["mtvec"] = {31, 0}, !["mhartid"] = {5}]
MCZeroBoot == {Zeroes}
MCJunkBoot == {Zeroes, Junk}

MCBlank == {[a \in RamAddrs |-> {}]}
MCEntries == {Base}
MCNoResults == {}

\* Two's complement of a small negative number: minus 2^n.
Minus2To(n) == n .. 63

LuiI(rd, imm) == [op |-> "Lui", imm |-> imm, rd |-> rd]
AuipcI(rd, imm) == [op |-> "Auipc", imm |-> imm, rd |-> rd]
JalI(rd, imm) == [op |-> "Jal", imm |-> imm, rd |-> rd]
JalrI(rd, rs1, imm) == [op |-> "Jalr", imm |-> imm, rs1 |-> rs1, rd |-> rd]
BranchI(type, rs1, rs2, imm) ==
    [op |-> "Branch", type |-> type, imm |-> imm, rs1 |-> rs1, rs2 |-> rs2]
LoadI(type, rd, rs1, imm) ==
    [op |-> "Load", type |-> type, imm |-> imm, rs1 |-> rs1, rd |-> rd]
StoreI(type, rs2, rs1, imm) ==
    [op |-> "Store", type |-> type, imm |-> imm, rs1 |-> rs1, rs2 |-> rs2]
OpImmI(op, type, rd, rs1, imm) ==
    [op |-> op, type |-> type, imm |-> imm, rs1 |-> rs1, rd |-> rd]
OpI(op, type, rd, rs1, rs2) ==
    [op |-> op, type |-> type, rs1 |-> rs1, rs2 |-> rs2, rd |-> rd]
MiscMemI(type) == [op |-> "MiscMem", type |-> type]
SystemI(type) ==
    [op |-> "System", type |-> type, csr |-> "unimplemented", rs1 |-> 0, uimm |-> {}, rd |-> 0]
CsrI(type, rd, csr, rs1) ==
    [op |-> "System", type |-> type, csr |-> csr, rs1 |-> rs1, uimm |-> {}, rd |-> rd]
CsrImmI(type, rd, csr, uimm) ==
    [op |-> "System", type |-> type, csr |-> csr, rs1 |-> 0, uimm |-> uimm, rd |-> rd]
LoadFpI(rd, rs1, imm) == [op |-> "LoadFp", imm |-> imm, rs1 |-> rs1, rd |-> rd]
StoreFpI(rs2, rs1, imm) == [op |-> "StoreFp", imm |-> imm, rs1 |-> rs1, rs2 |-> rs2]
OpFpI(type, rm, d, s1, s2) ==
    [op |-> "OpFp", type |-> type, rm |-> rm, fs1 |-> s1, fs2 |-> s2, rs1 |-> s1,
     rd |-> d, fd |-> d]
FmaI(type, rm, d, s1, s2, s3) ==
    [op |-> "FmaFp", type |-> type, rm |-> rm, fs1 |-> s1, fs2 |-> s2, fs3 |-> s3, fd |-> d]

-----------------------------------------------------------------------------
\* Traps, returns and the registers they go through.
PrivInsns ==
    {OpImmI("OpImm", "Add", 1, 0, {3, 7}),          \* MIE, MPIE
     OpImmI("OpImm", "Add", 1, 0, Minus2To(11)),    \* every other field
     LuiI(1, {12}),                                 \* the upper bit of MPP
     AuipcI(1, {}),                                 \* this pc
     CsrI("Csrrw", 0, "mstatus", 1), CsrI("Csrrc", 0, "mstatus", 1),
     CsrI("Csrrw", 0, "mepc", 1), CsrI("Csrrw", 0, "mtvec", 1),
     CsrI("Csrrs", 0, "mhartid", 1),
     CsrI("Csrrw", 0, "unimplemented", 0),
     SystemI("Mret"), SystemI("Ecall"), SystemI("Ebreak"),
     JalI(0, Minus2To(2))}

-----------------------------------------------------------------------------
\* Floating-point state: flags, rounding modes, the dirty mark.
MCFpResults == {[value |-> {}, flags |-> {}],
                [value |-> {31}, flags |-> {0}]}
MCFpToIntResults == {[value |-> {}, flags |-> {}], [value |-> {0}, flags |-> {4}]}

FpInsns ==
    {OpFpI("Add", {}, 0, 0, 0), OpFpI("Mul", Dynamic, 0, 0, 0),
     OpFpI("Div", {0, 2}, 0, 0, 0), OpFpI("Min", {}, 0, 0, 0),
     OpFpI("Sgnjn", {0}, 0, 0, 0), OpFpI("Lt", {0}, 1, 0, 0),
     OpFpI("CvtLFromS", Dynamic, 1, 0, 0), OpFpI("Class", {0}, 1, 0, 0),
     OpFpI("MoveToX", {}, 1, 0, 0), OpFpI("MoveFromX", {}, 0, 1, 0),
     FmaI("NmSub", Dynamic, 0, 0, 0, 0), FmaI("MAdd", {1, 2}, 0, 0, 0, 0),
     CsrI("Csrrw", 0, "fcsr", 1), CsrI("Csrrs", 1, "frm", 0), CsrI("Csrrc", 0, "fflags", 1),
     CsrImmI("Csrrwi", 0, "frm", {0, 2}), CsrImmI("Csrrci", 0, "fcsr", {2}),
     CsrI("Csrrw", 0, "mstatus", 0),
     JalI(0, Minus2To(2))}

-----------------------------------------------------------------------------
\* Instructions that meet an assertion or contradict a comment.
JumpInsns ==
    {AuipcI(1, {}), JalrI(0, 1, {1}), JalI(0, {2}), JalI(0, Minus2To(2))}

FloatAccessInsns ==
    {AuipcI(1, {}), OpImmI("OpImm", "Or", 1, 1, {0}), JalI(0, Minus2To(2)),
     LoadI("W", 0, 1, {}), StoreI("W", 1, 1, {}), LoadFpI(0, 1, {}), StoreFpI(0, 1, {})}

ClearInsns ==
    {OpImmI("OpImm", "Add", 1, 0, Minus2To(11)), JalI(0, Minus2To(2)),
     CsrI("Csrrw", 0, "mscratch", 1), CsrI("Csrrc", 0, "mscratch", 1),
     CsrImmI("Csrrsi", 0, "mscratch", {0}), CsrImmI("Csrrci", 0, "mscratch", {0})}

DynamicInsns ==
    {CsrImmI("Csrrwi", 0, "frm", {}), OpFpI("Add", Dynamic, 0, 0, 0),
     OpFpI("Sgnj", {}, 0, 0, 0), JalI(0, Minus2To(2))}
=============================================================================
