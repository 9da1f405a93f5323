--------------------------- MODULE Executor_proofs ---------------------------
(***************************************************************************)
(* What holds of Executor for every set of instructions, every initial     *)
(* memory, every content of the uninitialized registers and every result   *)
(* the arithmetic units may return.                                        *)
(***************************************************************************)
EXTENDS Executor, Words_proofs

-----------------------------------------------------------------------------
\* OP and OP-IMM write register values.
LEMMA OpResultType ==
    ASSUME NEW type \in OpTypes, NEW a \in Word, NEW b \in Word
    PROVE  OpResult(type, a, b) \in Word
  <1>1. CASE type \in {"Add", "Sub"}
    BY <1>1, PlusType, MinusType DEF OpResult
  <1>2. CASE type \in {"Slt", "Sltu"}
    <2>1. \A p : BoolWord(p) \in Word
      BY WidthFacts DEF BoolWord, Word, Bits
    <2> QED  BY <1>2, <2>1 DEF OpResult
  <1>3. CASE type \in {"Xor", "Or", "And"}
    BY <1>3 DEF OpResult, Xor, Word
  <1>4. CASE type \in {"Sll", "Srl"}
    BY <1>4, ShiftType DEF OpResult
  <1>5. CASE type = "Sra"
    BY <1>5, SraInType DEF OpResult, Word, Low, Bits
  <1> QED  BY <1>1, <1>2, <1>3, <1>4, <1>5 DEF OpTypes, OpImmTypes

\* OP-IMM-32 and OP-32 write sign-extended words, however far they shift.
LEMMA OpImm32ResultType ==
    ASSUME NEW type, NEW a, NEW imm
    PROVE  OpImm32Result(type, a, imm) \in Word
  BY WidthFacts, SextType DEF OpImm32Result

\* Every result that the compiler may give an OP-32 is a register value.
LEMMA Op32ResultsType ==
    ASSUME NEW type \in Op32Types, NEW a, NEW b
    PROVE  Op32Results(type, a, b) \subseteq Word
  <1> DEFINE x == a \cap Low(WLEN)
             shamt == Amount(b \cap Low(WLEN), SHBITS)
             amounts == IF shamt < WLEN THEN {shamt} ELSE {shamt % WLEN, shamt}
  <1>1. \A w : Sext(w, WLEN) \in Word
    BY WidthFacts, SextType
  <1>2. CASE type \in {"Add", "Sub"}
    BY <1>1, <1>2 DEF Op32Results
  <1>3. CASE type \notin {"Add", "Sub"}
    <2>1. Op32Results(type, a, b) = {Sext(Shift32(type, x, n), WLEN) : n \in amounts}
      BY <1>3, SMTT(20) DEF Op32Results
    <2> HIDE DEF amounts, x
    <2> QED  BY <1>1, <2>1
  <1> QED  BY <1>2, <1>3

-----------------------------------------------------------------------------
\* Masks and widths are those of a 64-bit machine.
LEMMA WordFacts ==
    /\ XLEN = 64 /\ WLEN = 32 /\ Bits = 0 .. 63 /\ Word = SUBSET (0 .. 63)
    /\ HalfWord = SUBSET (0 .. 31) /\ HalfWord \subseteq Word
    /\ {} \in Word /\ {} \in HalfWord
  BY CoreAssumption DEF Bits, Word, HalfWord, Low

\* Reading a register gives a register value.
LEMMA GetCsrType ==
    ASSUME NEW c \in [StoredCsrs -> Word], NEW name \in CsrNames
    PROVE  GetCsr(c, name) \in Word
  <1>1. CASE name = "fflags"
    BY <1>1 DEF GetCsr, StoredCsrs, Word
  <1>2. CASE name = "frm"
    BY <1>2, ShiftType DEF GetCsr
  <1>3. CASE name \in StoredCsrs
    BY <1>3 DEF GetCsr, StoredCsrs
  <1> QED  BY <1>1, <1>2, <1>3 DEF CsrNames

\* The masks of mstatus select bits of a register.
LEMMA LegalMstatusType ==
    ASSUME NEW old \in Word, NEW v \in Word
    PROVE  LegalMstatus(old, v) \in Word
  <1>1. SD \in Word
    BY WordFacts DEF SD
  <1> QED  BY <1>1 DEF LegalMstatus, Word

\* set_csr stores register values, whichever register it is asked for.
LEMMA SetCsrType ==
    ASSUME NEW c \in [StoredCsrs -> Word], NEW name, NEW v \in Word
    PROVE  SetCsr(c, name, v) \in [StoredCsrs -> Word]
  <1>0. "fcsr" \in StoredCsrs /\ "mstatus" \in StoredCsrs
    BY DEF StoredCsrs
  <1>1. CASE name = "fflags"
    <2>1. (c["fcsr"] \ Fflags) \cup (v \cap Fflags) \in Word
      BY <1>0 DEF Word
    <2> QED  BY <1>0, <1>1, <2>1 DEF SetCsr
  <1>2. CASE name = "frm"
    <2>1. (c["fcsr"] \ Frm) \cup Sll(v \cap Low(3), 5) \in Word
      BY <1>0, ShiftType DEF Word
    <2> QED  BY <1>0, <1>2, <2>1 DEF SetCsr
  <1>3. CASE name = "fcsr"
    <2>1. v \cap Low(8) \in Word
      BY DEF Word
    <2> QED  BY <1>0, <1>3, <2>1 DEF SetCsr
  <1>4. CASE name = "mstatus"
    <2>1. LegalMstatus(c["mstatus"], v) \in Word
      BY <1>0, LegalMstatusType
    <2> QED  BY <1>0, <1>4, <2>1 DEF SetCsr
  <1>5. CASE name \in {"mepc", "mtvec"}
    <2>1. v \ {0, 1} \in Word
      BY DEF Word
    <2> QED  BY <1>5, <2>1 DEF SetCsr
  <1>6. CASE name \notin {"fflags", "frm", "fcsr", "mstatus", "mepc", "mtvec"}
    BY <1>6 DEF SetCsr
  <1> QED  BY <1>1, <1>2, <1>3, <1>4, <1>5, <1>6

-----------------------------------------------------------------------------
\* The op field tells the records of DecodedInsn apart.
LEMMA InsnByOp ==
    ASSUME NEW insn \in Insns
    PROVE  /\ insn.op = "Lui" => insn \in LuiInsn
           /\ insn.op = "Auipc" => insn \in AuipcInsn
           /\ insn.op = "Jal" => insn \in JalInsn
           /\ insn.op = "Jalr" => insn \in JalrInsn
           /\ insn.op = "Branch" => insn \in BranchInsn
           /\ insn.op = "Load" => insn \in LoadInsn
           /\ insn.op = "Store" => insn \in StoreInsn
           /\ insn.op = "OpImm" => insn \in OpImmInsn
           /\ insn.op = "Op" => insn \in OpInsn
           /\ insn.op = "MiscMem" => insn \in MiscMemInsn
           /\ insn.op = "System" => insn \in SystemInsn
           /\ insn.op = "OpImm32" => insn \in OpImm32Insn
           /\ insn.op = "Op32" => insn \in Op32Insn
           /\ insn.op = "LoadFp" => insn \in LoadFpInsn
           /\ insn.op = "StoreFp" => insn \in StoreFpInsn
           /\ insn.op = "OpFp" => insn \in OpFpInsn
           /\ insn.op = "FmaFp" => insn \in FmaFpInsn
           /\ insn.op \in {"Lui", "Auipc", "Jal", "Jalr", "Branch", "Load", "Store",
                           "OpImm", "Op", "MiscMem", "System", "OpImm32", "Op32",
                           "LoadFp", "StoreFp", "OpFp", "FmaFp", "Invalid"}
  <1>1. insn \in DecodedInsn
    BY ExecutorAssumption
  <1> QED  BY <1>1 DEF DecodedInsn, LuiInsn, AuipcInsn, JalInsn, JalrInsn, BranchInsn,
               LoadInsn, StoreInsn, OpImmInsn, OpInsn, MiscMemInsn, SystemInsn,
               OpImm32Insn, Op32Insn, LoadFpInsn, StoreFpInsn, OpFpInsn, FmaFpInsn,
               InvalidInsn

\* The steps the overloads build on: the default one, and those with one
\* destination register.
LEMMA FallthroughType ==
    ASSUME TypeOK
    PROVE  Fallthrough \in NormalStep
  BY WordFacts, PlusType DEF Fallthrough, NormalStep, MemAccess, NoAccess, TypeOK, CoreTypeOK

LEMMA WriteXType ==
    ASSUME TypeOK, NEW rd \in XRegs, NEW v \in Word
    PROVE  WriteX(rd, v) \in NormalStep
  BY FallthroughType DEF WriteX, NormalStep

LEMMA WriteFType ==
    ASSUME TypeOK, NEW fd \in FRegs, NEW v \in HalfWord
    PROVE  WriteF(fd, v) \in NormalStep
  BY FallthroughType DEF WriteF, NormalStep

\* The results of integer computation and control transfer.
LEMMA IntegerType ==
    ASSUME TypeOK, NEW insn \in Insns,
           insn.op \in {"Lui", "Auipc", "Jal", "Jalr", "Branch", "OpImm", "Op",
                        "MiscMem", "OpImm32", "Op32"}
    PROVE  Execute(insn) \subseteq StepResult
  <1> USE DEF StepResult
  <1>0. /\ pc \in Word /\ gprs \in [XRegs -> Word] /\ Fallthrough \in NormalStep
        /\ Aborted \in StepResult
    BY FallthroughType DEF TypeOK, CoreTypeOK, Aborted, Fault
  <1>1. CASE insn.op = "Lui"
    BY <1>1, InsnByOp, WriteXType DEF Execute, ExecuteLui, LuiInsn
  <1>2. CASE insn.op = "Auipc"
    BY <1>2, InsnByOp, WriteXType, PlusType DEF Execute, ExecuteAuipc, AuipcInsn
  <1>3. CASE insn.op = "Jal"
    <2>1. WriteX(insn.rd, Plus(pc, {2})) \in NormalStep
      BY <1>3, InsnByOp, WriteXType, PlusType DEF JalInsn
    <2> QED  BY <1>3, <2>1, PlusType DEF Execute, ExecuteJal, NormalStep
  <1>4. CASE insn.op = "Jalr"
    <2>1. WriteX(insn.rd, Plus(pc, {2})) \in NormalStep
      BY <1>4, InsnByOp, WriteXType, PlusType DEF JalrInsn
    <2> QED  BY <1>4, <2>1, PlusType DEF Execute, ExecuteJalr, NormalStep
  <1>5. CASE insn.op = "Branch"
    BY <1>0, <1>5, PlusType DEF Execute, ExecuteBranch, NormalStep
  <1>6. CASE insn.op = "OpImm"
    <2>1. insn \in OpImmInsn
      BY <1>6, InsnByOp
    <2>2. insn.type \in OpImmTypes =>
             OpResult(insn.type, gprs[insn.rs1], insn.imm) \in Word
      BY <1>0, <2>1, OpResultType DEF OpImmInsn, OpTypes
    <2> QED  BY <1>0, <1>6, <2>1, <2>2, WriteXType DEF Execute, ExecuteOpImm, OpImmInsn
  <1>7. CASE insn.op = "Op"
    <2>1. insn \in OpInsn
      BY <1>7, InsnByOp
    <2>2. insn.type \in OpTypes =>
             OpResult(insn.type, gprs[insn.rs1], gprs[insn.rs2]) \in Word
      BY <1>0, <2>1, OpResultType DEF OpInsn
    <2> QED  BY <1>0, <1>7, <2>1, <2>2, WriteXType, ExecutorAssumption
             DEF Execute, ExecuteOp, OpInsn
  <1>8. CASE insn.op = "MiscMem"
    BY <1>0, <1>8 DEF Execute, ExecuteMiscMem
  <1>9. CASE insn.op = "OpImm32"
    BY <1>0, <1>9, InsnByOp, WriteXType, OpImm32ResultType
    DEF Execute, ExecuteOpImm32, OpImm32Insn
  <1>10. CASE insn.op = "Op32"
    <2>1. insn \in Op32Insn
      BY <1>10, InsnByOp
    <2>2. insn.type \in Op32Types =>
             Op32Results(insn.type, gprs[insn.rs1], gprs[insn.rs2]) \subseteq Word
      BY Op32ResultsType
    <2>3. \A v \in MulDivResults : Sext(v, WLEN) \in Word
      BY SextType, WidthFacts
    <2> QED  BY <1>0, <1>10, <2>1, <2>2, <2>3, WriteXType DEF Execute, ExecuteOp32, Op32Insn
  <1> QED  BY <1>1, <1>2, <1>3, <1>4, <1>5, <1>6, <1>7, <1>8, <1>9, <1>10

-----------------------------------------------------------------------------
\* An access ends in one of three ways.
LEMMA OutcomeType ==
    \A addr, size : AccessOutcome(addr, size) \in {"ok", "aborted", "undefined"}
  BY DEF AccessOutcome

\* What get_* assembles from bytes fits the access, and what a load makes of
\* it fits a register.
LEMMA GetType ==
    ASSUME NEW addr, NEW size \in AccessSizes
    PROVE  Get(mem, addr, size) \in SUBSET (0 .. 8 * size - 1)
  BY DEF Get, Low

LEMMA LoadValueType ==
    ASSUME NEW type \in LoadTypes, NEW addr
    PROVE  /\ SizeOf(type) \in AccessSizes
           /\ LoadValue(type, Get(mem, addr, SizeOf(type))) \in Word
  <1>1. SizeOf(type) \in AccessSizes
    BY DEF SizeOf, AccessSizes, LoadTypes
  <1>2. 8 * SizeOf(type) \in Nat /\ 8 * SizeOf(type) <= XLEN
    BY <1>1, WordFacts DEF AccessSizes
  <1>3. Get(mem, addr, SizeOf(type)) \in Word
    BY <1>1, <1>2, GetType, WordFacts DEF AccessSizes
  <1> QED  BY <1>1, <1>2, <1>3, SextType DEF LoadValue

\* Loads and stores of the integer registers.
LEMMA MemoryType ==
    ASSUME TypeOK, NEW insn \in Insns, insn.op \in {"Load", "Store", "LoadFp", "StoreFp"}
    PROVE  Execute(insn) \subseteq StepResult
  <1> USE DEF StepResult
  <1>0. /\ gprs \in [XRegs -> Word] /\ fprs \in [FRegs -> HalfWord]
        /\ Fallthrough \in NormalStep /\ Aborted \in StepResult
    BY FallthroughType DEF TypeOK, CoreTypeOK, Aborted, Fault
  <1>a. \A addr, size : AccessOutcome(addr, size) # "ok" =>
                           [kind |-> AccessOutcome(addr, size)] \in StepResult
    BY OutcomeType DEF Fault
  <1>b. \A addr \in Word : /\ Trap({2}, addr) \in StepResult
                           /\ Trap({1, 2}, addr) \in StepResult
    BY WordFacts DEF Trap, Exception
  <1>1. CASE insn.op = "Load"
    <2> DEFINE addr == Plus(gprs[insn.rs1], insn.imm)
               size == SizeOf(insn.type)
               data == LoadValue(insn.type, Get(mem, addr, size))
    <2>1. insn \in LoadInsn
      BY <1>1, InsnByOp
    <2>2. addr \in Word
      BY PlusType
    <2>3. CASE insn.type \in LoadTypes
      <3>1. size \in AccessSizes /\ data \in Word
        BY <2>3, LoadValueType
      <3>2. WriteX(insn.rd, data) \in NormalStep
        BY <2>1, <3>1, WriteXType DEF LoadInsn
      <3>3. [addr |-> addr, value |-> data, size |-> size] \in MemAccess
        BY <2>2, <3>1 DEF MemAccess
      <3> HIDE DEF addr, size, data
      <3>4. [WriteX(insn.rd, data) EXCEPT
                !.read = [addr |-> addr, value |-> data, size |-> size]] \in NormalStep
        BY <3>2, <3>3 DEF NormalStep
      <3>5. Execute(insn) = ExecuteLoad(insn)
        BY <1>1 DEF Execute
      <3> QED  BY <1>0, <1>a, <1>b, <2>2, <3>4, <3>5 DEF ExecuteLoad, addr, size, data
    <2>4. CASE insn.type = "invalid"
      BY <1>0, <1>1, <2>4 DEF Execute, ExecuteLoad
    <2> QED  BY <2>1, <2>3, <2>4 DEF LoadInsn
  <1>2. CASE insn.op = "Store"
    <2> DEFINE addr == Plus(gprs[insn.rs1], insn.imm)
               size == SizeOf(insn.type)
               value == Zext(gprs[insn.rs2], 8 * size)
    <2>1. insn \in StoreInsn
      BY <1>2, InsnByOp
    <2>2. addr \in Word /\ value \in Word
      BY <1>0, <2>1, PlusType DEF StoreInsn, Zext, Word
    <2>3. CASE insn.type \in LoadTypes
      <3>1. size \in AccessSizes
        BY <2>3, LoadValueType
      <3>2. [addr |-> addr, value |-> value, size |-> size] \in MemAccess
        BY <2>2, <3>1 DEF MemAccess
      <3> HIDE DEF addr, size, value
      <3>3. [Fallthrough EXCEPT
                !.write = [addr |-> addr, value |-> value, size |-> size]] \in NormalStep
        BY <1>0, <3>2 DEF NormalStep
      <3>4. Execute(insn) = ExecuteStore(insn)
        BY <1>2 DEF Execute
      <3> QED  BY <1>0, <1>b, <2>2, <3>3, <3>4 DEF ExecuteStore, addr, size, value
    <2>4. CASE insn.type = "invalid"
      BY <1>0, <1>2, <2>4 DEF Execute, ExecuteStore
    <2> QED  BY <2>1, <2>3, <2>4 DEF StoreInsn
  <1>3. CASE insn.op = "LoadFp"
    <2> DEFINE addr == Plus(gprs[insn.rs1], insn.imm)
               data == Get(mem, addr, 4)
    <2>1. insn \in LoadFpInsn
      BY <1>3, InsnByOp
    <2>2. addr \in Word /\ data \in HalfWord /\ data \in Word
      BY PlusType, GetType, WordFacts DEF AccessSizes
    <2>3. WriteF(insn.rd, data) \in NormalStep
      BY <2>1, <2>2, WriteFType DEF LoadFpInsn
    <2>4. [addr |-> addr, value |-> data, size |-> 4] \in MemAccess
      BY <2>2 DEF MemAccess, AccessSizes
    <2> HIDE DEF addr, data
    <2>5. [WriteF(insn.rd, data) EXCEPT
              !.read = [addr |-> addr, value |-> data, size |-> 4]] \in NormalStep
      BY <2>3, <2>4 DEF NormalStep
    <2>6. Execute(insn) = ExecuteLoadFp(insn)
      BY <1>3 DEF Execute
    <2> QED  BY <1>a, <2>5, <2>6 DEF ExecuteLoadFp, addr, data
  <1>4. CASE insn.op = "StoreFp"
    <2>1. insn \in StoreFpInsn
      BY <1>4, InsnByOp
    <2>2. [addr |-> Plus(gprs[insn.rs1], insn.imm), value |-> fprs[insn.rs2], size |-> 4]
             \in MemAccess
      BY <1>0, <2>1, PlusType, WordFacts DEF StoreFpInsn, MemAccess, AccessSizes
    <2> QED  BY <1>0, <1>4, <2>2 DEF Execute, ExecuteStoreFp, NormalStep
  <1> QED  BY <1>1, <1>2, <1>3, <1>4

-----------------------------------------------------------------------------
\* The privilege that mstatus.MPP encodes.
LEMMA PreviousPrivilege ==
    \A m : Srl(m \cap MPP, 11) \in PrivilegeBits
  BY WordFacts DEF Srl, MPP, PrivilegeBits

\* CSR instructions, returns and environment calls.
LEMMA SystemResultType ==
    ASSUME TypeOK, NEW insn \in Insns, insn.op = "System"
    PROVE  Execute(insn) \subseteq StepResult
  <1> USE DEF StepResult
  <1>0. /\ gprs \in [XRegs -> Word] /\ csrs \in [StoredCsrs -> Word]
        /\ Fallthrough \in NormalStep /\ Aborted \in StepResult
    BY FallthroughType DEF TypeOK, CoreTypeOK, Aborted, Fault
  <1>1. Execute(insn) = ExecuteSystem(insn)
    BY DEF Execute
  <1>2. insn \in SystemInsn
    BY InsnByOp
  <1>3. \A m \in SUBSET (0 .. 3) : Trap(m, {}) \in StepResult
    BY WordFacts DEF Trap, Exception
  <1>4. CASE insn.type \in CsrInsnTypes
    <2> DEFINE old == GetCsr(csrs, insn.csr)
    <2>0. ExecuteSystem(insn) = ExecuteCsr(insn)
      BY <1>4 DEF ExecuteSystem, CsrInsnTypes
    <2>1. CASE insn.csr \notin CsrNames
      BY <1>1, <1>3, <2>0, <2>1 DEF ExecuteCsr, HasCsr
    <2>2. CASE insn.csr \in CsrNames
      <3>1. old \in Word
        BY <1>0, <2>2, GetCsrType
      <3>2. WriteX(insn.rd, old) \in NormalStep
        BY <1>2, <3>1, WriteXType DEF SystemInsn
      <3>3. NewCsrValue(insn, old) \in Word
        <4>1. gprs[insn.rs1] \in Word /\ insn.uimm \in Word
          BY <1>0, <1>2, WordFacts DEF SystemInsn, Low
        <4> HIDE DEF old
        <4> QED  BY <1>4, <3>1, <4>1 DEF NewCsrValue, CsrInsnTypes, Word
      <3>4. [WriteX(insn.rd, old) EXCEPT
                !.csr = insn.csr, !.c = NewCsrValue(insn, old)] \in NormalStep
        <4> HIDE DEF old
        <4> QED  BY <2>2, <3>2, <3>3 DEF NormalStep
      <3> QED  BY <1>1, <2>0, <2>2, <3>2, <3>4 DEF ExecuteCsr, HasCsr
    <2> QED  BY <2>1, <2>2
  <1>5. CASE insn.type = "Mret"
    <2> DEFINE old == csrs["mstatus"]
    <2>1. ExecuteSystem(insn) = ExecuteMret
      BY <1>5 DEF ExecuteSystem, CsrInsnTypes
    <2>2. "mstatus" \in StoredCsrs /\ "mstatus" \in CsrNames /\ "mepc" \in CsrNames
      BY DEF StoredCsrs, CsrNames
    <2>3. old \in Word /\ GetCsr(csrs, "mepc") \in Word
      BY <1>0, <2>2, GetCsrType
    <2>4. MretMstatus(old) \in Word
      BY <2>3, WordFacts DEF MretMstatus, MIE, MPIE
    <2>5. Srl(old \cap MPP, 11) \in PrivilegeBits
      BY PreviousPrivilege
    <2> HIDE DEF old
    <2>6. [Fallthrough EXCEPT !.next_pc = GetCsr(csrs, "mepc"),
                              !.next_privilege = Srl(old \cap MPP, 11),
                              !.csr = "mstatus", !.c = MretMstatus(old)] \in NormalStep
      BY <1>0, <2>2, <2>3, <2>4, <2>5 DEF NormalStep
    <2> QED  BY <1>1, <2>1, <2>6 DEF ExecuteMret, old
  <1>6. CASE insn.type = "Ecall"
    <2>1. ExecuteSystem(insn) = ExecuteEcall
      BY <1>6 DEF ExecuteSystem, CsrInsnTypes
    <2> QED  BY <1>0, <1>1, <1>3, <2>1 DEF ExecuteEcall
  <1>7. CASE insn.type \notin CsrInsnTypes \cup {"Mret", "Ecall"}
    BY <1>0, <1>1, <1>7 DEF ExecuteSystem
  <1> QED  BY <1>4, <1>5, <1>6, <1>7

-----------------------------------------------------------------------------
\* A step that accrues flags is still a step.
LEMMA AccrueType ==
    ASSUME TypeOK, NEW s \in NormalStep, NEW flags \in SUBSET Fflags
    PROVE  Accrue(s, flags) \in NormalStep
  <1>1. "fflags" \in CsrNames
    BY DEF CsrNames
  <1>2. GetCsr(csrs, "fflags") \in Word
    BY <1>1, GetCsrType DEF TypeOK, CoreTypeOK
  <1>3. GetCsr(csrs, "fflags") \cup flags \in Word
    <2>1. \A i \in flags : i \in 0 .. 63
      BY DEF Fflags, Low
    <2> QED  BY <1>2, <2>1, WordFacts
  <1> QED  BY <1>1, <1>3 DEF Accrue, NormalStep

\* Floating-point operations.
LEMMA FpType ==
    ASSUME TypeOK, NEW insn \in Insns, insn.op \in {"OpFp", "FmaFp"}
    PROVE  Execute(insn) \subseteq StepResult
  <1> USE DEF StepResult
  <1>0. /\ gprs \in [XRegs -> Word] /\ fprs \in [FRegs -> HalfWord]
        /\ Aborted \in StepResult
    BY DEF TypeOK, CoreTypeOK, Aborted, Fault
  <1>a. \A fd \in FRegs : \A r \in FpResults :
           Accrue(WriteF(fd, r.value), r.flags) \in NormalStep
    BY AccrueType, WriteFType, ExecutorAssumption
  <1>1. CASE insn.op = "OpFp"
    <2>1. insn \in OpFpInsn
      BY <1>1, InsnByOp
    <2>2. /\ insn.fd \in FRegs /\ insn.rd \in XRegs /\ insn.type \in OpFpTypes
          /\ fprs[insn.fs1] \in HalfWord /\ fprs[insn.fs2] \in HalfWord
          /\ gprs[insn.rs1] \in Word
      BY <1>0, <2>1 DEF OpFpInsn
    <2>3. OpFpResults(insn) \subseteq StepResult
      <3>1. CASE insn.type \in RoundingTypes \cup MinMaxTypes
        <4>1. OpFpResults(insn) =
                 {Accrue(WriteF(insn.fd, r.value), r.flags) : r \in FpResults}
          BY <3>1 DEF OpFpResults, FpToIntTypes, RoundingTypes, MinMaxTypes, SgnjTypes
        <4> QED  BY <1>a, <2>2, <4>1
      <3>2. CASE insn.type \in FpToIntTypes
        <4>1. \A r \in FpToIntResults :
                 Accrue(WriteX(insn.rd, r.value), r.flags) \in NormalStep
          BY <2>2, AccrueType, WriteXType, ExecutorAssumption
        <4>2. OpFpResults(insn) =
                 {Accrue(WriteX(insn.rd, r.value), r.flags) : r \in FpToIntResults}
          <5>1. insn.type \notin RoundingTypes \cup MinMaxTypes
            BY <3>2 DEF FpToIntTypes, RoundingTypes, MinMaxTypes
          <5>2. insn.type \notin SgnjTypes \cup {"Class", "MoveToX", "MoveFromX"}
            BY <3>2 DEF FpToIntTypes, SgnjTypes
          <5> QED  BY <3>2, <5>1, <5>2 DEF OpFpResults
        <4> QED  BY <4>1, <4>2
      <3>3. CASE insn.type \in SgnjTypes
        <4>1. InjectSign(insn.type, fprs[insn.fs1], fprs[insn.fs2]) \in HalfWord
          BY <2>2, WordFacts DEF InjectSign
        <4>2. WriteF(insn.fd, InjectSign(insn.type, fprs[insn.fs1], fprs[insn.fs2]))
                 \in NormalStep
          BY <2>2, <4>1, WriteFType
        <4>3. OpFpResults(insn) =
                 {WriteF(insn.fd, InjectSign(insn.type, fprs[insn.fs1], fprs[insn.fs2]))}
          BY <3>3 DEF OpFpResults, FpToIntTypes, RoundingTypes, MinMaxTypes, SgnjTypes
        <4> QED  BY <4>2, <4>3
      <3>4. CASE insn.type = "Class"
        <4>1. FpClassBit(fprs[insn.fs1]) \in 0 .. 9
          BY DEF FpClassBit
        <4>2. WriteX(insn.rd, {FpClassBit(fprs[insn.fs1])}) \in NormalStep
          BY <2>2, <4>1, WriteXType, WordFacts
        <4> QED  BY <3>4, <4>2
                 DEF OpFpResults, FpToIntTypes, RoundingTypes, MinMaxTypes, SgnjTypes
      <3>5. CASE insn.type = "MoveToX"
        <4>1. WriteX(insn.rd, Sext(fprs[insn.fs1], 32)) \in NormalStep
          BY <2>2, WriteXType, SextType, WordFacts
        <4> QED  BY <3>5, <4>1
                 DEF OpFpResults, FpToIntTypes, RoundingTypes, MinMaxTypes, SgnjTypes
      <3>6. CASE insn.type = "MoveFromX"
        <4>1. WriteF(insn.fd, Zext(gprs[insn.rs1], 32)) \in NormalStep
          BY <2>2, WriteFType, WordFacts DEF Zext, Low
        <4> QED  BY <3>6, <4>1
                 DEF OpFpResults, FpToIntTypes, RoundingTypes, MinMaxTypes, SgnjTypes
      <3> QED  BY <2>2, <3>1, <3>2, <3>3, <3>4, <3>5, <3>6 DEF OpFpTypes
    <2>4. Execute(insn) = ExecuteOpFp(insn)
      BY <1>1 DEF Execute
    <2> QED  BY <1>0, <2>3, <2>4 DEF ExecuteOpFp
  <1>2. CASE insn.op = "FmaFp"
    <2>1. insn.fd \in FRegs
      BY <1>2, InsnByOp DEF FmaFpInsn
    <2>2. Execute(insn) = ExecuteFmaFp(insn)
      BY <1>2 DEF Execute
    <2> QED  BY <1>0, <1>a, <2>1, <2>2 DEF ExecuteFmaFp
  <1> QED  BY <1>1, <1>2

\* Every overload returns a StepResult, whatever the instruction and the state.
LEMMA ExecuteType ==
    ASSUME TypeOK, NEW insn \in Insns
    PROVE  Execute(insn) \subseteq StepResult
  <1>1. CASE insn.op = "Invalid"
    BY <1>1 DEF Execute, StepResult, Aborted, Fault
  <1> QED  BY <1>1, IntegerType, MemoryType, SystemResultType, FpType, InsnByOp

-----------------------------------------------------------------------------
\* The registers a step leaves behind hold register values.
LEMMA WrittenCsrsType ==
    ASSUME TypeOK, NEW s \in NormalStep
    PROVE  WrittenCsrs(s) \in [StoredCsrs -> Word]
  <1>1. csrs \in [StoredCsrs -> Word] /\ s.c \in Word
    BY DEF TypeOK, CoreTypeOK, NormalStep
  <1>2. s.c \cap Fflags \in Word /\ Srl(s.c, 5) \cap Low(3) \in Word
    BY <1>1, ShiftType DEF Word
  <1>3. SetCsr(csrs, "fflags", s.c \cap Fflags) \in [StoredCsrs -> Word]
    BY <1>1, <1>2, SetCsrType
  <1>4. SetCsr(SetCsr(csrs, "fflags", s.c \cap Fflags), "frm", Srl(s.c, 5) \cap Low(3))
           \in [StoredCsrs -> Word]
    BY <1>2, <1>3, SetCsrType
  <1>5. SetCsr(csrs, s.csr, s.c) \in [StoredCsrs -> Word]
    BY <1>1, SetCsrType
  <1> QED  BY <1>1, <1>4, <1>5 DEF WrittenCsrs

LEMMA NextCsrsType ==
    ASSUME TypeOK, NEW s \in NormalStep
    PROVE  NextCsrs(s) \in [StoredCsrs -> Word]
  <1>1. csrs["mstatus"] \in Word
    BY DEF TypeOK, CoreTypeOK, StoredCsrs
  <1>2. (csrs["mstatus"] \ FS) \cup FS_DIRTY \in Word
    BY <1>1, WordFacts DEF FS, FS_DIRTY
  <1> QED  BY <1>2, WrittenCsrsType, SetCsrType DEF NextCsrs

LEMMA NextRegistersType ==
    ASSUME TypeOK, NEW s \in NormalStep
    PROVE  NextGprs(s) \in [XRegs -> Word] /\ NextFprs(s) \in [FRegs -> HalfWord]
  BY DEF NextGprs, NextFprs, NormalStep, TypeOK, CoreTypeOK

\* A store leaves bytes in memory.
LEMMA SetType ==
    ASSUME RamTypeOK, NEW addr, NEW size, NEW v
    PROVE  Set(mem, addr, size, v) \in [RamAddrs -> Byte]
  BY DEF Set, RamTypeOK, Byte

\* The mstatus a trap stores.
LEMMA TrapMstatusType ==
    ASSUME NEW old \in Word, NEW from
    PROVE  TrapMstatus(old, from) \in Word
  <1>1. Sll(from, 11) \in Word
    BY ShiftType
  <1>2. \A m \in Word : m \cup MPIE \in Word /\ m \cup SD \in Word
    BY WordFacts DEF MPIE, SD
  <1>3. \A m \in Word : \A fields : m \ fields \in Word
    BY DEF Word
  <1>4. \A m \in Word : ((m \ MIE) \ MPP) \cup Sll(from, 11) \in Word
    BY <1>1 DEF Word
  <1> DEFINE stacked == IF MIE \subseteq old THEN old \cup MPIE ELSE old \ MPIE
             sd == IF stacked \cap FS = FS_DIRTY THEN stacked \cup SD ELSE stacked \ SD
  <1>5. stacked \in Word
    BY <1>2, <1>3
  <1>6. sd \in Word
    <2> HIDE DEF stacked
    <2> QED  BY <1>2, <1>3, <1>5
  <1>7. TrapMstatus(old, from) = ((sd \ MIE) \ MPP) \cup Sll(from, 11)
    BY DEF TrapMstatus
  <1> HIDE DEF sd
  <1> QED  BY <1>4, <1>6, <1>7

-----------------------------------------------------------------------------
\* The three ends of an instruction preserve the types.
LEMMA RetireType ==
    ASSUME TypeOK, NEW s \in StepResult, Retire(s)
    PROVE  TypeOK'
  <1>1. s \in NormalStep
    BY DEF Retire, StepResult, Exception, Fault
  <1>2. pc' \in Word /\ priv' \in PrivilegeBits
    BY <1>1 DEF Retire, NormalStep
  <1>3. gprs' \in [XRegs -> Word] /\ fprs' \in [FRegs -> HalfWord]
    BY <1>1, NextRegistersType DEF Retire
  <1>4. csrs' \in [StoredCsrs -> Word]
    BY <1>1, NextCsrsType DEF Retire, TypeOK, CoreTypeOK
  <1>5. mem' \in [RamAddrs -> Byte]
    BY <1>1, SetType DEF Retire, NextMem, TypeOK, RamTypeOK
  <1>6. status' \in {"running", "aborted", "undefined"}
    BY OutcomeType DEF Retire, TypeOK, StoreOutcome
  <1> QED  BY <1>2, <1>3, <1>4, <1>5, <1>6 DEF TypeOK, CoreTypeOK, RamTypeOK

LEMMA TakeTrapType ==
    ASSUME TypeOK, NEW r \in StepResult, TakeTrap(r)
    PROVE  TypeOK'
  <1>1. r.mcause \in Word /\ r.mtval \in Word
    BY DEF TakeTrap, StepResult, Exception, NormalStep, Fault
  <1>2. csrs \in [StoredCsrs -> Word] /\ pc \in Word /\ csrs["mstatus"] \in Word
    BY DEF TypeOK, CoreTypeOK, StoredCsrs
  <1>3. csrs' \in [StoredCsrs -> Word]
    BY <1>1, <1>2, SetCsrType, TrapMstatusType DEF TakeTrap, TakeException
  <1>4. pc' \in Word
    <2>1. GetCsr(csrs', "mtvec") \in Word
      BY <1>3, GetCsrType DEF CsrNames, StoredCsrs
    <2> QED  BY <2>1 DEF TakeTrap, TakeException, Word
  <1>5. priv' \in PrivilegeBits
    BY DEF TakeTrap, TakeException, Machine, PrivilegeBits
  <1> QED  BY <1>3, <1>4, <1>5 DEF TakeTrap, TakeException, TypeOK, CoreTypeOK, RamTypeOK

LEMMA FailType ==
    ASSUME TypeOK, NEW r \in StepResult, Fail(r)
    PROVE  TypeOK'
  BY DEF Fail, TypeOK, CoreTypeOK, RamTypeOK

LEMMA StepType ==
    ASSUME TypeOK, NEW insn \in Insns, Step(insn)
    PROVE  TypeOK'
  <1>1. PICK r \in Execute(insn) : Finish(r)
    BY DEF Step
  <1>2. r \in StepResult
    BY ExecuteType
  <1> QED  BY <1>1, <1>2, RetireType, TakeTrapType, FailType DEF Finish

\* The machine stays well typed: no instruction leaves a value wider than
\* its register, a byte wider than eight bits, or a privilege of more than
\* two bits, whatever the uninitialized registers held at boot.
THEOREM TypeCorrect == Spec => []TypeOK
  <1>1. Init => TypeOK
    <2> SUFFICES ASSUME Init PROVE TypeOK
      OBVIOUS
    <2>1. PICK entry \in Entries : CoreInit(entry)
      BY DEF Init
    <2>2. pc \in Word /\ priv \in PrivilegeBits
      BY <2>1, ExecutorAssumption DEF CoreInit, Machine, PrivilegeBits
    <2>3. gprs \in [XRegs -> Word] /\ fprs \in [FRegs -> HalfWord]
      BY <2>1, WordFacts DEF CoreInit
    <2>4. csrs \in [StoredCsrs -> Word]
      <3>1. PICK garbage \in Boot : csrs = [garbage EXCEPT !["mstatus"] = UXL_RV64]
        BY <2>1 DEF CoreInit
      <3>2. garbage \in [StoredCsrs -> Word] /\ UXL_RV64 \in Word
        BY CoreAssumption, WordFacts DEF UXL_RV64
      <3> QED  BY <3>1, <3>2
    <2>5. mem \in [RamAddrs -> Byte]
      BY ExecutorAssumption DEF Init
    <2> QED  BY <2>2, <2>3, <2>4, <2>5 DEF Init, TypeOK, CoreTypeOK, RamTypeOK
  <1>2. TypeOK /\ [Next]_vars => TypeOK'
    <2> SUFFICES ASSUME TypeOK, [Next]_vars PROVE TypeOK'
      OBVIOUS
    <2>1. CASE \E insn \in Insns : Step(insn)
      BY <2>1, StepType
    <2>2. CASE FetchFault
      <3>1. AccessOutcome(pc, 4) \in {"aborted", "undefined"}
        BY <2>2, OutcomeType DEF FetchFault, Fetchable
      <3>2. status' \in {"running", "aborted", "undefined"}
        BY <2>2, <3>1 DEF FetchFault
      <3> QED  BY <2>2, <3>2 DEF FetchFault, TypeOK, CoreTypeOK, RamTypeOK
    <2>3. CASE UNCHANGED vars
      BY <2>3 DEF vars, TypeOK, CoreTypeOK, RamTypeOK
    <2> QED  BY <2>1, <2>2, <2>3 DEF Next, Ended
  <1> QED  BY <1>1, <1>2, PTL DEF Spec
=============================================================================
