------------------------------ MODULE Executor ------------------------------
(***************************************************************************)
(* The instruction semantics of execute.cpp.  Each execute overload is a   *)
(* function of the core and the memory that changes neither: it returns    *)
(* the effects of the instruction as a StepResult.  Executor::step applies *)
(* them.  The module keeps that division.  An Execute* operator is the set *)
(* of results its overload may return (more than one where the result      *)
(* comes from an arithmetic unit modelled elsewhere or from undefined      *)
(* behaviour), Step applies one of them, and Next executes any instruction *)
(* of Insns wherever main could have fetched one.                          *)
(***************************************************************************)
EXTENDS Core, Ram, Alu

CONSTANTS Insns,          \* the decoded instructions that may be executed
          Images,         \* the initial contents of the memory
          Entries,        \* the initial values of pc
          MulDivResults,  \* values MulDivUnit may return
          FpResults,      \* results Fpu may return for a float destination
          FpToIntResults  \* results Fpu may return for an integer destination

VARIABLE status           \* "running", or how the program ended

vars == <<pc, priv, gprs, fprs, csrs, mem, status>>

-----------------------------------------------------------------------------
(***************************************************************************)
(* The decoded instructions of decode.h.  A type field that no enumerator  *)
(* of the C++ enum has is "invalid".                                       *)
(***************************************************************************)
LoadTypes == {"B", "H", "W", "D", "Bu", "Hu", "Wu"}
StoreTypes == {"B", "H", "W", "D"}
CsrInsnTypes == {"Csrrw", "Csrrs", "Csrrc", "Csrrwi", "Csrrsi", "Csrrci"}

\* Fpu operations by what they return: a rounded float, a float, an integer.
RoundingTypes == {"Add", "Sub", "Mul", "Div", "Sqrt",
                  "CvtSToW", "CvtSToWu", "CvtSToL", "CvtSToLu"}
MinMaxTypes == {"Min", "Max"}
SgnjTypes == {"Sgnj", "Sgnjn", "Sgnjx"}
FpToIntTypes == {"Eq", "Lt", "Le", "CvtWFromS", "CvtWuFromS", "CvtLFromS", "CvtLuFromS"}
OpFpTypes == RoundingTypes \cup MinMaxTypes \cup SgnjTypes \cup FpToIntTypes
                \cup {"Class", "MoveToX", "MoveFromX"}
FmaTypes == {"MAdd", "MSub", "NmSub", "NmAdd"}

\* A rounding-mode field: three bits, of which 5 and 6 mean nothing.
RoundingField == SUBSET {0, 1, 2}
Rmm == {2}
Dynamic == {0, 1, 2}
RoundingModes == {{}, {0}, {1}, {0, 1}, Rmm}

LuiInsn == [op : {"Lui"}, imm : Word, rd : XRegs]
AuipcInsn == [op : {"Auipc"}, imm : Word, rd : XRegs]
JalInsn == [op : {"Jal"}, imm : Word, rd : XRegs]
JalrInsn == [op : {"Jalr"}, imm : Word, rs1 : XRegs, rd : XRegs]
BranchInsn == [op : {"Branch"}, type : BranchTypes \cup {"invalid"}, imm : Word,
               rs1 : XRegs, rs2 : XRegs]
LoadInsn == [op : {"Load"}, type : LoadTypes \cup {"invalid"}, imm : Word,
             rs1 : XRegs, rd : XRegs]
StoreInsn == [op : {"Store"}, type : LoadTypes \cup {"invalid"}, imm : Word,
              rs1 : XRegs, rs2 : XRegs]
OpImmInsn == [op : {"OpImm"}, type : OpTypes \cup {"invalid"}, imm : Word,
              rs1 : XRegs, rd : XRegs]
OpInsn == [op : {"Op"}, type : OpTypes \cup MulDivTypes \cup {"invalid"},
           rs1 : XRegs, rs2 : XRegs, rd : XRegs]
MiscMemInsn == [op : {"MiscMem"}, type : {"Fence", "FenceI", "invalid"}]
SystemInsn == [op : {"System"},
               type : CsrInsnTypes \cup {"Mret", "Ecall", "Ebreak", "invalid"},
               csr : CsrNames \cup {"unimplemented"}, rs1 : XRegs,
               uimm : SUBSET Low(5), rd : XRegs]
OpImm32Insn == [op : {"OpImm32"}, type : OpTypes \cup MulDivTypes \cup {"invalid"},
                imm : Word, rs1 : XRegs, rd : XRegs]
Op32Insn == [op : {"Op32"}, type : OpTypes \cup MulDivTypes \cup {"invalid"},
             rs1 : XRegs, rs2 : XRegs, rd : XRegs]
LoadFpInsn == [op : {"LoadFp"}, imm : Word, rs1 : XRegs, rd : FRegs]
StoreFpInsn == [op : {"StoreFp"}, imm : Word, rs1 : XRegs, rs2 : FRegs]
\* Which register file rs1, rs2 and rd index depends on the type.
OpFpInsn == [op : {"OpFp"}, type : OpFpTypes, rm : RoundingField,
             fs1 : FRegs, fs2 : FRegs, rs1 : XRegs, rd : XRegs, fd : FRegs]
FmaFpInsn == [op : {"FmaFp"}, type : FmaTypes, rm : RoundingField,
              fs1 : FRegs, fs2 : FRegs, fs3 : FRegs, fd : FRegs]
InvalidInsn == [op : {"Invalid"}]

DecodedInsn ==
    LuiInsn \cup AuipcInsn \cup JalInsn \cup JalrInsn \cup BranchInsn
    \cup LoadInsn \cup StoreInsn \cup OpImmInsn \cup OpInsn \cup MiscMemInsn
    \cup SystemInsn \cup OpImm32Insn \cup Op32Insn \cup LoadFpInsn
    \cup StoreFpInsn \cup OpFpInsn \cup FmaFpInsn \cup InvalidInsn

ASSUME ExecutorAssumption ==
    /\ Insns \subseteq DecodedInsn
    /\ Images \subseteq [RamAddrs -> Byte]
    /\ Entries \subseteq Word
    /\ MulDivResults \subseteq Word
    /\ FpResults \subseteq [value : HalfWord, flags : SUBSET Fflags]
    /\ FpToIntResults \subseteq [value : Word, flags : SUBSET Fflags]

-----------------------------------------------------------------------------
(***************************************************************************)
(* StepResult: an Exception, or a NormalStep with every std::optional      *)
(* resolved to its default and every vector, none of which ever holds more *)
(* than one write of a kind, to that write: xd and fd are the destination  *)
(* registers (none or one), csr may be "none", an access of size 0 is no   *)
(* access.  "aborted" stands for an uncaught C++ exception or a failed     *)
(* assertion, "undefined" for undefined behaviour.                         *)
(***************************************************************************)
MemAccess == [addr : Word, value : Word, size : {0} \cup AccessSizes]
NoAccess == [addr |-> {}, value |-> {}, size |-> 0]

NormalStep == [kind : {"normal"}, next_pc : Word, next_privilege : PrivilegeBits,
               xd : SUBSET XRegs, x : Word,
               csr : CsrNames \cup {"none"}, c : Word,
               fd : SUBSET FRegs, f : HalfWord,
               read : MemAccess, write : MemAccess]
Exception == [kind : {"exception"}, mcause : Word, mtval : Word]
Fault == [kind : {"aborted", "undefined"}]
StepResult == NormalStep \cup Exception \cup Fault

Aborted == [kind |-> "aborted"]
Trap(mcause, mtval) == [kind |-> "exception", mcause |-> mcause, mtval |-> mtval]

\* A NormalStep with nothing but the defaults.
Fallthrough ==
    [kind |-> "normal", next_pc |-> Plus(pc, {2}), next_privilege |-> priv,
     xd |-> {}, x |-> {}, csr |-> "none", c |-> {}, fd |-> {}, f |-> {},
     read |-> NoAccess, write |-> NoAccess]

WriteX(rd, v) == [Fallthrough EXCEPT !.xd = {rd}, !.x = v]
WriteF(fd, v) == [Fallthrough EXCEPT !.fd = {fd}, !.f = v]

-----------------------------------------------------------------------------
\* Integer computation and control transfer.
ExecuteLui(insn) == {WriteX(insn.rd, insn.imm)}

ExecuteAuipc(insn) == {WriteX(insn.rd, Plus(pc, insn.imm))}

ExecuteJal(insn) ==
    {[WriteX(insn.rd, Plus(pc, {2})) EXCEPT !.next_pc = Plus(pc, insn.imm)]}

\* The target is taken as it is: its low bit is not cleared.
ExecuteJalr(insn) ==
    {[WriteX(insn.rd, Plus(pc, {2})) EXCEPT !.next_pc = Plus(gprs[insn.rs1], insn.imm)]}

ExecuteBranch(insn) ==
    IF insn.type \notin BranchTypes THEN {Aborted}
    ELSE IF ShouldBranch(insn.type, gprs[insn.rs1], gprs[insn.rs2])
    THEN {[Fallthrough EXCEPT !.next_pc = Plus(pc, insn.imm)]}
    ELSE {Fallthrough}

ExecuteOpImm(insn) ==
    IF insn.type \notin OpImmTypes THEN {Aborted}
    ELSE {WriteX(insn.rd, OpResult(insn.type, gprs[insn.rs1], insn.imm))}

ExecuteOp(insn) ==
    IF insn.type \in OpTypes
    THEN {WriteX(insn.rd, OpResult(insn.type, gprs[insn.rs1], gprs[insn.rs2]))}
    ELSE IF insn.type \in MulDivTypes
    THEN {WriteX(insn.rd, v) : v \in MulDivResults}
    ELSE {Aborted}

ExecuteOpImm32(insn) ==
    IF insn.type \notin OpImm32Types THEN {Aborted}
    ELSE {WriteX(insn.rd, OpImm32Result(insn.type, gprs[insn.rs1], insn.imm))}

ExecuteOp32(insn) ==
    IF insn.type \in Op32Types
    THEN {WriteX(insn.rd, v) : v \in Op32Results(insn.type, gprs[insn.rs1], gprs[insn.rs2])}
    ELSE IF insn.type \in MulDiv32Types
    THEN {WriteX(insn.rd, Sext(v, WLEN)) : v \in MulDivResults}
    ELSE {Aborted}

ExecuteMiscMem(insn) ==
    IF insn.type = "invalid" THEN {Aborted} ELSE {Fallthrough}

-----------------------------------------------------------------------------
\* Loads and stores of the integer registers.
SizeOf(type) ==
    CASE type \in {"B", "Bu"} -> 1
      [] type \in {"H", "Hu"} -> 2
      [] type \in {"W", "Wu"} -> 4
      [] type = "D"           -> 8

\* The value a load type gives to the register.
LoadValue(type, raw) ==
    IF type \in {"B", "H", "W"} THEN Sext(raw, 8 * SizeOf(type)) ELSE raw

\* mem_access_aligned comes before the access, so get_* finds the address aligned.
ExecuteLoad(insn) ==
    LET addr == Plus(gprs[insn.rs1], insn.imm)
        size == SizeOf(insn.type)
        data == LoadValue(insn.type, Get(mem, addr, size))
    IN  IF insn.type = "invalid" THEN {Aborted}
        ELSE IF ~Aligned(addr, size) THEN {Trap({2}, addr)}
        ELSE IF AccessOutcome(addr, size) # "ok"
        THEN {[kind |-> AccessOutcome(addr, size)]}
        ELSE {[WriteX(insn.rd, data) EXCEPT
                  !.read = [addr |-> addr, value |-> data, size |-> size]]}

\* The unsigned types pass the alignment check and throw after it.
ExecuteStore(insn) ==
    LET addr == Plus(gprs[insn.rs1], insn.imm)
        size == SizeOf(insn.type)
        value == Zext(gprs[insn.rs2], 8 * size)
    IN  IF insn.type = "invalid" THEN {Aborted}
        ELSE IF ~Aligned(addr, size) THEN {Trap({1, 2}, addr)}
        ELSE IF insn.type \notin StoreTypes THEN {Aborted}
        ELSE {[Fallthrough EXCEPT
                  !.write = [addr |-> addr, value |-> value, size |-> size]]}

\* The floating-point load and store check no alignment.
ExecuteLoadFp(insn) ==
    LET addr == Plus(gprs[insn.rs1], insn.imm)
        data == Get(mem, addr, 4)
    IN  IF AccessOutcome(addr, 4) # "ok"
        THEN {[kind |-> AccessOutcome(addr, 4)]}
        ELSE {[WriteF(insn.rd, data) EXCEPT
                  !.read = [addr |-> addr, value |-> data, size |-> 4]]}

ExecuteStoreFp(insn) ==
    {[Fallthrough EXCEPT !.write = [addr |-> Plus(gprs[insn.rs1], insn.imm),
                                    value |-> fprs[insn.rs2], size |-> 4]]}

-----------------------------------------------------------------------------
\* Mutation of NewCsrValue: CSRRS and CSRRSI replace the old value.
NewCsrReplaced(insn, old) ==
    CASE insn.type \in {"Csrrw", "Csrrs"}   -> gprs[insn.rs1]
      [] insn.type = "Csrrc"                -> old \ gprs[insn.rs1]
      [] insn.type \in {"Csrrwi", "Csrrsi"} -> insn.uimm
      [] insn.type = "Csrrci"               -> old \cap (Low(32) \ insn.uimm)

\* The value a Zicsr instruction computes from the old one.  CSRRCI
\* complements its 32-bit immediate before widening it, so the mask it
\* applies has the upper half clear.
NewCsrValue(insn, old) ==
    CASE insn.type = "Csrrw"  -> gprs[insn.rs1]
      [] insn.type = "Csrrs"  -> old \cup gprs[insn.rs1]
      [] insn.type = "Csrrc"  -> old \ gprs[insn.rs1]
      [] insn.type = "Csrrwi" -> insn.uimm
      [] insn.type = "Csrrsi" -> old \cup insn.uimm
      [] insn.type = "Csrrci" -> old \cap (Low(32) \ insn.uimm)

\* The set and clear forms with a zero operand field only read.
WritesCsr(insn) ==
    CASE insn.type \in {"Csrrw", "Csrrwi"}   -> TRUE
      [] insn.type \in {"Csrrs", "Csrrc"}    -> insn.rs1 # 0
      [] insn.type \in {"Csrrsi", "Csrrci"}  -> insn.uimm # {}

ExecuteCsr(insn) ==
    LET old == GetCsr(csrs, insn.csr)
    IN  IF ~HasCsr(insn.csr) THEN {Trap({1}, {})}
        ELSE IF WritesCsr(insn)
        THEN {[WriteX(insn.rd, old) EXCEPT
                  !.csr = insn.csr, !.c = NewCsrValue(insn, old)]}
        ELSE {WriteX(insn.rd, old)}

\* The mstatus of a return: MPIE moves back to MIE, MPP is left at User.
MretMstatus(old) ==
    LET mie == IF MPIE \subseteq old THEN old \cup MIE ELSE old \ MIE
        popped == (mie \cup MPIE) \ MPP
    IN  IF Srl(old \cap MPP, 11) # Machine THEN popped \ MPRV ELSE popped

\* Mutation of ExecuteMret: the privilege is shifted out of mstatus unmasked.
MretUnmasked ==
    {[Fallthrough EXCEPT !.next_pc = GetCsr(csrs, "mepc"),
                         !.next_privilege = Srl(csrs["mstatus"], 11),
                         !.csr = "mstatus", !.c = MretMstatus(csrs["mstatus"])]}

\* The privilege it runs at is not looked at.
ExecuteMret ==
    LET old == csrs["mstatus"] IN
    {[Fallthrough EXCEPT !.next_pc = GetCsr(csrs, "mepc"),
                         !.next_privilege = Srl(old \cap MPP, 11),
                         !.csr = "mstatus", !.c = MretMstatus(old)]}

ExecuteEcall ==
    CASE priv = User    -> {Trap({3}, {})}
      [] priv = Machine -> {Trap({0, 1, 3}, {})}
      [] OTHER          -> {Aborted}

ExecuteSystem(insn) ==
    CASE insn.type \in CsrInsnTypes -> ExecuteCsr(insn)
      [] insn.type = "Mret"         -> ExecuteMret
      [] insn.type = "Ecall"        -> ExecuteEcall
      [] OTHER                      -> {Aborted}

-----------------------------------------------------------------------------
(***************************************************************************)
(* Floating point.  A dynamic rounding mode is resolved from fcsr, and a   *)
(* reserved one there ends the program whatever the operation is.  A       *)
(* reserved mode in the instruction is met only where a result is rounded  *)
(* (should_round_up throws), which depends on the operands.                *)
(***************************************************************************)
RoundingModeFault(rm) == rm = Dynamic /\ GetCsr(csrs, "frm") \notin RoundingModes

RoundingMayThrow(rm) == rm \notin RoundingModes \cup {Dynamic}

\* Mutation of Accrue: the flags of the last operation replace the others.
ReplaceFlags(step, flags) ==
    IF flags = {} THEN step ELSE [step EXCEPT !.csr = "fflags", !.c = flags]

\* append_fp_flags: the flags accrue, and nothing is written when there are none.
Accrue(step, flags) ==
    IF flags = {} THEN step
    ELSE [step EXCEPT !.csr = "fflags", !.c = GetCsr(csrs, "fflags") \cup flags]

FpClassBit(a) ==
    LET negative == 31 \in a
        exponent == a \cap 23 .. 30
        fraction == a \cap Low(23)
    IN  CASE exponent = 23 .. 30 /\ fraction = {} -> IF negative THEN 0 ELSE 7
          [] exponent = 23 .. 30 /\ fraction # {} -> IF 22 \in fraction THEN 9 ELSE 8
          [] exponent = {} /\ fraction = {}       -> IF negative THEN 3 ELSE 4
          [] exponent = {} /\ fraction # {}       -> IF negative THEN 2 ELSE 5
          [] OTHER                                -> IF negative THEN 1 ELSE 6

\* The result is a with a sign bit derived from b's.
InjectSign(type, a, b) ==
    (a \ {31}) \cup ({31} \cap (CASE type = "Sgnj"  -> b
                                  [] type = "Sgnjn" -> {31} \ b
                                  [] type = "Sgnjx" -> Xor(a, b)))

\* What the operation returns once its rounding mode is resolved.
OpFpResults(insn) ==
    LET a == fprs[insn.fs1] IN
    CASE insn.type \in RoundingTypes \cup MinMaxTypes ->
            {Accrue(WriteF(insn.fd, r.value), r.flags) : r \in FpResults}
      [] insn.type \in FpToIntTypes ->
            {Accrue(WriteX(insn.rd, r.value), r.flags) : r \in FpToIntResults}
      [] insn.type \in SgnjTypes ->
            {WriteF(insn.fd, InjectSign(insn.type, a, fprs[insn.fs2]))}
      [] insn.type = "Class"     -> {WriteX(insn.rd, {FpClassBit(a)})}
      [] insn.type = "MoveToX"   -> {WriteX(insn.rd, Sext(a, 32))}
      [] insn.type = "MoveFromX" -> {WriteF(insn.fd, Zext(gprs[insn.rs1], 32))}

ExecuteOpFp(insn) ==
    IF RoundingModeFault(insn.rm) THEN {Aborted}
    ELSE OpFpResults(insn)
            \cup (IF RoundingMayThrow(insn.rm) /\ insn.type \in RoundingTypes
                  THEN {Aborted} ELSE {})

ExecuteFmaFp(insn) ==
    IF RoundingModeFault(insn.rm) THEN {Aborted}
    ELSE {Accrue(WriteF(insn.fd, r.value), r.flags) : r \in FpResults}
            \cup (IF RoundingMayThrow(insn.rm) THEN {Aborted} ELSE {})

-----------------------------------------------------------------------------
\* Mutation of WrittenCsrs: fcsr is written like any other register.
WrittenUnsplit(s) == IF s.csr = "none" THEN csrs ELSE SetCsr(csrs, s.csr, s.c)

(***************************************************************************)
(* Executor::step.  The registers a NormalStep s leaves behind: a write of *)
(* fcsr becomes a write of each of its halves, and a step that touches     *)
(* floating-point state also marks mstatus.FS dirty.                       *)
(***************************************************************************)
WrittenCsrs(s) ==
    CASE s.csr = "none" -> csrs
      [] s.csr = "fcsr" -> SetCsr(SetCsr(csrs, "fflags", s.c \cap Fflags),
                                  "frm", Srl(s.c, 5) \cap Low(3))
      [] OTHER          -> SetCsr(csrs, s.csr, s.c)

\* Mutation of WritesFpState: writes of fcsr and its halves are overlooked.
WritesFpRegister(s) == s.fd # {}
WritesFpState(s) == s.fd # {} \/ s.csr \in {"fflags", "frm", "fcsr"}
AppendsDirty(s) == WritesFpState(s) /\ csrs["mstatus"] \cap FS # FS_DIRTY

NextCsrs(s) ==
    IF AppendsDirty(s)
    THEN SetCsr(WrittenCsrs(s), "mstatus", (csrs["mstatus"] \ FS) \cup FS_DIRTY)
    ELSE WrittenCsrs(s)

\* Mutation of NextGprs: x0 is a register like the others.
NextGprsWithZero(s) == [r \in XRegs |-> IF r \in s.xd THEN s.x ELSE gprs[r]]

\* Writes of x0 are dropped.
NextGprs(s) == [r \in XRegs |-> IF r \in s.xd \ {0} THEN s.x ELSE gprs[r]]
NextFprs(s) == [r \in FRegs |-> IF r \in s.fd THEN s.f ELSE fprs[r]]

\* Mutation of NextMem: a case of the switch falls through to the next.
NextMemFallsThrough(s) ==
    IF s.write.size = 0 THEN mem
    ELSE Set(mem, s.write.addr, IF s.write.size = 2 THEN 4 ELSE s.write.size,
             s.write.value)
NextMem(s) ==
    IF s.write.size = 0 THEN mem
    ELSE Set(mem, s.write.addr, s.write.size, s.write.value)

StoreOutcome(s) ==
    IF s.write.size = 0 THEN "ok" ELSE AccessOutcome(s.write.addr, s.write.size)

\* Mutation of Retire: a set_* that asserts the alignment once it has written.
RetireWritesFirst(s) ==
    /\ s.kind = "normal"
    /\ pc' = s.next_pc
    /\ priv' = s.next_privilege
    /\ gprs' = NextGprs(s)
    /\ fprs' = NextFprs(s)
    /\ IF s.csr # "none" /\ ~Writable(s.csr)
       THEN /\ status' = "aborted"
            /\ UNCHANGED <<csrs, mem>>
       ELSE /\ csrs' = NextCsrs(s)
            /\ mem' = NextMem(s)
            /\ status' = IF StoreOutcome(s) = "ok" THEN status ELSE StoreOutcome(s)

\* The tail of step.  The writes are applied one by one, so one that throws
\* leaves the earlier ones in place: the pc and the destination register
\* when a CSR refuses, all registers when a store fails.
Retire(s) ==
    /\ s.kind = "normal"
    /\ pc' = s.next_pc
    /\ priv' = s.next_privilege
    /\ gprs' = NextGprs(s)
    /\ fprs' = NextFprs(s)
    /\ IF s.csr # "none" /\ ~Writable(s.csr)
       THEN /\ status' = "aborted"
            /\ UNCHANGED <<csrs, mem>>
       ELSE /\ csrs' = NextCsrs(s)
            /\ IF StoreOutcome(s) = "ok"
               THEN mem' = NextMem(s) /\ UNCHANGED status
               ELSE status' = StoreOutcome(s) /\ UNCHANGED mem

TakeTrap(r) ==
    /\ r.kind = "exception"
    /\ TakeException(r.mcause, r.mtval)
    /\ UNCHANGED <<mem, status>>

Fail(r) ==
    /\ r.kind \in {"aborted", "undefined"}
    /\ status' = r.kind
    /\ UNCHANGED <<pc, priv, gprs, fprs, csrs, mem>>

Finish(r) == Retire(r) \/ TakeTrap(r) \/ Fail(r)

\* The word step rereads at the pc for its Commit.  Mutation: it rereads the
\* word after the stores.
RawInsnAfterStore == Get(mem', pc, 4)
RawInsn == Get(mem, pc, 4)

\* Mutation of LoggedCsrs: the mstatus write step appends is not reported.
LoggedByInsn(s) == IF s.csr = "fcsr" THEN {"fflags", "frm"} ELSE {s.csr} \ {"none"}

\* The registers a step reports in its Commit, fcsr by its halves.
LoggedCsrs(s) ==
    (IF s.csr = "fcsr" THEN {"fflags", "frm"} ELSE {s.csr} \ {"none"})
        \cup (IF AppendsDirty(s) THEN {"mstatus"} ELSE {})

\* The Commit step returns for a NormalStep; a trap returns none.  A CSR is
\* reported with the value set_csr returned.
CommitOf(s) ==
    [pc |-> pc, insn |-> RawInsn, priv |-> priv,
     x_writes |-> {[num |-> r, value |-> s.x] : r \in s.xd \ {0}},
     c_writes |-> {[num |-> n, value |-> Readback(NextCsrs(s), n)] : n \in LoggedCsrs(s)},
     f_writes |-> {[num |-> r, value |-> s.f] : r \in s.fd},
     mem_reads |-> {s.read} \ {NoAccess},
     mem_writes |-> {s.write} \ {NoAccess}]

-----------------------------------------------------------------------------
\* The std::visit of Executor::step: what the overload for insn may return.
Execute(insn) ==
    CASE insn.op = "Lui"     -> ExecuteLui(insn)
      [] insn.op = "Auipc"   -> ExecuteAuipc(insn)
      [] insn.op = "Jal"     -> ExecuteJal(insn)
      [] insn.op = "Jalr"    -> ExecuteJalr(insn)
      [] insn.op = "Branch"  -> ExecuteBranch(insn)
      [] insn.op = "Load"    -> ExecuteLoad(insn)
      [] insn.op = "Store"   -> ExecuteStore(insn)
      [] insn.op = "OpImm"   -> ExecuteOpImm(insn)
      [] insn.op = "Op"      -> ExecuteOp(insn)
      [] insn.op = "MiscMem" -> ExecuteMiscMem(insn)
      [] insn.op = "System"  -> ExecuteSystem(insn)
      [] insn.op = "OpImm32" -> ExecuteOpImm32(insn)
      [] insn.op = "Op32"    -> ExecuteOp32(insn)
      [] insn.op = "LoadFp"  -> ExecuteLoadFp(insn)
      [] insn.op = "StoreFp" -> ExecuteStoreFp(insn)
      [] insn.op = "OpFp"    -> ExecuteOpFp(insn)
      [] insn.op = "FmaFp"   -> ExecuteFmaFp(insn)
      [] insn.op = "Invalid" -> {Aborted}

Step(insn) == \E r \in Execute(insn) : Finish(r)

\* main fetches from pc before every step; the fetch itself may fail.
Fetchable == AccessOutcome(pc, 4) = "ok"

FetchFault ==
    /\ status = "running" /\ ~Fetchable
    /\ status' = AccessOutcome(pc, 4)
    /\ UNCHANGED <<pc, priv, gprs, fprs, csrs, mem>>

\* The program has ended.
Ended == status # "running" /\ UNCHANGED vars

Init ==
    /\ \E entry \in Entries : CoreInit(entry)
    /\ mem \in Images
    /\ status = "running"

Next ==
    \/ status = "running" /\ Fetchable /\ \E insn \in Insns : Step(insn)
    \/ FetchFault
    \/ Ended

Spec == Init /\ [][Next]_vars

TypeOK ==
    /\ CoreTypeOK
    /\ RamTypeOK
    /\ status \in {"running", "aborted", "undefined"}

-----------------------------------------------------------------------------
(***************************************************************************)
(* mstatus stays a value its masks allow: no bit outside the implemented   *)
(* fields, UXL fixed at 64 bit, and SD summarising FS.  Three writers (CSR *)
(* instructions, trap entry, the dirty mark of step) each rebuild it.      *)
(***************************************************************************)
WellFormed(m) ==
    /\ m \subseteq MSTATUS_WRITABLE \cup UXL_RV64 \cup SD
    /\ UXL_RV64 \subseteq m
    /\ SD \subseteq m <=> FS_DIRTY \subseteq m

MstatusWellFormed == WellFormed(csrs["mstatus"])

\* A step that changes a floating-point register or fcsr, by whatever
\* instruction, leaves FS dirty: a kernel that saves the floating-point
\* state only when FS says so loses nothing.
FpChangesAreDirty ==
    [][fprs' # fprs \/ csrs'["fcsr"] # csrs["fcsr"]
        => FS_DIRTY \subseteq csrs'["mstatus"]]_vars

\* An accrued exception flag is cleared by no instruction but one that
\* writes fflags or fcsr: neither arithmetic, which ors its flags in, nor a
\* write of frm, nor a trap loses one.
AccruedFlagsStick ==
    [][csrs["fcsr"] \cap Fflags \subseteq csrs'["fcsr"]
        \/ \E insn \in Insns :
             /\ insn.op = "System" /\ insn.type \in CsrInsnTypes
             /\ insn.csr \in {"fflags", "fcsr"}
             /\ Step(insn)]_vars

\* Nothing a program executes changes the bits of fcsr above its eight: step
\* splits a write of fcsr into its halves, so the mask set_csr applies to
\* the whole register is never reached, and what the uninitialized array
\* held there at boot is there for good.
FcsrUpperBitsFrozen ==
    [][csrs'["fcsr"] \ Low(8) = csrs["fcsr"] \ Low(8)]_vars

\* A step that ends the program half way leaves no more behind than the pc it
\* would have gone on at and, where set_csr refused the write, the destination
\* register with the old value of the CSR: the writes are applied one by one,
\* and those of an instruction that can fail come in an order that keeps
\* memory, privilege, control and floating-point registers as they were.
FailuresLeaveLittle ==
    [][status = "running" /\ status' # "running" =>
          /\ UNCHANGED <<priv, fprs, csrs, mem>>
          /\ pc' \in {pc, Plus(pc, {2})}
          /\ gprs' # gprs =>
                /\ pc' # pc
                /\ \E r \in XRegs \ {0} : gprs' = [gprs EXCEPT ![r] = csrs["mhartid"]]]_vars

\* A set or clear form changes the bits its operand selects and no other, up
\* to what set_csr itself derives or clears: SD from FS, the two low bits of
\* an address.
Operand(insn) == IF insn.type \in {"Csrrs", "Csrrc"} THEN gprs[insn.rs1] ELSE insn.uimm
Derived(name) ==
    CASE name = "mstatus" -> SD [] name \in {"mepc", "mtvec"} -> {0, 1} [] OTHER -> {}
OnlyOperandBitsChange ==
    [][\A insn \in Insns :
          /\ insn.op = "System" /\ insn.type \in {"Csrrs", "Csrrc", "Csrrsi", "Csrrci"}
          /\ insn.csr \in StoredCsrs \ {"fcsr"}
          /\ Step(insn)
          => Xor(csrs'[insn.csr], csrs[insn.csr])
                \subseteq Operand(insn) \cup Derived(insn.csr)]_vars

-----------------------------------------------------------------------------
(***************************************************************************)
(* What the source says of itself in assertions and comments.              *)
(***************************************************************************)
\* get_32 asserts that the pc main passes it is a multiple of four.
FetchAligned == status = "running" => Aligned(pc, 4)

\* The accesses an instruction comes to ask of the memory, as addresses and
\* sizes: those of the integer loads and stores past their own tests, those of
\* FLW and FSW always.
AccessesOf(insn) ==
    LET addr == Plus(gprs[insn.rs1], insn.imm)
        size == IF insn.op \in {"LoadFp", "StoreFp"} THEN 4 ELSE SizeOf(insn.type)
        asks == \/ insn.op \in {"LoadFp", "StoreFp"}
                \/ /\ insn.op \in {"Load", "Store"} /\ insn.type # "invalid"
                   /\ Aligned(addr, size)
                   /\ insn.op = "Store" => insn.type \in StoreTypes
    IN  IF asks THEN {<<addr, size>>} ELSE {}

\* The wide accessors assert the alignment of every address they are given,
\* whichever overload reads it or leaves it to step to write.
AccessesAligned ==
    status = "running" =>
        \A insn \in Insns : \A access \in AccessesOf(insn) : Aligned(access[1], access[2])

\* Dynamic rounding uses the frm register: once an instruction has written
\* it (or fcsr) and set_csr reports a rounding mode there, a dynamic operation
\* does not end the program.
DynamicModeUsable ==
    [][\A insn \in Insns :
          /\ insn.op = "System" /\ insn.type \in CsrInsnTypes
          /\ insn.csr \in {"frm", "fcsr"} /\ WritesCsr(insn)
          /\ Step(insn)
          /\ Readback(csrs', "frm") \in RoundingModes
          => ~RoundingModeFault(Dynamic)']_vars

-----------------------------------------------------------------------------
\* Traps, mret and writes of mstatus and mepc, seen through the fields of
\* mstatus, are the steps of TrapStack.
ResumeAlign(a) == a \ {0, 1}
Stack == INSTANCE TrapStack WITH
    Modes <- PrivilegeBits,
    Addrs <- Word,
    Resumable <- SUBSET (2 .. XLEN - 1),
    Align <- ResumeAlign,
    mode <- priv,
    ie <- MIE \subseteq csrs["mstatus"],
    at <- pc,
    pp <- Srl(csrs["mstatus"] \cap MPP, 11),
    pie <- MPIE \subseteq csrs["mstatus"],
    epc <- csrs["mepc"],
    handler <- csrs["mtvec"] \ {0, 1}

\* The hart's traps and returns implement a stack of one interrupted context:
\* mret resumes exactly what the last trap interrupted unless software
\* rewrote it, and the privilege changes in no other way.
TrapStackSpec == Stack!Spec
=============================================================================
