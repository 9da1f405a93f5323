---------------------------- MODULE Status_proofs ----------------------------
(***************************************************************************)
(* The status registers under every instruction: mstatus keeps the form    *)
(* its masks allow, floating-point changes leave it dirty, and fcsr loses  *)
(* neither its accrued flags nor the bits no write can reach.              *)
(*                                                                         *)
(* Each argument has the same two halves: which register a StepResult      *)
(* names (a fact about the execute overloads), and what set_csr makes of   *)
(* the value it carries.  Then, entering and leaving traps keeps the       *)
(* abstract trap stack of TrapStack, and a step that ends the program half *)
(* way leaves little behind.  Last, the commit log is complete: who reads  *)
(* it knows every register, every byte of memory, what the next load will  *)
(* find, and the control registers but for what a trap writes.             *)
(***************************************************************************)
EXTENDS TraceReplay, Executor_proofs

-----------------------------------------------------------------------------
\* set_csr leaves mstatus alone unless asked for it, and then legalises.
LEMMA SetCsrMstatus ==
    ASSUME NEW c \in [StoredCsrs -> Word], NEW name, NEW v
    PROVE  SetCsr(c, name, v)["mstatus"] =
              IF name = "mstatus" THEN LegalMstatus(c["mstatus"], v) ELSE c["mstatus"]
  BY DEF SetCsr, StoredCsrs

\* It touches fcsr through the three names of fcsr only.
FcsrAfter(f, name, v) ==
    IF name = "fflags" THEN (f \ Fflags) \cup (v \cap Fflags)
    ELSE IF name = "frm" THEN (f \ Frm) \cup Sll(v \cap Low(3), 5)
    ELSE IF name = "fcsr" THEN v \cap Low(8) ELSE f

LEMMA SetCsrFcsr ==
    ASSUME NEW c \in [StoredCsrs -> Word], NEW name, NEW v
    PROVE  SetCsr(c, name, v)["fcsr"] = FcsrAfter(c["fcsr"], name, v)
  BY DEF SetCsr, StoredCsrs, FcsrAfter

\* Legalisation restores the form of mstatus whatever value it is given.
LEMMA LegalMstatusForm ==
    ASSUME NEW old, NEW v, WellFormed(old)
    PROVE  WellFormed(LegalMstatus(old, v))
  <1> DEFINE new == ((old \ MSTATUS_WRITABLE) \cup (v \cap MSTATUS_WRITABLE)) \ SD
  <1> USE DEF WellFormed, MSTATUS_WRITABLE, MIE, MPIE, MPP, FS, MPRV, UXL_RV64, SD, FS_DIRTY
  <1>1. new \subseteq MSTATUS_WRITABLE \cup UXL_RV64
    OBVIOUS
  <1>4. UXL_RV64 \subseteq new /\ ~(SD \subseteq new)
    OBVIOUS
  <1>2. new \cap FS = FS_DIRTY <=> FS_DIRTY \subseteq new
    OBVIOUS
  <1>3. LegalMstatus(old, v) = IF new \cap FS = FS_DIRTY THEN new \cup SD ELSE new
    BY DEF LegalMstatus
  <1> HIDE DEF new
  <1> QED  BY <1>1, <1>2, <1>3, <1>4

\* What the writes of a step make of mstatus: legalised when it is named,
\* else left alone, whichever half of fcsr is written.
LEMMA WrittenMstatus ==
    ASSUME TypeOK, NEW s \in NormalStep
    PROVE  WrittenCsrs(s)["mstatus"] =
              IF s.csr = "mstatus" THEN LegalMstatus(csrs["mstatus"], s.c)
              ELSE csrs["mstatus"]
  <1>1. csrs \in [StoredCsrs -> Word] /\ s.c \in Word
    BY DEF TypeOK, CoreTypeOK, NormalStep
  <1>2. CASE s.csr = "fcsr"
    <2> DEFINE flags == s.c \cap Fflags
               mode == Srl(s.c, 5) \cap Low(3)
               c1 == SetCsr(csrs, "fflags", flags)
    <2>1. flags \in Word
      BY <1>1 DEF Word
    <2>2. WrittenCsrs(s) = SetCsr(c1, "frm", mode)
      BY <1>2 DEF WrittenCsrs
    <2> HIDE DEF flags, mode
    <2>3. c1 \in [StoredCsrs -> Word] /\ c1["mstatus"] = csrs["mstatus"]
      BY <1>1, <2>1, SetCsrType, SetCsrMstatus
    <2> HIDE DEF c1
    <2> QED  BY <1>2, <2>2, <2>3, SetCsrMstatus
  <1>3. CASE s.csr # "fcsr"
    BY <1>1, <1>3, SetCsrMstatus DEF WrittenCsrs
  <1> QED  BY <1>2, <1>3

\* The mstatus of a finished step has the form, marked dirty or not.
LEMMA NextMstatusForm ==
    ASSUME TypeOK, MstatusWellFormed, NEW s \in NormalStep
    PROVE  WellFormed(NextCsrs(s)["mstatus"])
  <1>1. WellFormed(WrittenCsrs(s)["mstatus"])
    BY WrittenMstatus, LegalMstatusForm DEF MstatusWellFormed
  <1> QED  BY <1>1, WrittenCsrsType, SetCsrMstatus, LegalMstatusForm DEF NextCsrs

\* mstatus never holds a bit its masks exclude, and SD always summarises FS.
\* Inductive with the types: each of the three writers goes through set_csr.
THEOREM MstatusStaysWellFormed == Spec => []MstatusWellFormed
  <1>1. Init => MstatusWellFormed
    <2> SUFFICES ASSUME Init PROVE MstatusWellFormed
      OBVIOUS
    <2>1. PICK garbage \in Boot : csrs = [garbage EXCEPT !["mstatus"] = UXL_RV64]
      BY DEF Init, CoreInit
    <2>2. csrs["mstatus"] = UXL_RV64
      BY <2>1, CoreAssumption DEF StoredCsrs
    <2> QED  BY <2>2 DEF MstatusWellFormed, WellFormed, UXL_RV64, SD, FS_DIRTY
  <1>2. TypeOK /\ MstatusWellFormed /\ [Next]_vars => MstatusWellFormed'
    <2> SUFFICES ASSUME TypeOK, MstatusWellFormed, [Next]_vars PROVE MstatusWellFormed'
      OBVIOUS
    <2>0. csrs \in [StoredCsrs -> Word]
      BY DEF TypeOK, CoreTypeOK
    <2>1. ASSUME NEW insn \in Insns, Step(insn) PROVE MstatusWellFormed'
      <3>1. PICK r \in Execute(insn) : Finish(r)
        BY <2>1 DEF Step
      <3>2. r \in StepResult
        BY ExecuteType
      <3>3. CASE Retire(r)
        <4>1. r \in NormalStep
          BY <3>2, <3>3 DEF Retire, StepResult, Exception, Fault
        <4> QED  BY <3>3, <4>1, NextMstatusForm DEF Retire, MstatusWellFormed
      <3>4. CASE TakeTrap(r)
        <4>1. r.mcause \in Word /\ r.mtval \in Word /\ pc \in Word
          BY <3>2, <3>4 DEF TakeTrap, StepResult, Exception, NormalStep, Fault,
                            TypeOK, CoreTypeOK
        <4> DEFINE c1 == SetCsr(csrs, "mcause", r.mcause)
                   c2 == SetCsr(c1, "mtval", r.mtval)
                   c3 == SetCsr(c2, "mepc", pc)
        <4>2. c1 \in [StoredCsrs -> Word] /\ c1["mstatus"] = csrs["mstatus"]
          BY <2>0, <4>1, SetCsrType, SetCsrMstatus
        <4> HIDE DEF c1
        <4>3. c2 \in [StoredCsrs -> Word] /\ c2["mstatus"] = csrs["mstatus"]
          BY <4>1, <4>2, SetCsrType, SetCsrMstatus
        <4> HIDE DEF c2
        <4>4. c3 \in [StoredCsrs -> Word] /\ c3["mstatus"] = csrs["mstatus"]
          BY <4>1, <4>3, SetCsrType, SetCsrMstatus
        <4> HIDE DEF c3
        <4>5. csrs' = SetCsr(c3, "mstatus", TrapMstatus(csrs["mstatus"], priv))
          BY <3>4 DEF TakeTrap, TakeException, c1, c2, c3
        <4> QED  BY <4>4, <4>5, SetCsrMstatus, LegalMstatusForm DEF MstatusWellFormed
      <3>5. CASE Fail(r)
        BY <3>5 DEF Fail, MstatusWellFormed
      <3> QED  BY <3>1, <3>3, <3>4, <3>5 DEF Finish
    <2>2. CASE FetchFault
      BY <2>2 DEF FetchFault, MstatusWellFormed
    <2>3. CASE UNCHANGED vars
      BY <2>3 DEF vars, MstatusWellFormed
    <2> QED  BY <2>1, <2>2, <2>3 DEF Next, Ended
  <1> QED  BY <1>1, <1>2, TypeCorrect, PTL DEF Spec

-----------------------------------------------------------------------------
(***************************************************************************)
(* What an overload may put in a StepResult: a floating-point destination  *)
(* comes with a write of fflags or with none, a write that can reach the   *)
(* flags comes from a CSR instruction on them or ors new ones in, and      *)
(* nothing but MRET changes the privilege.                                 *)
(***************************************************************************)
IsMret(insn) == insn.op = "System" /\ insn.type = "Mret"
CsrOn(insn, name) ==
    insn.op = "System" /\ insn.type \in CsrInsnTypes /\ insn.csr = name

Effects(insn, r) ==
    /\ r.fd # {} => r.csr \in {"none", "fflags"}
    /\ r.csr \in {"fflags", "fcsr"} =>
          \/ CsrOn(insn, r.csr)
          \/ r.csr = "fflags" /\ csrs["fcsr"] \cap Fflags \subseteq r.c
    /\ r.next_privilege = priv \/ IsMret(insn)

\* The steps with at most one destination register write no CSR, and keep
\* that when a jump target or a memory access is added to them.
LEMMA PlainEffects ==
    /\ Fallthrough.csr = "none" /\ Fallthrough.next_privilege = priv
    /\ \A rd, v : /\ WriteX(rd, v).csr = "none" /\ WriteX(rd, v).fd = {}
                  /\ WriteX(rd, v).next_privilege = priv
    /\ \A fd, v : /\ WriteF(fd, v).csr = "none"
                  /\ WriteF(fd, v).next_privilege = priv
  BY DEF Fallthrough, WriteX, WriteF

LEMMA AccrueEffects ==
    ASSUME NEW insn, NEW s \in NormalStep, s.csr = "none", s.next_privilege = priv,
           NEW flags
    PROVE  Effects(insn, Accrue(s, flags))
  BY DEF Effects, Accrue, GetCsr, NormalStep

LEMMA ExecuteEffects ==
    ASSUME TypeOK, NEW insn \in Insns, NEW r \in Execute(insn), r.kind = "normal"
    PROVE  Effects(insn, r)
  <1>1. CASE insn.op \in {"Lui", "Auipc", "Jal", "Jalr", "Branch", "OpImm", "Op",
                          "MiscMem", "OpImm32", "Op32", "Load", "Store", "LoadFp",
                          "StoreFp", "Invalid"}
    <2>1. r.csr = "none" /\ r.next_privilege = priv
      <3>0. /\ Aborted.kind # "normal" /\ \A m, v : Trap(m, v).kind # "normal"
            /\ \A addr, size : AccessOutcome(addr, size) # "normal"
        BY OutcomeType DEF Aborted, Trap
      <3>1. CASE insn.op = "Lui"
        BY <3>0, <3>1, PlainEffects DEF Execute, ExecuteLui
      <3>2. CASE insn.op = "Auipc"
        BY <3>0, <3>2, PlainEffects DEF Execute, ExecuteAuipc
      <3>3. CASE insn.op = "Jal"
        BY <3>3 DEF Execute, ExecuteJal, WriteX, Fallthrough
      <3>4. CASE insn.op = "Jalr"
        BY <3>4 DEF Execute, ExecuteJalr, WriteX, Fallthrough
      <3>5. CASE insn.op = "Branch"
        BY <3>0, <3>5 DEF Execute, ExecuteBranch, Fallthrough
      <3>6. CASE insn.op = "OpImm"
        BY <3>0, <3>6, PlainEffects DEF Execute, ExecuteOpImm
      <3>7. CASE insn.op = "Op"
        BY <3>0, <3>7, PlainEffects DEF Execute, ExecuteOp
      <3>8. CASE insn.op = "MiscMem"
        BY <3>0, <3>8, PlainEffects DEF Execute, ExecuteMiscMem
      <3>9. CASE insn.op = "OpImm32"
        BY <3>0, <3>9, PlainEffects DEF Execute, ExecuteOpImm32
      <3>10. CASE insn.op = "Op32"
        BY <3>0, <3>10, PlainEffects DEF Execute, ExecuteOp32
      <3>11. CASE insn.op = "Load"
        <4>1. PICK addr, size, v, a :
                 r \in {Aborted, Trap({2}, addr), [kind |-> AccessOutcome(addr, size)],
                        [WriteX(insn.rd, v) EXCEPT !.read = a]}
          BY <3>11 DEF Execute, ExecuteLoad
        <4>2. CASE r = [WriteX(insn.rd, v) EXCEPT !.read = a]
          BY <4>2 DEF WriteX, Fallthrough
        <4> QED  BY <3>0, <4>1, <4>2
      <3>12. CASE insn.op = "Store"
        <4>1. PICK addr, a :
                 r \in {Aborted, Trap({1, 2}, addr), [Fallthrough EXCEPT !.write = a]}
          BY <3>12 DEF Execute, ExecuteStore
        <4>2. CASE r = [Fallthrough EXCEPT !.write = a]
          BY <4>2 DEF Fallthrough
        <4> QED  BY <3>0, <4>1, <4>2
      <3>13. CASE insn.op = "LoadFp"
        <4>1. PICK addr, size, v, a :
                 r \in {[kind |-> AccessOutcome(addr, size)],
                        [WriteF(insn.rd, v) EXCEPT !.read = a]}
          BY <3>13 DEF Execute, ExecuteLoadFp
        <4>2. CASE r = [WriteF(insn.rd, v) EXCEPT !.read = a]
          BY <4>2 DEF WriteF, Fallthrough
        <4> QED  BY <3>0, <4>1, <4>2
      <3>14. CASE insn.op = "StoreFp"
        BY <3>14 DEF Execute, ExecuteStoreFp, Fallthrough
      <3>15. CASE insn.op = "Invalid"
        BY <3>0, <3>15 DEF Execute
      <3> QED  BY <1>1, <3>1, <3>2, <3>3, <3>4, <3>5, <3>6, <3>7, <3>8, <3>9, <3>10,
                  <3>11, <3>12, <3>13, <3>14, <3>15
    <2> QED  BY <2>1 DEF Effects
  <1>2. CASE insn.op = "System"
    <2>1. r \in ExecuteSystem(insn)
      BY <1>2 DEF Execute
    <2>2. /\ r.fd = {} /\ (r.csr \in {"none", "mstatus"} \/ CsrOn(insn, r.csr))
          /\ r.next_privilege = priv \/ IsMret(insn)
      <3> USE DEF Aborted, Fallthrough, WriteX, Trap
      <3>1. CASE insn.type \in CsrInsnTypes
        <4>1. r \in ExecuteCsr(insn)
          BY <2>1, <3>1 DEF ExecuteSystem, CsrInsnTypes
        <4>2. PICK old, c :
                 r \in {Trap({1}, {}), WriteX(insn.rd, old),
                        [WriteX(insn.rd, old) EXCEPT !.csr = insn.csr, !.c = c]}
          <5> DEFINE old == GetCsr(csrs, insn.csr)
          <5>1. r \in {Trap({1}, {}), WriteX(insn.rd, old),
                       [WriteX(insn.rd, old) EXCEPT !.csr = insn.csr,
                                                    !.c = NewCsrValue(insn, old)]}
            BY <4>1 DEF ExecuteCsr
          <5> QED  BY <5>1
        <4>3. CASE r = [WriteX(insn.rd, old) EXCEPT !.csr = insn.csr, !.c = c]
          <5>1. r.csr = insn.csr /\ r.fd = {} /\ r.next_privilege = priv
            BY <4>3
          <5> QED  BY <1>2, <3>1, <5>1 DEF CsrOn
        <4>4. CASE r = WriteX(insn.rd, old)
          BY <4>4
        <4> QED  BY <4>2, <4>3, <4>4
      <3>2. CASE insn.type = "Mret"
        BY <1>2, <2>1, <3>2 DEF ExecuteSystem, CsrInsnTypes, ExecuteMret, IsMret
      <3>3. CASE insn.type \notin CsrInsnTypes \cup {"Mret"}
        BY <2>1, <3>3 DEF ExecuteSystem, ExecuteEcall
      <3> QED  BY <3>1, <3>2, <3>3
    <2> QED  BY <2>2 DEF Effects
  <1>3. CASE insn.op \in {"OpFp", "FmaFp"}
    <2>1. /\ \A x \in FpResults : \A fd \in FRegs :
                Effects(insn, Accrue(WriteF(fd, x.value), x.flags))
          /\ \A x \in FpToIntResults : \A rd \in XRegs :
                Effects(insn, Accrue(WriteX(rd, x.value), x.flags))
      BY PlainEffects, AccrueEffects, WriteFType, WriteXType, ExecutorAssumption
    <2>2. CASE insn.op = "FmaFp"
      <3>1. r \in ExecuteFmaFp(insn) /\ insn.fd \in FRegs
        BY <2>2, InsnByOp DEF Execute, FmaFpInsn
      <3> QED  BY <2>1, <3>1 DEF ExecuteFmaFp, Aborted
    <2>3. CASE insn.op = "OpFp"
      <3>1. /\ r \in OpFpResults(insn)
            /\ insn.fd \in FRegs /\ insn.rd \in XRegs /\ insn.type \in OpFpTypes
        <4>1. insn \in OpFpInsn /\ r \in ExecuteOpFp(insn)
          BY <2>3, InsnByOp DEF Execute
        <4> QED  BY <4>1 DEF OpFpInsn, ExecuteOpFp, Aborted
      <3> USE DEF OpFpTypes, RoundingTypes, MinMaxTypes, FpToIntTypes, SgnjTypes
      <3>2. CASE insn.type \in RoundingTypes \cup MinMaxTypes
        <4>1. OpFpResults(insn) =
                 {Accrue(WriteF(insn.fd, x.value), x.flags) : x \in FpResults}
          BY <3>2 DEF OpFpResults
        <4> QED  BY <2>1, <3>1, <4>1
      <3>3. CASE insn.type \in FpToIntTypes
        <4>1. OpFpResults(insn) =
                 {Accrue(WriteX(insn.rd, x.value), x.flags) : x \in FpToIntResults}
          BY <3>3 DEF OpFpResults
        <4> QED  BY <2>1, <3>1, <4>1
      <3>4. CASE insn.type \in SgnjTypes \cup {"Class", "MoveToX", "MoveFromX"}
        <4>1. r.csr = "none" /\ r.next_privilege = priv
          BY <3>1, <3>4, PlainEffects DEF OpFpResults
        <4> QED  BY <4>1 DEF Effects
      <3> QED  BY <3>1, <3>2, <3>3, <3>4
    <2> QED  BY <1>3, <2>2, <2>3
  <1> QED  BY <1>1, <1>2, <1>3, InsnByOp

-----------------------------------------------------------------------------
\* What the writes of a step make of fcsr: nothing unless one of its names is
\* written, and never a change of the bits above its eight; its flags only
\* grow unless fflags or fcsr is written, with less.
LEMMA WrittenFcsr ==
    ASSUME TypeOK, NEW s \in NormalStep
    PROVE  LET old == csrs["fcsr"]
               new == WrittenCsrs(s)["fcsr"]
           IN  /\ s.csr \notin {"fflags", "frm", "fcsr"} => new = old
               /\ new \ Low(8) = old \ Low(8)
               /\ \/ s.csr \notin {"fflags", "fcsr"}
                  \/ s.csr = "fflags" /\ old \cap Fflags \subseteq s.c
                  => old \cap Fflags \subseteq new
  <1> DEFINE old == csrs["fcsr"]
             new == WrittenCsrs(s)["fcsr"]
             flags == s.c \cap Fflags
             mode == Srl(s.c, 5) \cap Low(3)
  <1>1. csrs \in [StoredCsrs -> Word] /\ s.c \in Word
    BY DEF TypeOK, CoreTypeOK, NormalStep
  <1>2. Fflags \subseteq Low(8) /\ Frm \subseteq Low(8) /\ Fflags \cap Frm = {}
    BY DEF Fflags, Frm, Low
  <1>3. \A v : Sll(v \cap Low(3), 5) \subseteq Frm
    BY WordFacts DEF Sll, Low, Frm
  <1>4. CASE s.csr = "fflags"
    <2>1. new = (old \ Fflags) \cup (s.c \cap Fflags)
      <3>1. new = FcsrAfter(old, "fflags", s.c)
        BY <1>1, <1>4, SetCsrFcsr DEF WrittenCsrs
      <3> QED  BY <3>1 DEF FcsrAfter
    <2> HIDE DEF old, new
    <2> QED  BY <1>2, <1>4, <2>1 DEF old, new
  <1>5. CASE s.csr = "frm"
    <2>1. new = (old \ Frm) \cup Sll(s.c \cap Low(3), 5)
      <3>1. new = FcsrAfter(old, "frm", s.c)
        BY <1>1, <1>5, SetCsrFcsr DEF WrittenCsrs
      <3> QED  BY <3>1 DEF FcsrAfter
    <2> HIDE DEF old, new
    <2> QED  BY <1>2, <1>3, <1>5, <2>1 DEF old, new
  <1>6. CASE s.csr = "fcsr"
    <2> DEFINE c1 == SetCsr(csrs, "fflags", flags)
    <2>1. flags \in Word
      BY <1>1 DEF Word
    <2>2. WrittenCsrs(s) = SetCsr(c1, "frm", mode)
      BY <1>6 DEF WrittenCsrs
    <2> HIDE DEF flags, mode
    <2>3. c1 \in [StoredCsrs -> Word] /\ c1["fcsr"] = FcsrAfter(old, "fflags", flags)
      BY <1>1, <2>1, SetCsrType, SetCsrFcsr
    <2> HIDE DEF c1
    <2>4. new = FcsrAfter(c1["fcsr"], "frm", mode)
      BY <2>2, <2>3, SetCsrFcsr
    <2>5. /\ c1["fcsr"] = (old \ Fflags) \cup (flags \cap Fflags)
          /\ new = (c1["fcsr"] \ Frm) \cup Sll(mode \cap Low(3), 5)
      BY <2>3, <2>4 DEF FcsrAfter
    <2> HIDE DEF old, new
    <2> QED  BY <1>2, <1>3, <1>6, <2>5 DEF old, new
  <1>7. CASE s.csr \notin {"fflags", "frm", "fcsr"}
    <2>1. new = old
      BY <1>1, <1>7, SetCsrFcsr DEF WrittenCsrs, FcsrAfter
    <2> QED  BY <1>7, <2>1
  <1> QED  BY <1>4, <1>5, <1>6, <1>7

\* The dirty mark that step appends leaves fcsr as the writes made it.
LEMMA NextFcsr ==
    ASSUME TypeOK, NEW s \in NormalStep
    PROVE  NextCsrs(s)["fcsr"] = WrittenCsrs(s)["fcsr"]
  BY WrittenCsrsType, SetCsrFcsr DEF NextCsrs, FcsrAfter

\* A trap writes four registers, none of them a view of fcsr.
LEMMA TrapKeepsFcsr ==
    ASSUME TypeOK, NEW r \in StepResult, TakeTrap(r)
    PROVE  csrs'["fcsr"] = csrs["fcsr"]
  <1>1. /\ r.mcause \in Word /\ r.mtval \in Word /\ pc \in Word
        /\ csrs \in [StoredCsrs -> Word]
    BY DEF TakeTrap, StepResult, Exception, NormalStep, Fault, TypeOK, CoreTypeOK
  <1>2. \A c \in [StoredCsrs -> Word] : \A v \in Word :
           \A name \in {"mcause", "mtval", "mepc", "mstatus"} :
              /\ SetCsr(c, name, v) \in [StoredCsrs -> Word]
              /\ SetCsr(c, name, v)["fcsr"] = c["fcsr"]
    <2> SUFFICES ASSUME NEW c \in [StoredCsrs -> Word], NEW v \in Word,
                        NEW name \in {"mcause", "mtval", "mepc", "mstatus"}
                 PROVE  /\ SetCsr(c, name, v) \in [StoredCsrs -> Word]
                        /\ SetCsr(c, name, v)["fcsr"] = c["fcsr"]
      OBVIOUS
    <2>1. SetCsr(c, name, v) \in [StoredCsrs -> Word]
      BY SetCsrType
    <2>2. FcsrAfter(c["fcsr"], name, v) = c["fcsr"]
      BY DEF FcsrAfter
    <2> QED  BY <2>1, <2>2, SetCsrFcsr
  <1> DEFINE c1 == SetCsr(csrs, "mcause", r.mcause)
             c2 == SetCsr(c1, "mtval", r.mtval)
             c3 == SetCsr(c2, "mepc", pc)
             m == TrapMstatus(csrs["mstatus"], priv)
  <1>3. m \in Word
    BY <1>1, TrapMstatusType DEF StoredCsrs
  <1>4. c1 \in [StoredCsrs -> Word] /\ c1["fcsr"] = csrs["fcsr"]
    BY <1>1, <1>2
  <1>5. c2 \in [StoredCsrs -> Word] /\ c2["fcsr"] = csrs["fcsr"]
    <2> HIDE DEF c1
    <2> QED  BY <1>1, <1>2, <1>4
  <1>6. c3 \in [StoredCsrs -> Word] /\ c3["fcsr"] = csrs["fcsr"]
    <2> HIDE DEF c2
    <2> QED  BY <1>1, <1>2, <1>5
  <1>7. csrs' = SetCsr(c3, "mstatus", m)
    BY DEF TakeTrap, TakeException
  <1> HIDE DEF c3, m
  <1> QED  BY <1>2, <1>3, <1>6, <1>7

\* What an instruction does to fcsr, the float registers and the dirty mark.
LEMMA StepEffects ==
    ASSUME TypeOK, NEW insn \in Insns, NEW r \in Execute(insn), Finish(r)
    PROVE  /\ fprs' # fprs \/ csrs'["fcsr"] # csrs["fcsr"]
                => FS_DIRTY \subseteq csrs'["mstatus"]
           /\ csrs'["fcsr"] \ Low(8) = csrs["fcsr"] \ Low(8)
           /\ \/ csrs["fcsr"] \cap Fflags \subseteq csrs'["fcsr"]
              \/ \E name \in {"fflags", "fcsr"} : CsrOn(insn, name)
  <1>0. r \in StepResult
    BY ExecuteType
  <1>1. CASE TakeTrap(r)
    BY <1>0, <1>1, TrapKeepsFcsr DEF TakeTrap, TakeException
  <1>2. CASE Fail(r)
    BY <1>2 DEF Fail
  <1>3. CASE Retire(r)
    <2>1. r \in NormalStep /\ r.kind = "normal" /\ Effects(insn, r)
      BY <1>0, <1>3, ExecuteEffects DEF Retire, StepResult, Exception, Fault
    <2>2. fprs' # fprs => r.fd # {}
      BY <1>3 DEF Retire, NextFprs, TypeOK, CoreTypeOK
    <2>3. CASE r.csr # "none" /\ ~Writable(r.csr)
      <3>1. csrs' = csrs
        BY <1>3, <2>3 DEF Retire
      <3>2. r.csr \notin {"none", "fflags"}
        BY <2>3 DEF Writable, CsrNames
      <3>3. fprs' = fprs
        BY <2>1, <2>2, <3>2 DEF Effects
      <3> QED  BY <3>1, <3>3
    <2>4. CASE r.csr = "none" \/ Writable(r.csr)
      <3>1. csrs' = NextCsrs(r)
        BY <1>3, <2>4 DEF Retire
      <3>2. csrs'["fcsr"] = WrittenCsrs(r)["fcsr"]
        BY <2>1, <3>1, NextFcsr
      <3>3. csrs'["fcsr"] \ Low(8) = csrs["fcsr"] \ Low(8)
        BY <2>1, <3>2, WrittenFcsr
      <3>4. \/ csrs["fcsr"] \cap Fflags \subseteq csrs'["fcsr"]
            \/ \E name \in {"fflags", "fcsr"} : CsrOn(insn, name)
        BY <2>1, <3>2, WrittenFcsr DEF Effects
      <3>5. ASSUME fprs' # fprs \/ csrs'["fcsr"] # csrs["fcsr"]
            PROVE  FS_DIRTY \subseteq csrs'["mstatus"]
        <4>1. csrs'["fcsr"] # csrs["fcsr"] => r.csr \in {"fflags", "frm", "fcsr"}
          BY <2>1, <3>2, WrittenFcsr
        <4>2. WritesFpState(r) /\ r.csr # "mstatus"
          BY <2>1, <2>2, <3>5, <4>1 DEF WritesFpState, Effects
        <4>3. WrittenCsrs(r)["mstatus"] = csrs["mstatus"]
          BY <2>1, <4>2, WrittenMstatus
        <4>4. CASE csrs["mstatus"] \cap FS = FS_DIRTY
          <5>1. csrs'["mstatus"] = csrs["mstatus"]
            BY <3>1, <4>3, <4>4 DEF NextCsrs, AppendsDirty
          <5> QED  BY <4>4, <5>1
        <4>5. CASE csrs["mstatus"] \cap FS # FS_DIRTY
          <5> DEFINE marked == (csrs["mstatus"] \ FS) \cup FS_DIRTY
          <5>1. csrs' = SetCsr(WrittenCsrs(r), "mstatus", marked)
            BY <3>1, <4>2, <4>5 DEF NextCsrs, AppendsDirty
          <5>2. csrs'["mstatus"] = LegalMstatus(csrs["mstatus"], marked)
            BY <2>1, <4>3, <5>1, WrittenCsrsType, SetCsrMstatus
          <5>3. FS_DIRTY \subseteq marked
            OBVIOUS
          <5> HIDE DEF marked
          <5>4. FS_DIRTY \subseteq LegalMstatus(csrs["mstatus"], marked)
            BY <5>3 DEF LegalMstatus, MSTATUS_WRITABLE, MIE, MPIE, MPP, FS, MPRV, SD, FS_DIRTY
          <5> QED  BY <5>2, <5>4
        <4> QED  BY <4>4, <4>5
      <3> QED  BY <3>3, <3>4, <3>5
    <2> QED  BY <2>3, <2>4
  <1> QED  BY <1>1, <1>2, <1>3 DEF Finish

\* Every change of floating-point state leaves mstatus.FS dirty.
THEOREM FpChangesMarkDirty == Spec => FpChangesAreDirty
  <1> DEFINE Dirty == fprs' # fprs \/ csrs'["fcsr"] # csrs["fcsr"]
                        => FS_DIRTY \subseteq csrs'["mstatus"]
  <1>1. TypeOK /\ [Next]_vars => [Dirty]_vars
    <2>1. ASSUME TypeOK, NEW insn \in Insns, Step(insn) PROVE Dirty
      BY <2>1, StepEffects DEF Step
    <2> QED  BY <2>1 DEF Next, FetchFault, Ended, vars
  <1> QED  BY <1>1, TypeCorrect, PTL DEF Spec, FpChangesAreDirty

\* An accrued flag is lost to writes of fflags and fcsr only.
THEOREM AccruedFlagsAreKept == Spec => AccruedFlagsStick
  <1> DEFINE Kept == \/ csrs["fcsr"] \cap Fflags \subseteq csrs'["fcsr"]
                     \/ \E insn \in Insns :
                          /\ insn.op = "System" /\ insn.type \in CsrInsnTypes
                          /\ insn.csr \in {"fflags", "fcsr"}
                          /\ Step(insn)
  <1>1. TypeOK /\ [Next]_vars => [Kept]_vars
    <2>1. ASSUME TypeOK, NEW insn \in Insns, Step(insn) PROVE Kept
      BY <2>1, StepEffects DEF Step, CsrOn
    <2> QED  BY <2>1 DEF Next, FetchFault, Ended, vars
  <1> QED  BY <1>1, TypeCorrect, PTL DEF Spec, AccruedFlagsStick

\* The bits of fcsr above its eight never change.
THEOREM FcsrKeepsUpperBits == Spec => FcsrUpperBitsFrozen
  <1> DEFINE Frozen == csrs'["fcsr"] \ Low(8) = csrs["fcsr"] \ Low(8)
  <1>1. TypeOK /\ [Next]_vars => [Frozen]_vars
    <2>1. ASSUME TypeOK, NEW insn \in Insns, Step(insn) PROVE Frozen
      BY <2>1, StepEffects DEF Step
    <2> QED  BY <2>1 DEF Next, FetchFault, Ended, vars
  <1> QED  BY <1>1, TypeCorrect, PTL DEF Spec, FcsrUpperBitsFrozen

-----------------------------------------------------------------------------
(***************************************************************************)
(* The set and clear forms.  What they compute differs from the old value  *)
(* in bits of the operand only, and set_csr adds at most the bits it       *)
(* derives; CSRRCI is the exception, for the mask it applies has the upper *)
(* half clear, so the theorem is about programs without it.                *)
(***************************************************************************)
Selective(insn) ==
    /\ insn.op = "System" /\ insn.type \in {"Csrrs", "Csrrc", "Csrrsi"}
    /\ insn.csr \in StoredCsrs \ {"fcsr"}

\* What such an instruction leaves in its register.
LEMMA SelectedBits ==
    ASSUME NEW insn, Selective(insn), NEW c \in [StoredCsrs -> Word]
    PROVE  LET old == c[insn.csr]
           IN  Xor(SetCsr(c, insn.csr, NewCsrValue(insn, old))[insn.csr], old)
                  \subseteq Operand(insn) \cup Derived(insn.csr)
  <1> DEFINE old == c[insn.csr]
             v == NewCsrValue(insn, old)
             new == SetCsr(c, insn.csr, v)[insn.csr]
  <1>1. Xor(v, old) \subseteq Operand(insn)
    BY DEF Selective, NewCsrValue, Operand, Xor
  <1> HIDE DEF v
  <1>2. Xor(new, v) \cap Xor(new, old) \subseteq Derived(insn.csr)
    <2>1. CASE insn.csr = "mstatus"
      <3>1. new = LegalMstatus(old, v)
        BY <2>1, SetCsrMstatus
      <3>2. Derived(insn.csr) = SD
        BY <2>1 DEF Derived
      <3> HIDE DEF new, old
      <3> QED  BY <3>1, <3>2 DEF LegalMstatus, Xor, MSTATUS_WRITABLE
    <2>2. CASE insn.csr \in {"mepc", "mtvec"}
      <3>1. new = v \ {0, 1}
        BY <2>2 DEF SetCsr, StoredCsrs
      <3>2. Derived(insn.csr) = {0, 1}
        BY <2>2 DEF Derived
      <3> HIDE DEF new, old
      <3> QED  BY <3>1, <3>2 DEF Xor
    <2>3. CASE insn.csr \notin {"mstatus", "mepc", "mtvec"}
      <3>1. new = v
        BY <2>3 DEF SetCsr, Selective, StoredCsrs
      <3> QED  BY <3>1 DEF Xor
    <2> QED  BY <2>1, <2>2, <2>3
  <1> HIDE DEF new, old
  <1>3. Xor(new, old) \subseteq Operand(insn) \cup Derived(insn.csr)
    BY <1>1, <1>2 DEF Xor
  <1> QED  BY <1>3 DEF new, old, v

\* A set or clear form in a program without CSRRCI changes, in the register it
\* names, the bits of its operand and those set_csr derives, and no other.
THEOREM SetAndClearSelectBits ==
    ASSUME \A insn \in Insns : insn.op = "System" => insn.type # "Csrrci"
    PROVE  Spec => OnlyOperandBitsChange
  <1> DEFINE Stays(insn) == Xor(csrs'[insn.csr], csrs[insn.csr])
                               \subseteq Operand(insn) \cup Derived(insn.csr)
             Selects == \A insn \in Insns :
                /\ insn.op = "System" /\ insn.type \in {"Csrrs", "Csrrc", "Csrrsi", "Csrrci"}
                /\ insn.csr \in StoredCsrs \ {"fcsr"}
                /\ Step(insn)
                => Stays(insn)
  <1>1. TypeOK /\ [Next]_vars => [Selects]_vars
    <2> SUFFICES ASSUME TypeOK, NEW insn \in Insns, Selective(insn), Step(insn)
                 PROVE  Stays(insn)
      BY DEF Selective
    <2>1. PICK r \in Execute(insn) : Finish(r)
      BY DEF Step
    <2>2. csrs \in [StoredCsrs -> Word]
      BY DEF TypeOK, CoreTypeOK
    <2>3. r \in StepResult /\ r \in ExecuteCsr(insn) /\ HasCsr(insn.csr)
      BY ExecuteType DEF Execute, ExecuteSystem, Selective, CsrInsnTypes, HasCsr, CsrNames
    <2>4. CASE csrs' = csrs
      BY <2>4 DEF Xor
    <2>5. CASE csrs' # csrs
      <3> DEFINE v == NewCsrValue(insn, GetCsr(csrs, insn.csr))
      <3>1. r.kind = "normal" /\ r.fd = {}
        BY <2>3 DEF ExecuteCsr, WriteX, Fallthrough
      <3>2. r.csr = "none" \/ (r.csr = insn.csr /\ r.c = v)
        BY <2>3 DEF ExecuteCsr, WriteX, Fallthrough
      <3> HIDE DEF v
      <3>3. ~AppendsDirty(r)
        BY <3>1, <3>2 DEF AppendsDirty, WritesFpState, Selective, StoredCsrs
      <3>4. csrs' = WrittenCsrs(r)
        BY <2>1, <2>5, <3>1, <3>3 DEF Finish, Retire, TakeTrap, Fail, NextCsrs
      <3>5. csrs' = SetCsr(csrs, insn.csr, v)
        BY <2>5, <3>2, <3>4 DEF WrittenCsrs, Selective, StoredCsrs
      <3>6. GetCsr(csrs, insn.csr) = csrs[insn.csr]
        BY DEF GetCsr, Selective, StoredCsrs
      <3> QED  BY <2>2, <3>5, <3>6, SelectedBits DEF v
    <2> QED  BY <2>4, <2>5
  <1> QED  BY <1>1, TypeCorrect, PTL DEF Spec, OnlyOperandBitsChange

-----------------------------------------------------------------------------
(***************************************************************************)
(* Executor implements TrapStack.  Every step of the hart is, under the    *)
(* refinement mapping Stack of Executor, one of the actions of TrapStack   *)
(* or a stutter: the proof finds which, from the register that the step    *)
(* writes and from what the masks of mstatus let through.                  *)
(***************************************************************************)


\* The registers the mapping reads: a context is three fields of mstatus.
StackedMode(m) == Srl(m \cap MPP, 11)
SameContext(m, n) ==
    /\ MIE \subseteq m <=> MIE \subseteq n
    /\ MPIE \subseteq m <=> MPIE \subseteq n
    /\ StackedMode(m) = StackedMode(n)

-----------------------------------------------------------------------------
\* set_csr on the two address registers: asked for, they are aligned.
AddressAfter(a, name, written, v) == IF name = written THEN v \ {0, 1} ELSE a

LEMMA SetCsrAddresses ==
    ASSUME NEW c \in [StoredCsrs -> Word], NEW name, NEW v
    PROVE  /\ SetCsr(c, name, v)["mepc"] = AddressAfter(c["mepc"], "mepc", name, v)
           /\ SetCsr(c, name, v)["mtvec"] = AddressAfter(c["mtvec"], "mtvec", name, v)
  BY DEF SetCsr, StoredCsrs, AddressAfter

LEMMA SetCsrKeepsAddresses ==
    ASSUME NEW c \in [StoredCsrs -> Word], NEW name, NEW v, name \notin {"mepc", "mtvec"}
    PROVE  SetCsr(c, name, v)["mepc"] = c["mepc"] /\ SetCsr(c, name, v)["mtvec"] = c["mtvec"]
  BY DEF SetCsr, StoredCsrs

\* An aligned address is one the abstract specification can resume at.
LEMMA AlignedResumable ==
    \A a \in Word : a \ {0, 1} \in SUBSET (2 .. XLEN - 1)
  BY WordFacts

\* Legalising a value keeps its context.
LEMMA LegalContext ==
    ASSUME NEW old, NEW v
    PROVE  SameContext(LegalMstatus(old, v), v)
  <1> USE DEF MSTATUS_WRITABLE, MIE, MPIE, MPP, FS, MPRV, SD
  <1>1. LegalMstatus(old, v) \cap MPP = v \cap MPP
    BY DEF LegalMstatus
  <1>2. MIE \subseteq LegalMstatus(old, v) <=> MIE \subseteq v
    BY DEF LegalMstatus
  <1>3. MPIE \subseteq LegalMstatus(old, v) <=> MPIE \subseteq v
    BY DEF LegalMstatus
  <1> QED  BY <1>1, <1>2, <1>3 DEF SameContext, StackedMode

\* Marking FS dirty keeps the context.
LEMMA DirtyContext ==
    \A m : SameContext((m \ FS) \cup FS_DIRTY, m)
  <1> SUFFICES ASSUME NEW m PROVE SameContext((m \ FS) \cup FS_DIRTY, m)
    OBVIOUS
  <1> USE DEF FS, FS_DIRTY, MIE, MPIE, MPP
  <1>1. ((m \ FS) \cup FS_DIRTY) \cap MPP = m \cap MPP
    OBVIOUS
  <1> QED  BY <1>1 DEF SameContext, StackedMode

\* Trap entry stacks the context: it is what mret will restore.
LEMMA TrapContext ==
    ASSUME NEW old, NEW from \in PrivilegeBits
    PROVE  LET m == TrapMstatus(old, from)
           IN  /\ StackedMode(m) = from
               /\ MPIE \subseteq m <=> MIE \subseteq old
               /\ ~(MIE \subseteq m)
  <1> DEFINE stacked == IF MIE \subseteq old THEN old \cup MPIE ELSE old \ MPIE
             sd == IF stacked \cap FS = FS_DIRTY THEN stacked \cup SD ELSE stacked \ SD
             m == ((sd \ MIE) \ MPP) \cup Sll(from, 11)
  <1>1. TrapMstatus(old, from) = m
    BY DEF TrapMstatus
  <1>2. \A i : i \in Sll(from, 11) <=> i \in {11, 12} /\ i - 11 \in from
    BY WordFacts DEF Sll, PrivilegeBits
  <1>3. \A i \in MIE \cup MPIE : i \notin MPP /\ i \notin Sll(from, 11)
    BY <1>2 DEF MIE, MPIE, MPP
  <1>4. m \cap MPP = Sll(from, 11)
    BY <1>2 DEF MPP
  <1>5. Srl(Sll(from, 11), 11) = from
    <2>1. \A i \in 0 .. 63 : i + 11 \in Sll(from, 11) <=> i \in from
      <3> SUFFICES ASSUME NEW i \in 0 .. 63
                   PROVE  i + 11 \in Sll(from, 11) <=> i \in from
        OBVIOUS
      <3>1. (i + 11) - 11 = i /\ (i + 11 \in {11, 12} <=> i \in {0, 1})
        OBVIOUS
      <3> QED  BY <1>2, <3>1 DEF PrivilegeBits
    <2>2. from \subseteq 0 .. 63
      BY DEF PrivilegeBits
    <2> QED  BY <2>1, <2>2, WordFacts DEF Srl
  <1>6. 7 \in sd <=> 3 \in old
    BY DEF MIE, MPIE, SD
  <1> HIDE DEF sd
  <1>7. 7 \in m <=> 3 \in old
    BY <1>3, <1>6 DEF MIE, MPIE, MPP
  <1>8. 3 \notin m
    BY <1>3 DEF MIE, MPIE, MPP
  <1> HIDE DEF m
  <1> QED  BY <1>1, <1>4, <1>5, <1>7, <1>8 DEF StackedMode, MIE, MPIE

\* A return pops the context and leaves user mode with interrupts on behind.
LEMMA MretContext ==
    ASSUME NEW old
    PROVE  LET m == MretMstatus(old)
           IN  /\ StackedMode(m) = User
               /\ MPIE \subseteq m
               /\ MIE \subseteq m <=> MPIE \subseteq old
  <1> DEFINE mie == IF MPIE \subseteq old THEN old \cup MIE ELSE old \ MIE
             popped == (mie \cup MPIE) \ MPP
  <1>1. MretMstatus(old) \in {popped, popped \ MPRV}
    BY DEF MretMstatus
  <1>2. popped \cap MPP = {} /\ 7 \in popped /\ (3 \in popped <=> 7 \in old)
    BY DEF MIE, MPIE, MPP
  <1> HIDE DEF popped
  <1>3. /\ MretMstatus(old) \cap MPP = {} /\ 7 \in MretMstatus(old)
        /\ 3 \in MretMstatus(old) <=> 7 \in old
    BY <1>1, <1>2 DEF MPRV
  <1>4. Srl({}, 11) = {}
    BY DEF Srl
  <1> QED  BY <1>3, <1>4 DEF StackedMode, User, MIE, MPIE

-----------------------------------------------------------------------------
\* The address registers and the context after the writes of a step, the
\* halves of fcsr and the dirty mark included.
LEMMA NextAddresses ==
    ASSUME TypeOK, NEW s \in NormalStep
    PROVE  /\ NextCsrs(s)["mepc"] = AddressAfter(csrs["mepc"], "mepc", s.csr, s.c)
           /\ NextCsrs(s)["mtvec"] = AddressAfter(csrs["mtvec"], "mtvec", s.csr, s.c)
  <1>0. csrs \in [StoredCsrs -> Word] /\ s.c \in Word
    BY DEF TypeOK, CoreTypeOK, NormalStep
  <1>1. /\ WrittenCsrs(s)["mepc"] = AddressAfter(csrs["mepc"], "mepc", s.csr, s.c)
        /\ WrittenCsrs(s)["mtvec"] = AddressAfter(csrs["mtvec"], "mtvec", s.csr, s.c)
    <2>1. CASE s.csr = "none"
      BY <2>1 DEF WrittenCsrs, AddressAfter
    <2>2. CASE s.csr = "fcsr"
      <3> DEFINE flags == s.c \cap Fflags
                 mode == Srl(s.c, 5) \cap Low(3)
                 c1 == SetCsr(csrs, "fflags", flags)
      <3>1. flags \in Word
        BY <1>0 DEF Word
      <3>2. WrittenCsrs(s) = SetCsr(c1, "frm", mode)
        BY <2>2 DEF WrittenCsrs
      <3> HIDE DEF flags, mode
      <3>3. c1 \in [StoredCsrs -> Word]
        BY <1>0, <3>1, SetCsrType
      <3>4. c1["mepc"] = csrs["mepc"] /\ c1["mtvec"] = csrs["mtvec"]
        BY <1>0, SetCsrKeepsAddresses
      <3> HIDE DEF c1
      <3>5. /\ WrittenCsrs(s)["mepc"] = csrs["mepc"]
            /\ WrittenCsrs(s)["mtvec"] = csrs["mtvec"]
        BY <3>2, <3>3, <3>4, SetCsrKeepsAddresses
      <3> QED  BY <2>2, <3>5 DEF AddressAfter
    <2>3. CASE s.csr \notin {"none", "fcsr"}
      BY <1>0, <2>3, SetCsrAddresses DEF WrittenCsrs
    <2> QED  BY <2>1, <2>2, <2>3
  <1>2. \A v : /\ SetCsr(WrittenCsrs(s), "mstatus", v)["mepc"] = WrittenCsrs(s)["mepc"]
               /\ SetCsr(WrittenCsrs(s), "mstatus", v)["mtvec"] = WrittenCsrs(s)["mtvec"]
    BY WrittenCsrsType, SetCsrKeepsAddresses
  <1> QED  BY <1>1, <1>2 DEF NextCsrs

LEMMA NextContext ==
    ASSUME TypeOK, NEW s \in NormalStep, s.csr # "mstatus"
    PROVE  SameContext(NextCsrs(s)["mstatus"], csrs["mstatus"])
  <1> DEFINE marked == (csrs["mstatus"] \ FS) \cup FS_DIRTY
  <1>1. WrittenCsrs(s)["mstatus"] = csrs["mstatus"]
    BY WrittenMstatus
  <1>2. CASE AppendsDirty(s)
    <2>1. NextCsrs(s) = SetCsr(WrittenCsrs(s), "mstatus", marked)
      BY <1>2 DEF NextCsrs
    <2>2. SameContext(marked, csrs["mstatus"])
      BY DirtyContext
    <2> HIDE DEF marked
    <2>3. NextCsrs(s)["mstatus"] = LegalMstatus(csrs["mstatus"], marked)
      BY <1>1, <2>1, WrittenCsrsType, SetCsrMstatus
    <2> QED  BY <2>2, <2>3, LegalContext DEF SameContext
  <1>3. CASE ~AppendsDirty(s)
    BY <1>1, <1>3 DEF NextCsrs, SameContext
  <1> QED  BY <1>2, <1>3

-----------------------------------------------------------------------------
\* A step that completes is a return if it is MRET, a rewrite if it writes
\* mstatus, mepc or mtvec, and else keeps both contexts.
LEMMA RetireStacks ==
    ASSUME TypeOK, NEW insn \in Insns, NEW r \in Execute(insn), Retire(r)
    PROVE  Stack!Next
  <1>0. /\ csrs \in [StoredCsrs -> Word]
        /\ {"mepc", "mtvec", "mstatus"} \subseteq StoredCsrs
    BY DEF TypeOK, CoreTypeOK, StoredCsrs
  <1>1. r \in NormalStep /\ r.kind = "normal" /\ Effects(insn, r)
    BY ExecuteType, ExecuteEffects DEF Retire, StepResult, Exception, Fault
  <1>2. pc' = r.next_pc /\ pc' \in Word /\ priv' = r.next_privilege
    BY <1>1 DEF Retire, NormalStep
  <1> USE DEF Stack!Next
  <1>4. CASE IsMret(insn)
    <2>1. /\ r.next_pc = csrs["mepc"] /\ r.next_privilege = StackedMode(csrs["mstatus"])
          /\ r.csr = "mstatus" /\ r.c = MretMstatus(csrs["mstatus"])
          /\ r.fd = {}
      <3>1. r \in ExecuteMret
        BY <1>4 DEF IsMret, Execute, ExecuteSystem, CsrInsnTypes
      <3>2. GetCsr(csrs, "mepc") = csrs["mepc"]
        BY DEF GetCsr
      <3> QED  BY <3>1, <3>2 DEF ExecuteMret, Fallthrough, StackedMode
    <2>2. csrs' = SetCsr(csrs, "mstatus", r.c)
      BY <1>1, <2>1 DEF Retire, Writable, CsrNames, StoredCsrs, NextCsrs, WrittenCsrs,
                        AppendsDirty, WritesFpState
    <2>3. /\ csrs'["mstatus"] = LegalMstatus(csrs["mstatus"], r.c)
          /\ csrs'["mepc"] = csrs["mepc"] /\ csrs'["mtvec"] = csrs["mtvec"]
      BY <1>0, <2>2, SetCsrMstatus, SetCsrKeepsAddresses
    <2>4. /\ StackedMode(csrs'["mstatus"]) = User
          /\ MPIE \subseteq csrs'["mstatus"]
          /\ MIE \subseteq csrs'["mstatus"] <=> MPIE \subseteq csrs["mstatus"]
      BY <2>1, <2>3, MretContext, LegalContext DEF SameContext
    <2>5. Stack!Return
      BY <1>2, <2>1, <2>3, <2>4 DEF Stack!Return, StackedMode
    <2> QED  BY <2>5
  <1>5. CASE ~IsMret(insn)
    <2>1. priv' = priv
      BY <1>1, <1>2, <1>5 DEF Effects
    <2>2. CASE r.csr # "none" /\ ~Writable(r.csr)
      <3>1. csrs' = csrs
        BY <1>1, <2>2 DEF Retire
      <3>2. Stack!Run
        BY <1>2, <2>1, <3>1 DEF Stack!Run
      <3> QED  BY <3>2
    <2>3. CASE r.csr = "none" \/ Writable(r.csr)
      <3>1. csrs' = NextCsrs(r)
        BY <1>1, <2>3 DEF Retire
      <3>2. /\ csrs'["mepc"] = AddressAfter(csrs["mepc"], "mepc", r.csr, r.c)
            /\ csrs'["mtvec"] = AddressAfter(csrs["mtvec"], "mtvec", r.csr, r.c)
        BY <1>1, <3>1, NextAddresses
      <3>3. r.csr # "mstatus" => SameContext(csrs'["mstatus"], csrs["mstatus"])
        BY <1>1, <3>1, NextContext
      <3>4. r.c \ {0, 1} \in SUBSET (2 .. XLEN - 1)
        BY <1>1, AlignedResumable DEF NormalStep
      <3>5. CASE r.csr = "mstatus"
        <4>1. csrs'["mepc"] = csrs["mepc"] /\ csrs'["mtvec"] = csrs["mtvec"]
          BY <3>2, <3>5 DEF AddressAfter
        <4>2. Srl(csrs'["mstatus"] \cap MPP, 11) \in PrivilegeBits
          BY PreviousPrivilege
        <4>3. Stack!RewriteStatus
          BY <1>2, <2>1, <4>1, <4>2 DEF Stack!RewriteStatus
        <4> QED  BY <4>3
      <3>6. CASE r.csr = "mepc"
        <4>1. csrs'["mepc"] = r.c \ {0, 1} /\ csrs'["mtvec"] = csrs["mtvec"]
          BY <3>2, <3>6 DEF AddressAfter
        <4>2. SameContext(csrs'["mstatus"], csrs["mstatus"])
          BY <3>3, <3>6
        <4>3. Stack!RewriteResume
          BY <1>2, <2>1, <3>4, <4>1, <4>2
             DEF Stack!RewriteResume, SameContext, StackedMode
        <4> QED  BY <4>3
      <3>7. CASE r.csr = "mtvec"
        <4>1. csrs'["mtvec"] = r.c \ {0, 1} /\ csrs'["mepc"] = csrs["mepc"]
          BY <3>2, <3>7 DEF AddressAfter
        <4>2. csrs'["mtvec"] \ {0, 1} = r.c \ {0, 1}
          BY <4>1
        <4>3. SameContext(csrs'["mstatus"], csrs["mstatus"])
          BY <3>3, <3>7
        <4>4. Stack!RewriteHandler
          BY <1>2, <2>1, <3>4, <4>1, <4>2, <4>3
             DEF Stack!RewriteHandler, SameContext, StackedMode
        <4> QED  BY <4>4
      <3>8. CASE r.csr \notin {"mstatus", "mepc", "mtvec"}
        <4>1. csrs'["mepc"] = csrs["mepc"] /\ csrs'["mtvec"] = csrs["mtvec"]
          BY <3>2, <3>8 DEF AddressAfter
        <4>2. SameContext(csrs'["mstatus"], csrs["mstatus"])
          BY <3>3, <3>8
        <4>3. Stack!Run
          BY <1>2, <2>1, <4>1, <4>2 DEF Stack!Run, SameContext, StackedMode
        <4> QED  BY <4>3
      <3> QED  BY <3>5, <3>6, <3>7, <3>8
    <2> QED  BY <2>2, <2>3
  <1> QED  BY <1>4, <1>5

\* A trap pushes the running context and enters the handler.
LEMMA TrapStacks ==
    ASSUME TypeOK, NEW r \in StepResult, TakeTrap(r)
    PROVE  Stack!Next
  <1>1. /\ r.mcause \in Word /\ r.mtval \in Word /\ pc \in Word
        /\ csrs \in [StoredCsrs -> Word] /\ priv \in PrivilegeBits
        /\ csrs["mstatus"] \in Word
    BY DEF TakeTrap, StepResult, Exception, NormalStep, Fault, TypeOK, CoreTypeOK,
           StoredCsrs
  <1> DEFINE old == csrs["mstatus"]
             m == TrapMstatus(old, priv)
             c1 == SetCsr(csrs, "mcause", r.mcause)
             c2 == SetCsr(c1, "mtval", r.mtval)
             c3 == SetCsr(c2, "mepc", pc)
  <1>2. c1 \in [StoredCsrs -> Word] /\ c1["mstatus"] = old /\ c1["mtvec"] = csrs["mtvec"]
    BY <1>1, SetCsrType, SetCsrMstatus, SetCsrKeepsAddresses
  <1>3. c2 \in [StoredCsrs -> Word] /\ c2["mstatus"] = old /\ c2["mtvec"] = csrs["mtvec"]
    <2> HIDE DEF c1
    <2> QED  BY <1>1, <1>2, SetCsrType, SetCsrMstatus, SetCsrKeepsAddresses
  <1>4. /\ c3 \in [StoredCsrs -> Word] /\ c3["mstatus"] = old
        /\ c3["mtvec"] = csrs["mtvec"] /\ c3["mepc"] = pc \ {0, 1}
    <2> HIDE DEF c2
    <2>1. c3["mepc"] = pc \ {0, 1} /\ c3["mtvec"] = c2["mtvec"]
      BY <1>3 DEF SetCsr, StoredCsrs
    <2> QED  BY <1>1, <1>3, <2>1, SetCsrType, SetCsrMstatus
  <1>5. csrs' = SetCsr(c3, "mstatus", m)
    BY DEF TakeTrap, TakeException
  <1> HIDE DEF c3, m
  <1>6. /\ csrs'["mstatus"] = LegalMstatus(old, m)
        /\ csrs'["mtvec"] = csrs["mtvec"] /\ csrs'["mepc"] = pc \ {0, 1}
    BY <1>4, <1>5, SetCsrMstatus, SetCsrKeepsAddresses
  <1>7. /\ StackedMode(m) = priv
        /\ MPIE \subseteq m <=> MIE \subseteq old
        /\ ~(MIE \subseteq m)
    BY <1>1, TrapContext DEF m
  <1>8. /\ StackedMode(csrs'["mstatus"]) = priv
        /\ MPIE \subseteq csrs'["mstatus"] <=> MIE \subseteq old
        /\ ~(MIE \subseteq csrs'["mstatus"])
    BY <1>6, <1>7, LegalContext DEF SameContext
  <1>9. pc' = csrs["mtvec"] \ {0, 1} /\ priv' = Machine
    <2>1. GetCsr(csrs', "mtvec") = csrs'["mtvec"]
      BY DEF GetCsr
    <2> QED  BY <1>6, <2>1 DEF TakeTrap, TakeException
  <1>10. Stack!Trap
    BY <1>6, <1>8, <1>9 DEF Stack!Trap, StackedMode, ResumeAlign
  <1> QED  BY <1>10 DEF Stack!Next

\* The hart implements the stack of one interrupted context: for every
\* instruction stream, every trap can be undone by mret, the privilege
\* changes by trap and mret alone, and nothing but a write that names the
\* register changes where either leads.
THEOREM ImplementsTrapStack == Spec => TrapStackSpec
  <1>1. Init => Stack!Init
    <2> SUFFICES ASSUME Init PROVE Stack!Init
      OBVIOUS
    <2>1. PICK garbage \in Boot : csrs = [garbage EXCEPT !["mstatus"] = UXL_RV64]
      BY DEF Init, CoreInit
    <2>2. /\ csrs["mstatus"] = UXL_RV64
          /\ csrs["mepc"] \in Word /\ csrs["mtvec"] \in Word
      BY <2>1, CoreAssumption DEF StoredCsrs
    <2>3. pc \in Word /\ priv = Machine
      BY ExecutorAssumption DEF Init, CoreInit
    <2>4. /\ UXL_RV64 \cap MPP = {} /\ ~(MIE \subseteq UXL_RV64)
          /\ ~(MPIE \subseteq UXL_RV64)
      BY DEF UXL_RV64, MPP, MIE, MPIE
    <2>5. Srl({}, 11) = User
      BY DEF Srl, User
    <2>6. csrs["mtvec"] \ {0, 1} \in SUBSET (2 .. XLEN - 1)
      BY <2>2, AlignedResumable
    <2> QED  BY <2>2, <2>3, <2>4, <2>5, <2>6 DEF Stack!Init
  <1>2. TypeOK /\ [Next]_vars => [Stack!Next]_(Stack!trapVars)
    <2> SUFFICES ASSUME TypeOK, [Next]_vars PROVE [Stack!Next]_(Stack!trapVars)
      OBVIOUS
    <2>1. ASSUME UNCHANGED <<pc, priv, csrs>> PROVE UNCHANGED Stack!trapVars
      BY <2>1 DEF Stack!trapVars
    <2>2. ASSUME NEW insn \in Insns, Step(insn) PROVE [Stack!Next]_(Stack!trapVars)
      <3>1. PICK r \in Execute(insn) : Finish(r)
        BY <2>2 DEF Step
      <3>2. r \in StepResult
        BY ExecuteType
      <3>3. CASE Retire(r)
        BY <3>3, RetireStacks
      <3>4. CASE TakeTrap(r)
        BY <3>2, <3>4, TrapStacks
      <3>5. CASE Fail(r)
        BY <2>1, <3>5 DEF Fail
      <3> QED  BY <3>1, <3>3, <3>4, <3>5 DEF Finish
    <2>3. CASE FetchFault
      BY <2>1, <2>3 DEF FetchFault
    <2>4. CASE UNCHANGED vars
      BY <2>1, <2>4 DEF vars
    <2> QED  BY <2>2, <2>3, <2>4 DEF Next, Ended
  <1> QED  BY <1>1, <1>2, TypeCorrect, PTL DEF Spec, TrapStackSpec, Stack!Spec

-----------------------------------------------------------------------------
(***************************************************************************)
(* The log is complete, for every instruction set and every program: a     *)
(* reader that applies only what it says has the registers and the memory  *)
(* of the hart after every instruction, and its control and status         *)
(* registers but for what a trap, which is not logged, does to them.       *)
(*                                                                         *)
(* The three arguments share a shape.  What an instruction changes and     *)
(* what its commit says are both computed from its StepResult; the         *)
(* reader's copy agrees before the step, so it is enough that the commit   *)
(* names everything the writes reach, and with the value they leave.       *)
(***************************************************************************)

\* The reader only watches: its specification is Executor's.
LEMMA ReplayImplementsExecutor == ReplaySpec => Spec
  <1>1. ReplayInit => Init
    BY DEF ReplayInit
  <1>2. [ReplayNext]_replayVars => [Next]_vars
    BY DEF ReplayNext, ReplayedStep, replayVars, Next, Step
  <1> QED  BY <1>1, <1>2, PTL DEF ReplaySpec, Spec

LEMMA ReplayTypes == ReplaySpec => []TypeOK
  BY ReplayImplementsExecutor, TypeCorrect, PTL

\* The entries of a log with one write for each register of a set.
LogOf(writes, logged, value) ==
    writes = {[num |-> r, value |-> value[r]] : r \in logged}

\* Such a log overwrites those registers and no other.
LEMMA Overwritten ==
    ASSUME NEW old, NEW writes, NEW logged, NEW value, LogOf(writes, logged, value)
    PROVE  Overwrite(old, writes)
              = [r \in DOMAIN old |-> IF r \in logged THEN value[r] ELSE old[r]]
  <1>1. ASSUME NEW r \in logged PROVE \E w \in writes : w.num = r
    <2>1. [num |-> r, value |-> value[r]] \in writes
      BY DEF LogOf
    <2>2. [num |-> r, value |-> value[r]].num = r
      OBVIOUS
    <2> QED  BY <2>1, <2>2
  <1>2. \A w \in writes : w.num \in logged /\ w.value = value[w.num]
    BY DEF LogOf
  <1>3. \A r \in logged : (CHOOSE w \in writes : w.num = r).value = value[r]
    BY <1>1, <1>2
  <1> QED  BY <1>1, <1>2, <1>3 DEF Overwrite

-----------------------------------------------------------------------------
\* A step that carries neither a write of memory nor one of mhartid, the one
\* register set_csr refuses.
Quiet(r) == r.write = NoAccess /\ r.csr # "mhartid"

\* The log cannot tell a write of size zero from no write, so a write has a
\* size.  A step whose writes may fail carries little else.
Shaped(r) ==
    /\ r.write.size = 0 => r.write = NoAccess
    /\ r.write.size # 0 => /\ r.next_pc = Plus(pc, {2}) /\ r.next_privilege = priv
                           /\ r.xd = {} /\ r.fd = {} /\ r.csr = "none"
    /\ r.csr = "mhartid" => /\ r.next_pc = Plus(pc, {2}) /\ r.next_privilege = priv
                            /\ r.fd = {} /\ r.x = csrs["mhartid"] /\ \E rd : r.xd = {rd}

\* A step that cannot fail half way has that shape.
LEMMA QuietIsShaped == \A r : Quiet(r) => Shaped(r)
  BY DEF Quiet, Shaped, NoAccess

\* Only the store instructions ask for a write, and only the CSR instructions
\* for one of mhartid: every step an overload returns has that shape.
LEMMA StepShape ==
    ASSUME TypeOK, NEW insn \in Insns, NEW r \in Execute(insn), r.kind = "normal"
    PROVE  Shaped(r)
  <1>0. /\ Aborted.kind # "normal" /\ \A m, v : Trap(m, v).kind # "normal"
        /\ \A addr, size : AccessOutcome(addr, size) # "normal"
    BY OutcomeType DEF Aborted, Trap
  <1>1. /\ Quiet(Fallthrough)
        /\ \A rd, v : Quiet(WriteX(rd, v))
        /\ \A fd, v : Quiet(WriteF(fd, v))
    BY DEF Fallthrough, WriteX, WriteF, Quiet
  <1>2. CASE insn.op \in {"Lui", "Auipc", "Jal", "Jalr", "Branch", "OpImm", "Op",
                          "MiscMem", "OpImm32", "Op32", "Invalid"}
    <2> USE <1>0, <1>1, QuietIsShaped
    <2>1. CASE insn.op \in {"Lui", "Auipc", "MiscMem", "Invalid"}
      BY <2>1 DEF Execute, ExecuteLui, ExecuteAuipc, ExecuteMiscMem
    <2>2. CASE insn.op = "Jal"
      BY <2>2 DEF Execute, ExecuteJal, WriteX, Fallthrough, Quiet
    <2>3. CASE insn.op = "Jalr"
      BY <2>3 DEF Execute, ExecuteJalr, WriteX, Fallthrough, Quiet
    <2>4. CASE insn.op = "Branch"
      BY <2>4 DEF Execute, ExecuteBranch, Fallthrough, Quiet
    <2>5. CASE insn.op = "OpImm"
      BY <2>5 DEF Execute, ExecuteOpImm
    <2>6. CASE insn.op = "Op"
      BY <2>6 DEF Execute, ExecuteOp
    <2>7. CASE insn.op = "OpImm32"
      BY <2>7 DEF Execute, ExecuteOpImm32
    <2>8. CASE insn.op = "Op32"
      BY <2>8 DEF Execute, ExecuteOp32
    <2> QED  BY <1>2, <2>1, <2>2, <2>3, <2>4, <2>5, <2>6, <2>7, <2>8
  <1>3. CASE insn.op \in {"Load", "LoadFp"}
    <2>1. PICK addr, size, v, a :
             r \in {Aborted, Trap({2}, addr), [kind |-> AccessOutcome(addr, size)],
                    [WriteX(insn.rd, v) EXCEPT !.read = a],
                    [WriteF(insn.rd, v) EXCEPT !.read = a]}
      BY <1>3 DEF Execute, ExecuteLoad, ExecuteLoadFp
    <2>2. CASE r = [WriteX(insn.rd, v) EXCEPT !.read = a]
      BY QuietIsShaped, <2>2 DEF WriteX, Fallthrough, Quiet
    <2>3. CASE r = [WriteF(insn.rd, v) EXCEPT !.read = a]
      BY QuietIsShaped, <2>3 DEF WriteF, Fallthrough, Quiet
    <2> QED  BY <1>0, <2>1, <2>2, <2>3
  <1>4. CASE insn.op = "Store"
    <2>1. insn \in StoreInsn /\ r \in ExecuteStore(insn)
      BY <1>4, InsnByOp DEF Execute
    <2>2. PICK a, v :
             /\ insn.type \in StoreTypes
             /\ r = [Fallthrough EXCEPT
                       !.write = [addr |-> a, value |-> v, size |-> SizeOf(insn.type)]]
      BY <1>0, <2>1 DEF ExecuteStore
    <2>3. SizeOf(insn.type) # 0
      BY <2>2 DEF StoreTypes, SizeOf
    <2> QED  BY <2>2, <2>3 DEF Fallthrough, Shaped
  <1>5. CASE insn.op = "StoreFp"
    BY <1>5 DEF Execute, ExecuteStoreFp, Fallthrough, Shaped
  <1>6. CASE insn.op = "System"
    <2>1. r \in ExecuteSystem(insn)
      BY <1>6 DEF Execute
    <2>2. CASE insn.type \in CsrInsnTypes
      <3>1. r \in {Trap({1}, {}), WriteX(insn.rd, GetCsr(csrs, insn.csr)),
                   [WriteX(insn.rd, GetCsr(csrs, insn.csr)) EXCEPT
                       !.csr = insn.csr, !.c = NewCsrValue(insn, GetCsr(csrs, insn.csr))]}
        BY <2>1, <2>2 DEF ExecuteSystem, ExecuteCsr, CsrInsnTypes
      <3>2. ASSUME NEW old, NEW c, old = GetCsr(csrs, insn.csr),
                   r = [WriteX(insn.rd, old) EXCEPT !.csr = insn.csr, !.c = c]
            PROVE  Shaped(r)
        <4>1. insn.csr = "mhartid" => old = csrs["mhartid"]
          BY <3>2 DEF GetCsr
        <4> QED  BY <3>2, <4>1 DEF WriteX, Fallthrough, Shaped, NoAccess
      <3> QED  BY <1>0, <1>1, QuietIsShaped, <3>1, <3>2
    <2>3. CASE insn.type = "Mret"
      BY QuietIsShaped, <2>1, <2>3 DEF ExecuteSystem, CsrInsnTypes, ExecuteMret, Fallthrough, Quiet
    <2>4. CASE insn.type \notin CsrInsnTypes \cup {"Mret"}
      BY <1>0, <2>1, <2>4 DEF ExecuteSystem, ExecuteEcall
    <2> QED  BY <2>2, <2>3, <2>4
  <1>7. CASE insn.op \in {"OpFp", "FmaFp"}
    <2>1. \A fd, v, flags : /\ Quiet(Accrue(WriteF(fd, v), flags))
                            /\ Quiet(Accrue(WriteX(fd, v), flags))
      BY DEF Accrue, WriteF, WriteX, Fallthrough, Quiet
    <2>2. CASE insn.op = "FmaFp"
      BY <1>0, QuietIsShaped, <2>1, <2>2 DEF Execute, ExecuteFmaFp
    <2>3. CASE insn.op = "OpFp"
      <3>1. r \in OpFpResults(insn) /\ insn.type \in OpFpTypes
        BY <1>0, <2>3, InsnByOp DEF Execute, ExecuteOpFp, OpFpInsn
      <3> QED  BY <1>1, QuietIsShaped, <2>1, <3>1 DEF OpFpResults, OpFpTypes
    <2> QED  BY <1>7, <2>2, <2>3
  <1> QED  BY <1>2, <1>3, <1>4, <1>5, <1>6, <1>7, InsnByOp

\* Four bytes on is elsewhere.
LEMMA NextWordElsewhere == \A a \in Word : Plus(a, {2}) # a
  <1> SUFFICES ASSUME NEW a \in Word PROVE Plus(a, {2}) # a
    OBVIOUS
  <1>1. ~Carry(a, {2}, 2)
    BY DEF Carry
  <1>2. 2 \in Bits
    BY WordFacts
  <1>3. 2 \in Plus(a, {2}) <=> ((2 \in a <=> 2 \in {2}) <=> Carry(a, {2}, 2))
    BY <1>2, BitOfSum
  <1> QED  BY <1>1, <1>3

\* A Retire that ends the program: set_csr has refused a write of mhartid, or
\* the accessor a store.
LEMMA RetireFails ==
    ASSUME TypeOK, NEW insn \in Insns, NEW s \in Execute(insn), Retire(s),
           status = "running", status' # "running"
    PROVE  /\ UNCHANGED <<priv, fprs, csrs, mem>>
           /\ pc' = Plus(pc, {2})
           /\ gprs' # gprs => \E n \in XRegs \ {0} : gprs' = [gprs EXCEPT ![n] = csrs["mhartid"]]
  <1>0. s \in NormalStep /\ Shaped(s)
    BY ExecuteType, StepShape DEF Retire, StepResult, Exception, Fault
  <1>1. /\ gprs \in [XRegs -> Word] /\ fprs \in [FRegs -> HalfWord]
        /\ pc' = s.next_pc /\ priv' = s.next_privilege
        /\ gprs' = [n \in XRegs |-> IF n \in s.xd \ {0} THEN s.x ELSE gprs[n]]
        /\ fprs' = [n \in FRegs |-> IF n \in s.fd THEN s.f ELSE fprs[n]]
    BY DEF Retire, NextGprs, NextFprs, TypeOK, CoreTypeOK
  <1>2. CASE s.csr # "none" /\ ~Writable(s.csr)
    <2>1. s.csr = "mhartid"
      BY <1>0, <1>2 DEF NormalStep, Writable
    <2>2. PICK rd : s.xd = {rd}
      BY <1>0, <2>1 DEF Shaped
    <2>3. /\ pc' = Plus(pc, {2}) /\ priv' = priv
          /\ s.fd = {} /\ s.x = csrs["mhartid"]
      BY <1>0, <1>1, <2>1 DEF Shaped
    <2>4. UNCHANGED <<csrs, mem>>
      BY <1>2 DEF Retire
    <2>5. fprs' = fprs
      BY <1>1, <2>3
    <2>6. CASE rd \in XRegs \ {0}
      <3>1. gprs' = [gprs EXCEPT ![rd] = csrs["mhartid"]]
        BY <1>1, <2>2, <2>3, <2>6
      <3> QED  BY <2>3, <2>4, <2>5, <2>6, <3>1
    <2>7. CASE rd \notin XRegs \ {0}
      <3>1. gprs' = gprs
        BY <1>1, <2>2, <2>7
      <3> QED  BY <2>3, <2>4, <2>5, <3>1
    <2> QED  BY <2>6, <2>7
  <1>3. CASE ~(s.csr # "none" /\ ~Writable(s.csr))
    <2>1. StoreOutcome(s) # "ok" /\ csrs' = NextCsrs(s) /\ UNCHANGED mem
      BY <1>3 DEF Retire
    <2>2. s.write.size # 0
      BY <2>1 DEF StoreOutcome
    <2>3. /\ pc' = Plus(pc, {2}) /\ priv' = priv
          /\ s.xd = {} /\ s.fd = {} /\ s.csr = "none"
      BY <1>0, <1>1, <2>2 DEF Shaped
    <2>4. csrs' = csrs
      BY <2>1, <2>3 DEF NextCsrs, AppendsDirty, WritesFpState, WrittenCsrs
    <2>5. fprs' = fprs
      BY <1>1, <2>3
    <2>6. gprs' = gprs
      BY <1>1, <2>3
    <2> QED  BY <2>1, <2>3, <2>4, <2>5, <2>6
  <1> QED  BY <1>2, <1>3

\* Whatever ends the program, and however far step had come: privilege,
\* memory, control and floating-point registers are those before the
\* instruction.  The pc and the destination of a refused CSR instruction are
\* all it may have moved.
THEOREM FailuresStopShort == Spec => FailuresLeaveLittle
  <1> DEFINE Little ==
               /\ UNCHANGED <<priv, fprs, csrs, mem>>
               /\ pc' \in {pc, Plus(pc, {2})}
               /\ gprs' # gprs =>
                     /\ pc' # pc
                     /\ \E r \in XRegs \ {0} : gprs' = [gprs EXCEPT ![r] = csrs["mhartid"]]
  <1>1. ASSUME TypeOK, [Next]_vars, status = "running", status' # "running"
        PROVE  Little
    <2>1. ASSUME NEW insn \in Insns, Step(insn) PROVE Little
      <3>1. PICK r \in Execute(insn) : Finish(r)
        BY <2>1 DEF Step
      <3>2. CASE Retire(r)
        <4>1. pc \in Word
          BY <1>1 DEF TypeOK, CoreTypeOK
        <4> QED  BY <1>1, <3>2, <4>1, RetireFails, NextWordElsewhere
      <3>3. CASE Fail(r)
        BY <3>3 DEF Fail
      <3>4. ~TakeTrap(r)
        BY <1>1 DEF TakeTrap
      <3> QED  BY <3>1, <3>2, <3>3, <3>4 DEF Finish
    <2>2. CASE FetchFault
      BY <2>2 DEF FetchFault
    <2>3. status' = status => FALSE
      BY <1>1
    <2> QED  BY <1>1, <2>1, <2>2, <2>3 DEF Next, Ended, vars
  <1> DEFINE Failing == status = "running" /\ status' # "running" => Little
  <1>2. TypeOK /\ [Next]_vars => [Failing]_vars
    BY <1>1
  <1> QED  BY <1>2, TypeCorrect, PTL DEF Spec, FailuresLeaveLittle

\* What a step that runs on has done: retired, with its commit applied by the
\* reader, or trapped, with nothing to apply.
LEMMA ReplayedOutcome ==
    ASSUME TypeOK, NEW insn \in Insns, ReplayedStep(insn), status' = "running"
    PROVE  \E r \in Execute(insn) :
              \/ /\ Retire(r) /\ r \in NormalStep
                 /\ Consume(CommitOf(r)) /\ StoreOutcome(r) = "ok"
                 /\ csrs' = NextCsrs(r) /\ mem' = NextMem(r)
              \/ TakeTrap(r) /\ r \in StepResult /\ UNCHANGED replay
  <1>1. PICK r \in Execute(insn) :
           /\ Finish(r)
           /\ IF r.kind = "normal" /\ status' = "running"
              THEN Consume(CommitOf(r)) ELSE UNCHANGED replay
    BY DEF ReplayedStep
  <1>2. r \in StepResult
    BY ExecuteType
  <1>3. CASE Retire(r)
    <2>1. r \in NormalStep
      BY <1>2, <1>3 DEF Retire, StepResult, Exception, Fault
    <2>2. csrs' = NextCsrs(r) /\ mem' = NextMem(r) /\ StoreOutcome(r) = "ok"
      BY <1>3, OutcomeType DEF Retire, StoreOutcome
    <2> QED  BY <1>1, <1>3, <2>1, <2>2 DEF Retire
  <1>4. CASE TakeTrap(r)
    BY <1>1, <1>2, <1>4 DEF TakeTrap
  <1>5. ~Fail(r)
    BY DEF Fail
  <1> QED  BY <1>1, <1>3, <1>4, <1>5 DEF Finish

\* The reader's registers follow the hart's: a commit carries the writes of
\* the StepResult with those of x0 dropped, which is what step applies.
LEMMA RegistersFollow ==
    ASSUME TypeOK, NEW r \in NormalStep, Retire(r), Consume(CommitOf(r)),
           tx = gprs, tf = fprs
    PROVE  tx' = gprs' /\ tf' = fprs'
  <1>0. DOMAIN gprs = XRegs /\ DOMAIN fprs = FRegs
    BY DEF TypeOK, CoreTypeOK
  <1>1. tx' = NextGprs(r)
    <2> DEFINE value == [n \in r.xd \ {0} |-> r.x]
    <2>1. LogOf(CommitOf(r).x_writes, r.xd \ {0}, value)
      BY DEF CommitOf, LogOf
    <2> HIDE DEF value
    <2>2. tx' = [n \in DOMAIN gprs |-> IF n \in r.xd \ {0} THEN value[n] ELSE gprs[n]]
      BY <2>1, Overwritten DEF Consume
    <2> QED  BY <1>0, <2>2 DEF NextGprs, value
  <1>2. tf' = NextFprs(r)
    <2> DEFINE value == [n \in r.fd |-> r.f]
    <2>1. LogOf(CommitOf(r).f_writes, r.fd, value)
      BY DEF CommitOf, LogOf
    <2> HIDE DEF value
    <2>2. tf' = [n \in DOMAIN fprs |-> IF n \in r.fd THEN value[n] ELSE fprs[n]]
      BY <2>1, Overwritten DEF Consume
    <2> QED  BY <1>0, <2>2 DEF NextFprs, value
  <1> QED  BY <1>1, <1>2 DEF Retire

\* The places of the bits of the numbers of bytes.
OffsetOf(k) == {b \in 0 .. 2 : (k \div 2^b) % 2 = 1}

\* Every byte of the widest element has its own.
LEMMA OffsetsAre ==
    /\ OffsetOf(0) = {} /\ OffsetOf(1) = {0} /\ OffsetOf(2) = {1} /\ OffsetOf(3) = {0, 1}
    /\ OffsetOf(4) = {2} /\ OffsetOf(5) = {0, 2} /\ OffsetOf(6) = {1, 2} /\ OffsetOf(7) = {0, 1, 2}
  <1>1. 2^0 = 1 /\ 2^1 = 2 /\ 2^2 = 4
    <2>1. 2^0 = 1
      BY SMT
    <2>2. 2^1 = 2
      BY SMT
    <2>3. 2^2 = 4
      BY SMT
    <2> QED  BY <2>1, <2>2, <2>3
  <1>2. \A k : OffsetOf(k) = {b \in {0, 1, 2} : \/ b = 0 /\ (k \div 1) % 2 = 1
                                                \/ b = 1 /\ (k \div 2) % 2 = 1
                                                \/ b = 2 /\ (k \div 4) % 2 = 1}
    <2>1. 0 .. 2 = {0, 1, 2}
      OBVIOUS
    <2> QED  BY <1>1, <2>1 DEF OffsetOf
  <1>3. /\ (0 \div 1) % 2 = 0 /\ (0 \div 2) % 2 = 0 /\ (0 \div 4) % 2 = 0
        /\ (1 \div 1) % 2 = 1 /\ (1 \div 2) % 2 = 0 /\ (1 \div 4) % 2 = 0
        /\ (2 \div 1) % 2 = 0 /\ (2 \div 2) % 2 = 1 /\ (2 \div 4) % 2 = 0
        /\ (3 \div 1) % 2 = 1 /\ (3 \div 2) % 2 = 1 /\ (3 \div 4) % 2 = 0
        /\ (4 \div 1) % 2 = 0 /\ (4 \div 2) % 2 = 0 /\ (4 \div 4) % 2 = 1
        /\ (5 \div 1) % 2 = 1 /\ (5 \div 2) % 2 = 0 /\ (5 \div 4) % 2 = 1
        /\ (6 \div 1) % 2 = 0 /\ (6 \div 2) % 2 = 1 /\ (6 \div 4) % 2 = 1
        /\ (7 \div 1) % 2 = 1 /\ (7 \div 2) % 2 = 1 /\ (7 \div 4) % 2 = 1
    BY SMT
  <1> QED  BY <1>2, <1>3

\* No two bytes of it have the same place.
LEMMA OffsetsDiffer ==
    ASSUME NEW j \in 0 .. 7, NEW k \in 0 .. 7, OffsetOf(j) = OffsetOf(k)
    PROVE  j = k
  <1> DEFINE Val(o) == (IF 0 \in o THEN 1 ELSE 0) + (IF 1 \in o THEN 2 ELSE 0)
                          + (IF 2 \in o THEN 4 ELSE 0)
  <1>1. ASSUME NEW i \in 0 .. 7 PROVE Val(OffsetOf(i)) = i
    <2>1. i \in {0, 1, 2, 3, 4, 5, 6, 7}
      OBVIOUS
    <2> QED  BY <2>1, OffsetsAre
  <1>2. Val(OffsetOf(j)) = Val(OffsetOf(k))
    OBVIOUS
  <1> QED  BY <1>1, <1>2

\* The bytes of an element of one of the sizes: their places lie among the
\* address bits that are clear, and each set of those is the place of one byte.
LEMMA OffsetsOfSize ==
    ASSUME NEW size \in AccessSizes
    PROVE  /\ \A k \in 0 .. size - 1 :
                 OffsetOf(k) = {b \in OffsetBits(size) : (k \div 2^b) % 2 = 1}
           /\ \A o \in SUBSET OffsetBits(size) : \E k \in 0 .. size - 1 : OffsetOf(k) = o
           /\ \A j, k \in 0 .. size - 1 : OffsetOf(j) = OffsetOf(k) => j = k
  <1>1. \A k : {b \in OffsetBits(size) : (k \div 2^b) % 2 = 1} = OffsetOf(k) \cap OffsetBits(size)
    BY DEF OffsetOf, OffsetBits, AccessSizes
  <1>2. /\ \A k \in 0 .. size - 1 : OffsetOf(k) \subseteq OffsetBits(size)
        /\ \A o \in SUBSET OffsetBits(size) : \E k \in 0 .. size - 1 : OffsetOf(k) = o
    <2>1. CASE size = 1
      <3>1. OffsetBits(size) = {} /\ 0 .. size - 1 = {0}
        BY <2>1 DEF OffsetBits
      <3> QED  BY <3>1, OffsetsAre
    <2>2. CASE size = 2
      <3>1. OffsetBits(size) = {0} /\ 0 .. size - 1 = {0, 1}
        BY <2>2 DEF OffsetBits
      <3>2. \A o \in SUBSET {0} : o = {} \/ o = {0}
        OBVIOUS
      <3>3. \A o \in SUBSET {0} : \E k \in {0, 1} : OffsetOf(k) = o
        BY <3>2, OffsetsAre
      <3>4. \A k \in {0, 1} : OffsetOf(k) \subseteq {0}
        BY OffsetsAre
      <3> QED  BY <3>1, <3>3, <3>4
    <2>3. CASE size = 4
      <3>1. OffsetBits(size) = {0, 1} /\ 0 .. size - 1 = {0, 1, 2, 3}
        BY <2>3 DEF OffsetBits
      <3>2. \A o \in SUBSET {0, 1} : o \in {{}, {0}, {1}, {0, 1}}
        OBVIOUS
      <3>3. \A o \in SUBSET {0, 1} : \E k \in {0, 1, 2, 3} : OffsetOf(k) = o
        BY <3>2, OffsetsAre
      <3>4. \A k \in {0, 1, 2, 3} : OffsetOf(k) \subseteq {0, 1}
        BY OffsetsAre
      <3> QED  BY <3>1, <3>3, <3>4
    <2>4. CASE size = 8
      <3>1. OffsetBits(size) = {0, 1, 2} /\ 0 .. size - 1 = {0, 1, 2, 3, 4, 5, 6, 7}
        BY <2>4 DEF OffsetBits
      <3>2. \A o \in SUBSET {0, 1, 2} :
               o \in {{}, {0}, {1}, {0, 1}, {2}, {0, 2}, {1, 2}, {0, 1, 2}}
        OBVIOUS
      <3>3. \A o \in SUBSET {0, 1, 2} :
               \E k \in {0, 1, 2, 3, 4, 5, 6, 7} : OffsetOf(k) = o
        <4> SUFFICES ASSUME NEW o \in SUBSET {0, 1, 2}
                     PROVE  \E k \in {0, 1, 2, 3, 4, 5, 6, 7} : OffsetOf(k) = o
          OBVIOUS
        <4>1. CASE o \in {{}, {0}, {1}, {0, 1}}
          BY <4>1, OffsetsAre
        <4>2. CASE o \in {{2}, {0, 2}, {1, 2}, {0, 1, 2}}
          BY <4>2, OffsetsAre
        <4> QED  BY <3>2, <4>1, <4>2
      <3>4. \A k \in {0, 1, 2, 3, 4, 5, 6, 7} : OffsetOf(k) \subseteq {0, 1, 2}
        BY OffsetsAre
      <3> QED  BY <3>1, <3>3, <3>4
    <2> QED  BY <2>1, <2>2, <2>3, <2>4 DEF AccessSizes
  <1>3. \A i \in 0 .. size - 1 : i \in 0 .. 7
    BY DEF AccessSizes
  <1>4. \A j, k \in 0 .. size - 1 : OffsetOf(j) = OffsetOf(k) => j = k
    BY <1>3, OffsetsDiffer
  <1>5. \A k \in 0 .. size - 1 :
           OffsetOf(k) = {b \in OffsetBits(size) : (k \div 2^b) % 2 = 1}
    BY <1>1, <1>2
  <1> QED  BY <1>2, <1>4, <1>5

\* The bytes at consecutive addresses from an aligned one are those of the
\* element there.
LEMMA AddrOfAligned ==
    ASSUME NEW size \in AccessSizes, NEW addr, Aligned(addr, size), NEW k \in 0 .. size - 1
    PROVE  /\ AddrOf(addr, k) = addr \cup OffsetOf(k)
           /\ \A a : a \ OffsetBits(size) = addr => ByteAddr(a, size, k) = AddrOf(addr, k)
           /\ AddrOf(addr, k) \ OffsetBits(size) = addr
  <1>1. OffsetOf(k) = {b \in OffsetBits(size) : (k \div 2^b) % 2 = 1}
    BY OffsetsOfSize
  <1>2. OffsetOf(k) \subseteq OffsetBits(size) /\ addr \cap OffsetBits(size) = {}
    BY <1>1 DEF Aligned
  <1>3. AddrOf(addr, k) = IF addr \cap OffsetOf(k) = {} THEN addr \cup OffsetOf(k)
                          ELSE Plus(addr, OffsetOf(k))
    BY DEF AddrOf, OffsetOf
  <1>4. AddrOf(addr, k) = addr \cup OffsetOf(k)
    BY <1>2, <1>3
  <1>5. \A a : ByteAddr(a, size, k) = (a \ OffsetBits(size)) \cup OffsetOf(k)
    BY <1>1 DEF ByteAddr
  <1> QED  BY <1>2, <1>4, <1>5

\* So a write of bytes at an aligned address is a write of the element.
LEMMA PatchedIsSet ==
    ASSUME NEW w, w.size \in AccessSizes, Aligned(w.addr, w.size),
           NEW m, DOMAIN m = RamAddrs
    PROVE  Patched(m, w) = Set(m, w.addr, w.size, w.value)
  <1> DEFINE size == w.size
             addr == w.addr
             At(a, k) == a = AddrOf(addr, k)
  <1>1. Patched(m, w) =
           [a \in RamAddrs |->
               IF \E k \in 0 .. size - 1 : At(a, k)
               THEN ByteOf(w.value, CHOOSE k \in 0 .. size - 1 : At(a, k)) ELSE m[a]]
    BY DEF Patched
  <1>2. Set(m, addr, size, w.value) =
           [a \in RamAddrs |->
               IF a \ OffsetBits(size) = addr
               THEN ByteOf(w.value, ByteIndex(a, size)) ELSE m[a]]
    <2>1. addr \ OffsetBits(size) = addr
      BY DEF Aligned
    <2> QED  BY <2>1 DEF Set, ByteOf
  <1>3. ASSUME NEW a
        PROVE  /\ (\E k \in 0 .. size - 1 : At(a, k)) <=> a \ OffsetBits(size) = addr
               /\ a \ OffsetBits(size) = addr =>
                     (CHOOSE k \in 0 .. size - 1 : At(a, k)) = ByteIndex(a, size)
    <2>1. ASSUME NEW k \in 0 .. size - 1, At(a, k) PROVE a \ OffsetBits(size) = addr
      BY <2>1, AddrOfAligned
    <2>2. ASSUME a \ OffsetBits(size) = addr
          PROVE  \E k \in 0 .. size - 1 :
                    /\ At(a, k)
                    /\ (CHOOSE j \in 0 .. size - 1 : At(a, j)) = k
                    /\ ByteIndex(a, size) = k
      <3>1. a \cap OffsetBits(size) \in SUBSET OffsetBits(size)
        OBVIOUS
      <3>2. PICK k \in 0 .. size - 1 : OffsetOf(k) = a \cap OffsetBits(size)
        BY <3>1, OffsetsOfSize
      <3>3. At(a, k)
        BY <2>2, <3>2, AddrOfAligned
      <3>4. \A j \in 0 .. size - 1 : At(a, j) => j = k
        <4>1. ASSUME NEW j \in 0 .. size - 1, At(a, j) PROVE OffsetOf(j) = OffsetOf(k)
          <5>0. AddrOf(addr, j) = addr \cup OffsetOf(j) /\ AddrOf(addr, k) = addr \cup OffsetOf(k)
            BY AddrOfAligned
          <5>1. addr \cup OffsetOf(j) = addr \cup OffsetOf(k)
            BY <3>3, <4>1, <5>0
          <5>2. \A i \in 0 .. size - 1 : OffsetOf(i) \subseteq OffsetBits(size)
            BY OffsetsOfSize
          <5>3. addr \cap OffsetBits(size) = {}
            BY DEF Aligned
          <5> QED  BY <5>1, <5>2, <5>3
        <4> QED  BY <4>1, OffsetsOfSize
      <3>5. \A j \in 0 .. size - 1 : a = ByteAddr(a, size, j) <=> At(a, j)
        BY <2>2, AddrOfAligned
      <3> HIDE DEF At, size
      <3>6. (CHOOSE j \in 0 .. size - 1 : At(a, j)) = k
        BY <3>3, <3>4
      <3>7. (CHOOSE j \in 0 .. size - 1 : a = ByteAddr(a, size, j)) = k
        BY <3>3, <3>4, <3>5
      <3> QED  BY <3>3, <3>6, <3>7 DEF ByteIndex
    <2> QED  BY <2>1, <2>2
  <1> HIDE DEF At, size, addr
  <1>4. Patched(m, w) = Set(m, addr, size, w.value)
    BY <1>1, <1>2, <1>3
  <1> QED  BY <1>4 DEF addr, size

\* And its memory: the one write a commit may carry is the store's, at an
\* address the assertion of the accessor has let pass.
LEMMA MemoryFollows ==
    ASSUME TypeOK, Asserts, NEW insn \in Insns, NEW r \in Execute(insn), r \in NormalStep,
           Consume(CommitOf(r)), StoreOutcome(r) = "ok", tm = mem
    PROVE  tm' = NextMem(r)
  <1>1. /\ r.kind = "normal" /\ r.write \in MemAccess
        /\ CommitOf(r).mem_writes = {r.write} \ {NoAccess}
    BY DEF NormalStep, CommitOf
  <1>2. CASE r.write.size = 0
    <2>1. CommitOf(r).mem_writes = {}
      BY <1>1, <1>2, StepShape DEF Shaped
    <2> QED  BY <1>2, <2>1 DEF Consume, NextMem
  <1>3. CASE r.write.size # 0
    <2>1. r.write # NoAccess
      BY <1>3 DEF NoAccess
    <2>2. CommitOf(r).mem_writes = {r.write}
      BY <1>1, <2>1
    <2>3. (CHOOSE w \in {r.write} : TRUE) = r.write
      OBVIOUS
    <2>4. tm' = Patched(mem, r.write)
      BY <2>2, <2>3 DEF Consume
    <2>5. r.write.size \in AccessSizes /\ Aligned(r.write.addr, r.write.size)
      BY <1>1, <1>3 DEF MemAccess, StoreOutcome, AccessOutcome
    <2>6. DOMAIN mem = RamAddrs
      BY DEF TypeOK, RamTypeOK
    <2>7. tm' = Set(mem, r.write.addr, r.write.size, r.write.value)
      BY <2>4, <2>5, <2>6, PatchedIsSet
    <2> QED  BY <1>3, <2>7 DEF NextMem
  <1> QED  BY <1>2, <1>3

\* A reader of the log knows every integer and floating-point register.  This
\* is inductive with the types of the hart, and needs nothing of the control
\* and status registers.
THEOREM LogAccountsForRegisters == ReplaySpec => []ReplayedRegisters
  <1> USE DEF ReplayedRegisters
  <1>1. ReplayInit => ReplayedRegisters
    BY DEF ReplayInit
  <1>2. TypeOK /\ ReplayedRegisters /\ [ReplayNext]_replayVars => ReplayedRegisters'
    <2> SUFFICES ASSUME TypeOK, ReplayedRegisters, [ReplayNext]_replayVars, status' = "running"
                 PROVE  tx' = gprs' /\ tf' = fprs'
      OBVIOUS
    <2>1. ASSUME status = "running", NEW insn \in Insns, ReplayedStep(insn)
          PROVE  tx' = gprs' /\ tf' = fprs'
      <3>1. PICK r \in Execute(insn) :
               \/ Retire(r) /\ r \in NormalStep /\ Consume(CommitOf(r))
               \/ TakeTrap(r) /\ UNCHANGED replay
        BY <2>1, ReplayedOutcome
      <3>2. CASE TakeTrap(r) /\ UNCHANGED replay
        BY <2>1, <3>2 DEF TakeTrap, TakeException, replay
      <3>3. CASE Retire(r) /\ r \in NormalStep /\ Consume(CommitOf(r))
        BY <2>1, <3>3, RegistersFollow
      <3> QED  BY <3>1, <3>2, <3>3
    <2>2. CASE FetchFault /\ UNCHANGED replay
      BY <2>2 DEF FetchFault, replay
    <2>3. CASE UNCHANGED <<vars, replay>>
      BY <2>3 DEF vars, replay
    <2> QED  BY <2>1, <2>2, <2>3 DEF ReplayNext, Ended, replayVars
  <1> QED  BY <1>1, <1>2, ReplayTypes, PTL DEF ReplaySpec

\* A reader of the log knows every byte of the memory.  This holds because of
\* the assertions: compiled without them, an FSW to a misaligned address
\* writes the element around it, and its commit says otherwise.
THEOREM LogAccountsForMemory == ASSUME Asserts PROVE ReplaySpec => []ReplayedMemory
  <1> USE DEF ReplayedMemory
  <1>1. ReplayInit => ReplayedMemory
    BY DEF ReplayInit
  <1>2. TypeOK /\ ReplayedMemory /\ [ReplayNext]_replayVars => ReplayedMemory'
    <2> SUFFICES ASSUME TypeOK, ReplayedMemory, [ReplayNext]_replayVars, status' = "running"
                 PROVE  tm' = mem'
      OBVIOUS
    <2>1. ASSUME status = "running", NEW insn \in Insns, ReplayedStep(insn)
          PROVE  tm' = mem'
      <3>1. PICK r \in Execute(insn) :
               \/ /\ r \in NormalStep /\ Consume(CommitOf(r))
                  /\ StoreOutcome(r) = "ok" /\ mem' = NextMem(r)
               \/ TakeTrap(r) /\ UNCHANGED replay
        BY <2>1, ReplayedOutcome
      <3>2. CASE TakeTrap(r) /\ UNCHANGED replay
        BY <2>1, <3>2 DEF TakeTrap, replay
      <3>3. CASE /\ r \in NormalStep /\ Consume(CommitOf(r))
                 /\ StoreOutcome(r) = "ok" /\ mem' = NextMem(r)
        BY <2>1, <3>3, MemoryFollows
      <3> QED  BY <3>1, <3>2, <3>3
    <2>2. CASE FetchFault /\ UNCHANGED replay
      BY <2>2 DEF FetchFault, replay
    <2>3. CASE UNCHANGED <<vars, replay>>
      BY <2>3 DEF vars, replay
    <2> QED  BY <2>1, <2>2, <2>3 DEF ReplayNext, Ended, replayVars
  <1> QED  BY <1>1, <1>2, ReplayTypes, PTL DEF ReplaySpec

\* The bytes of what an accessor assembles are those at the addresses of the
\* element.
LEMMA BytesOfGet ==
    ASSUME TypeOK, NEW addr \in RamAddrs, NEW size \in AccessSizes, Aligned(addr, size),
           NEW k \in 0 .. size - 1
    PROVE  ByteOf(Get(mem, addr, size), k) = mem[AddrOf(addr, k)]
  <1>1. addr \ OffsetBits(size) = addr
    BY DEF Aligned
  <1>2. ByteAddr(addr, size, k) = AddrOf(addr, k) /\ AddrOf(addr, k) = addr \cup OffsetOf(k)
    BY <1>1, AddrOfAligned
  <1>3. AddrOf(addr, k) \in RamAddrs
    <2> DEFINE o == (addr \cap {0, 1, 2}) \cup OffsetOf(k)
    <2>1. OffsetOf(k) \subseteq {0, 1, 2}
      BY DEF OffsetOf
    <2>2. o \in SUBSET {0, 1, 2} /\ addr \cup OffsetOf(k) = (addr \ {0, 1, 2}) \cup o
      BY <2>1
    <2> QED  BY <1>2, <2>2, RamAssumption
  <1>4. mem[AddrOf(addr, k)] \subseteq 0 .. 7
    BY <1>3 DEF TypeOK, RamTypeOK, Byte, Low
  <1>5. ASSUME NEW i \in 0 .. 7
        PROVE  8 * k + i \in Get(mem, addr, size) <=> i \in mem[AddrOf(addr, k)]
    <2>1. size \in Nat /\ k \in Nat /\ k + 1 <= size
      BY DEF AccessSizes
    <2>2. 8 * k + i \in Low(8 * size) /\ (8 * k + i) % 8 = i /\ (8 * k + i) \div 8 = k
      BY <2>1 DEF Low
    <2> QED  BY <1>2, <2>2 DEF Get
  <1> QED  BY <1>4, <1>5 DEF ByteOf, Low

\* Extending a loaded value leaves the bytes that were loaded.
LEMMA BytesOfLoad ==
    ASSUME NEW type \in LoadTypes, NEW raw, NEW k \in 0 .. SizeOf(type) - 1
    PROVE  ByteOf(LoadValue(type, raw), k) = ByteOf(raw, k)
  <1> DEFINE size == SizeOf(type)
  <1>1. size \in {1, 2, 4, 8}
    BY DEF SizeOf, LoadTypes
  <1> HIDE DEF size
  <1>2. ASSUME NEW i \in 0 .. 7 PROVE 8 * k + i \in Low(8 * size) /\ 8 * k + i \notin 8 * size .. XLEN - 1
    BY <1>1, WordFacts DEF Low, size
  <1>3. \A i \in 0 .. 7 : 8 * k + i \in Sext(raw, 8 * size) <=> 8 * k + i \in raw
    BY <1>2 DEF Sext
  <1>4. \A i \in 0 .. 7 : 8 * k + i \in LoadValue(type, raw) <=> 8 * k + i \in raw
    BY <1>3 DEF LoadValue, size
  <1> QED  BY <1>4 DEF ByteOf, Low

\* What a load finds is in the bytes its commit names.
LEMMA LoadedBytes ==
    ASSUME TypeOK, Asserts, NEW insn \in Insns, insn.op \in {"Load", "LoadFp"},
           NEW r \in Execute(insn), r.kind = "normal", NEW k \in 0 .. r.read.size - 1
    PROVE  ByteOf(r.read.value, k) = mem[AddrOf(r.read.addr, k)]
  <1> DEFINE addr == Plus(gprs[insn.rs1], insn.imm)
  <1>0. /\ Aborted.kind # "normal" /\ \A m, v : Trap(m, v).kind # "normal"
        /\ \A a, size : AccessOutcome(a, size) # "normal"
    BY OutcomeType DEF Aborted, Trap
  <1>1. \A size : AccessOutcome(addr, size) = "ok" => addr \in RamAddrs /\ Aligned(addr, size)
    BY DEF AccessOutcome
  <1>2. CASE insn.op = "Load"
    <2> DEFINE size == SizeOf(insn.type)
               raw == Get(mem, addr, size)
               data == LoadValue(insn.type, raw)
               a == [addr |-> addr, value |-> data, size |-> size]
    <2>1. insn \in LoadInsn /\ r \in ExecuteLoad(insn)
      BY <1>2, InsnByOp DEF Execute
    <2>2. /\ insn.type # "invalid" /\ AccessOutcome(addr, size) = "ok"
          /\ r = [WriteX(insn.rd, data) EXCEPT !.read = a]
      BY <1>0, <2>1 DEF ExecuteLoad
    <2>3. r.read = a /\ insn.type \in LoadTypes
      BY <2>1, <2>2 DEF WriteX, Fallthrough, LoadInsn
    <2>4. size \in AccessSizes
      BY <2>3, LoadValueType
    <2>5. r.read.addr = addr /\ r.read.value = data /\ k \in 0 .. size - 1
      BY <2>3
    <2>6. ByteOf(data, k) = ByteOf(raw, k)
      BY <2>3, <2>5, BytesOfLoad
    <2>7. ByteOf(raw, k) = mem[AddrOf(addr, k)]
      BY <1>1, <2>2, <2>4, <2>5, BytesOfGet
    <2> QED  BY <2>5, <2>6, <2>7
  <1>3. CASE insn.op = "LoadFp"
    <2> DEFINE data == Get(mem, addr, 4)
               a == [addr |-> addr, value |-> data, size |-> 4]
    <2>1. AccessOutcome(addr, 4) = "ok" /\ r = [WriteF(insn.rd, data) EXCEPT !.read = a]
      BY <1>0, <1>3 DEF Execute, ExecuteLoadFp
    <2>2. r.read = a
      BY <2>1 DEF WriteF, Fallthrough
    <2>3. r.read.addr = addr /\ r.read.value = data /\ k \in 0 .. 4 - 1 /\ 4 \in AccessSizes
      BY <2>2 DEF AccessSizes
    <2> QED  BY <1>1, <2>1, <2>3, BytesOfGet
  <1> QED  BY <1>2, <1>3

\* So a reader who keeps the memory the log describes finds in it, byte for
\* byte, what the next load will log, whatever widths it was stored in.
THEOREM LoadsReadTheLog == ASSUME Asserts PROVE ReplaySpec => []ReplayedReads
  <1>1. TypeOK /\ ReplayedMemory => ReplayedReads
    BY LoadedBytes DEF ReplayedMemory, ReplayedReads
  <1> QED  BY <1>1, ReplayTypes, LogAccountsForMemory, PTL

-----------------------------------------------------------------------------
(***************************************************************************)
(* The control and status registers.  Writing one changes what no other    *)
(* one reads, although three of them are views of the same bits.           *)
(***************************************************************************)
LEMMA ReadbackElsewhere ==
    ASSUME NEW c \in [StoredCsrs -> Word], NEW name \in CsrNames \ {"fcsr"},
           NEW n \in LoggableCsrs \ {name}, NEW v
    PROVE  Readback(SetCsr(c, name, v), n) = Readback(c, n)
  <1> USE DEF LoggableCsrs, CsrNames, StoredCsrs
  <1>1. CASE n = "fflags"
    <2>1. FcsrAfter(c["fcsr"], name, v) \cap Fflags = c["fcsr"] \cap Fflags
      <3>1. \A x, y : ((x \ Frm) \cup Sll(y \cap Low(3), 5)) \cap Fflags = x \cap Fflags
        BY WordFacts DEF Frm, Fflags, Low, Sll
      <3> QED  BY <1>1, <3>1 DEF FcsrAfter
    <2> QED  BY <1>1, <2>1, SetCsrFcsr DEF Readback, GetCsr
  <1>2. CASE n = "frm"
    <2>1. Srl(FcsrAfter(c["fcsr"], name, v), 5) \cap Low(3) = Srl(c["fcsr"], 5) \cap Low(3)
      <3>1. \A x, y : Srl((x \ Fflags) \cup (y \cap Fflags), 5) = Srl(x, 5)
        <4>1. \A i \in Bits : i + 5 \notin Fflags
          BY WordFacts DEF Fflags, Low
        <4> SUFFICES ASSUME NEW x, NEW y
                     PROVE  Srl((x \ Fflags) \cup (y \cap Fflags), 5) = Srl(x, 5)
          OBVIOUS
        <4>2. \A i \in Bits : i + 5 \in (x \ Fflags) \cup (y \cap Fflags) <=> i + 5 \in x
          BY <4>1
        <4> QED  BY <4>2 DEF Srl
      <3> QED  BY <1>2, <3>1 DEF FcsrAfter
    <2> QED  BY <1>2, <2>1, SetCsrFcsr DEF Readback
  <1>3. CASE n \notin {"fflags", "frm"}
    BY <1>3 DEF Readback, GetCsr, SetCsr
  <1> QED  BY <1>1, <1>2, <1>3

\* What a step does not log, it leaves as it was.
LEMMA UnloggedKept ==
    ASSUME TypeOK, NEW s \in NormalStep, NEW n \in LoggableCsrs \ LoggedCsrs(s)
    PROVE  Readback(NextCsrs(s), n) = Readback(csrs, n)
  <1>1. csrs \in [StoredCsrs -> Word] /\ s.c \in Word /\ s.csr \in CsrNames \cup {"none"}
    BY DEF TypeOK, CoreTypeOK, NormalStep
  <1>2. Readback(WrittenCsrs(s), n) = Readback(csrs, n)
    <2>1. CASE s.csr = "fcsr"
      <3> DEFINE flags == s.c \cap Fflags
                 mode == Srl(s.c, 5) \cap Low(3)
                 c1 == SetCsr(csrs, "fflags", flags)
      <3>1. flags \in Word
        BY <1>1 DEF Word
      <3>2. WrittenCsrs(s) = SetCsr(c1, "frm", mode)
        BY <2>1 DEF WrittenCsrs
      <3>3. /\ n \in LoggableCsrs \ {"fflags"} /\ n \in LoggableCsrs \ {"frm"}
            /\ {"fflags", "frm"} \subseteq CsrNames \ {"fcsr"}
        BY <2>1 DEF LoggedCsrs, CsrNames
      <3> HIDE DEF flags, mode
      <3>4. c1 \in [StoredCsrs -> Word] /\ Readback(c1, n) = Readback(csrs, n)
        BY <1>1, <3>1, <3>3, SetCsrType, ReadbackElsewhere
      <3> HIDE DEF c1
      <3> QED  BY <3>2, <3>3, <3>4, ReadbackElsewhere
    <2>2. CASE s.csr = "none"
      BY <2>2 DEF WrittenCsrs
    <2>3. CASE s.csr \notin {"fcsr", "none"}
      <3>1. n \in LoggableCsrs \ {s.csr} /\ s.csr \in CsrNames \ {"fcsr"}
        BY <1>1, <2>3 DEF LoggedCsrs
      <3>2. WrittenCsrs(s) = SetCsr(csrs, s.csr, s.c)
        BY <2>3 DEF WrittenCsrs
      <3> QED  BY <1>1, <3>1, <3>2, ReadbackElsewhere
    <2> QED  BY <2>1, <2>2, <2>3
  <1>3. CASE AppendsDirty(s)
    <2>1. n \in LoggableCsrs \ {"mstatus"} /\ "mstatus" \in CsrNames \ {"fcsr"}
      BY <1>3 DEF LoggedCsrs, CsrNames, StoredCsrs
    <2> QED  BY <1>2, <1>3, <2>1, WrittenCsrsType, ReadbackElsewhere DEF NextCsrs
  <1> QED  BY <1>2, <1>3 DEF NextCsrs

\* The reader's registers after a commit: the logged ones as set_csr returned
\* them, the others as they were.
LEMMA CsrsFollow ==
    ASSUME TypeOK, NEW s \in NormalStep, Consume(CommitOf(s)), DOMAIN tc = LoggableCsrs
    PROVE  tc' = [n \in LoggableCsrs |->
                     IF n \in LoggedCsrs(s) THEN Readback(NextCsrs(s), n) ELSE tc[n]]
  <1> DEFINE value == [n \in LoggedCsrs(s) |-> Readback(NextCsrs(s), n)]
  <1>1. LogOf(CommitOf(s).c_writes, LoggedCsrs(s), value)
    BY DEF CommitOf, LogOf
  <1> HIDE DEF value
  <1>2. tc' = [n \in DOMAIN tc |-> IF n \in LoggedCsrs(s) THEN value[n] ELSE tc[n]]
    BY <1>1, Overwritten DEF Consume
  <1> QED  BY <1>2 DEF value

\* A trap changes four registers, and of mstatus only the fields that stack
\* the interrupted context: SD still summarises FS, so computing it again
\* gives what it was.
LEMMA TrapChanges ==
    ASSUME TypeOK, MstatusWellFormed, NEW r \in StepResult, TakeTrap(r)
    PROVE  /\ \A n \in LoggableCsrs \ TrapCsrs : Readback(csrs', n) = Readback(csrs, n)
           /\ csrs'["mstatus"] \ TrapFields = csrs["mstatus"] \ TrapFields
  <1>1. /\ r.mcause \in Word /\ r.mtval \in Word /\ pc \in Word
        /\ csrs \in [StoredCsrs -> Word] /\ priv \in PrivilegeBits
    BY DEF TakeTrap, StepResult, Exception, NormalStep, Fault, TypeOK, CoreTypeOK
  <1> DEFINE old == csrs["mstatus"]
             m == TrapMstatus(old, priv)
             c1 == SetCsr(csrs, "mcause", r.mcause)
             c2 == SetCsr(c1, "mtval", r.mtval)
             c3 == SetCsr(c2, "mepc", pc)
  <1>2. csrs' = SetCsr(c3, "mstatus", m)
    BY DEF TakeTrap, TakeException
  <1> DEFINE Same(c) == \A n \in LoggableCsrs \ TrapCsrs : Readback(c, n) = Readback(csrs, n)
             Entering(c) == c \in [StoredCsrs -> Word] /\ c["mstatus"] = old /\ Same(c)
  <1>3. ASSUME NEW c \in [StoredCsrs -> Word], Same(c), NEW v \in Word, NEW name \in TrapCsrs
        PROVE  Same(SetCsr(c, name, v))
    <2>1. name \in CsrNames \ {"fcsr"}
      BY DEF TrapCsrs, CsrNames, StoredCsrs
    <2>2. \A n \in LoggableCsrs \ TrapCsrs : n \in LoggableCsrs \ {name}
      OBVIOUS
    <2> QED  BY <1>3, <2>1, <2>2, ReadbackElsewhere
  <1>4. ASSUME NEW c, Entering(c), NEW v \in Word, NEW name \in TrapCsrs \ {"mstatus"}
        PROVE  Entering(SetCsr(c, name, v))
    <2>1. Same(SetCsr(c, name, v))
      BY <1>3, <1>4
    <2> HIDE DEF Same
    <2> QED  BY <1>4, <2>1, SetCsrType, SetCsrMstatus
  <1>5. m \in Word
    BY <1>1, TrapMstatusType DEF StoredCsrs
  <1>6. {"mcause", "mtval", "mepc"} \subseteq TrapCsrs \ {"mstatus"} /\ "mstatus" \in TrapCsrs
    BY DEF TrapCsrs
  <1>7. Entering(csrs)
    BY <1>1
  <1> HIDE DEF Entering, m
  <1>8. Entering(c3)
    BY <1>1, <1>4, <1>6, <1>7
  <1> HIDE DEF c3
  <1>9. csrs'["mstatus"] = LegalMstatus(old, m) /\ Same(csrs')
    <2>1. c3 \in [StoredCsrs -> Word] /\ c3["mstatus"] = old /\ Same(c3)
      BY <1>8 DEF Entering
    <2>2. csrs'["mstatus"] = LegalMstatus(old, m)
      BY <1>2, <1>5, <2>1, SetCsrMstatus
    <2> HIDE DEF Same
    <2> QED  BY <1>2, <1>3, <1>5, <1>6, <2>1, <2>2
  <1>10. LegalMstatus(old, m) \ TrapFields = old \ TrapFields
    <2>1. WellFormed(old)
      BY DEF MstatusWellFormed
    <2>2. Sll(priv, 11) \subseteq MPP
      BY <1>1, WordFacts DEF Sll, PrivilegeBits, MPP
    <2> HIDE DEF old
    <2> USE DEF MIE, MPIE, MPP, FS, MPRV, UXL_RV64, SD, FS_DIRTY
    <2>3. m \ TrapFields = old \ TrapFields
      BY <2>1, <2>2 DEF m, TrapMstatus, TrapFields, WellFormed, MSTATUS_WRITABLE
    <2>4. m \cap FS = old \cap FS
      BY <2>3 DEF TrapFields
    <2> QED  BY <2>1, <2>3, <2>4 DEF LegalMstatus, TrapFields, WellFormed, MSTATUS_WRITABLE
  <1> QED  BY <1>9, <1>10

\* A reader of the log knows every control and status register as set_csr
\* reports it, but for the three a trap writes and the fields of mstatus in
\* which it stacks the context it interrupts.
THEOREM LogAccountsForCsrs == ReplaySpec => []ReplayedCsrs
  <1> DEFINE Agrees == DOMAIN tc = LoggableCsrs /\ ReplayedCsrs
             Reads(c, t) == /\ DOMAIN t = LoggableCsrs
                            /\ \A n \in LoggableCsrs \ TrapCsrs : t[n] = Readback(c, n)
                            /\ t["mstatus"] \ TrapFields = c["mstatus"] \ TrapFields
  <1>0. "mstatus" \in LoggableCsrs /\ \A c : Readback(c, "mstatus") = c["mstatus"]
    BY DEF LoggableCsrs, CsrNames, StoredCsrs, Readback, GetCsr
  <1>1. ReplayInit => Agrees
    BY <1>0 DEF ReplayInit, ReplayedCsrs, Observed
  <1>2. TypeOK /\ MstatusWellFormed /\ Agrees /\ [ReplayNext]_replayVars => Agrees'
    <2> SUFFICES ASSUME TypeOK, MstatusWellFormed, Agrees, [ReplayNext]_replayVars
                 PROVE  Agrees'
      OBVIOUS
    <2>1. ASSUME status = "running", NEW insn \in Insns, ReplayedStep(insn),
                 status' = "running"
          PROVE  Reads(csrs', tc')
      <3>0. Reads(csrs, tc)
        BY <2>1 DEF ReplayedCsrs
      <3>1. PICK r \in Execute(insn) :
               \/ /\ Retire(r) /\ r \in NormalStep
                  /\ Consume(CommitOf(r))
                  /\ csrs' = NextCsrs(r) /\ mem' = NextMem(r)
               \/ TakeTrap(r) /\ r \in StepResult /\ UNCHANGED replay
        BY <2>1, ReplayedOutcome
      <3>2. CASE TakeTrap(r) /\ r \in StepResult /\ UNCHANGED replay
        BY <3>0, <3>2, TrapChanges DEF replay
      <3>3. CASE r \in NormalStep /\ Consume(CommitOf(r)) /\ csrs' = NextCsrs(r)
        <4>1. tc' = [n \in LoggableCsrs |->
                        IF n \in LoggedCsrs(r) THEN Readback(csrs', n) ELSE tc[n]]
          BY <3>3, CsrsFollow
        <4>2. \A n \in LoggableCsrs \ LoggedCsrs(r) : Readback(csrs', n) = Readback(csrs, n)
          BY <3>3, UnloggedKept
        <4> QED  BY <1>0, <3>0, <4>1, <4>2
      <3> QED  BY <3>1, <3>2, <3>3
    <2>2. ASSUME NEW insn \in Insns, ReplayedStep(insn) PROVE DOMAIN tc' = LoggableCsrs
      <3>1. CASE UNCHANGED replay
        BY <3>1 DEF replay
      <3>2. CASE \E r : Consume(CommitOf(r))
        BY <3>2 DEF Consume, Overwrite
      <3> QED  BY <2>2, <3>1, <3>2 DEF ReplayedStep
    <2>3. CASE FetchFault /\ UNCHANGED replay
      BY <2>3 DEF FetchFault, replay, ReplayedCsrs
    <2>4. CASE UNCHANGED <<vars, replay>>
      BY <2>4 DEF vars, replay, ReplayedCsrs
    <2>5. ASSUME NEW insn \in Insns, status = "running", ReplayedStep(insn) PROVE Agrees'
      BY <2>1, <2>2, <2>5 DEF ReplayedCsrs
    <2> QED  BY <2>3, <2>4, <2>5 DEF ReplayNext, Ended, replayVars
  <1>3. ReplaySpec => []MstatusWellFormed
    BY ReplayImplementsExecutor, MstatusStaysWellFormed, PTL
  <1> QED  BY <1>1, <1>2, <1>3, ReplayTypes, PTL DEF ReplaySpec
=============================================================================
