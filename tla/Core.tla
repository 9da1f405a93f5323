-------------------------------- MODULE Core --------------------------------
(***************************************************************************)
(* The architectural state of the hart (class Core of cpu.h) and the       *)
(* operations of cpu.cpp on it: reading and writing control and status     *)
(* registers, and entering the trap handler.  Values are sets of bits.     *)
(***************************************************************************)
EXTENDS Words

CONSTANTS XRegs,      \* numbers of the integer registers, 0 among them
          FRegs,      \* numbers of the floating-point registers
          Boot        \* the values memory may hold where Core is constructed

VARIABLES pc,         \* Core::pc
          priv,       \* Core::priv
          gprs,       \* Core::gprs
          fprs,       \* Core::fprs
          csrs        \* Core::csrs, by register

coreVars == <<pc, priv, gprs, fprs, csrs>>

-----------------------------------------------------------------------------
\* enum class Privilege.  Encoding 2 has no name, but mstatus.MPP can hold it.
User == {}
Supervisor == {0}
Machine == {0, 1}
PrivilegeBits == SUBSET {0, 1}

\* The fields of mstatus.
MIE == {3}
MPIE == {7}
MPP == {11, 12}
FS == {13, 14}
MPRV == {17}
UXL_RV64 == {33}
SD == {63}
FS_DIRTY == {13, 14}
MSTATUS_WRITABLE == MIE \cup MPIE \cup MPP \cup FS \cup MPRV

\* The registers set_csr stores by themselves, the two views of fcsr, and the
\* read-only one.  (A register has_csr rejects is "unimplemented".)
StoredCsrs == {"fcsr", "mstatus", "mie", "mtvec", "mscratch", "mepc", "mcause",
               "mtval", "pmpcfg0", "pmpaddr0", "mhartid"}
CsrNames == StoredCsrs \cup {"fflags", "frm"}
HasCsr(name) == name \in CsrNames

Fflags == Low(5)      \* the accrued exception flags in fcsr
Frm == {5, 6, 7}      \* the rounding mode in fcsr

ASSUME CoreAssumption ==
    /\ XLEN = 64 /\ WLEN = 32
    /\ 0 \in XRegs
    /\ Boot \subseteq [StoredCsrs -> Word]

-----------------------------------------------------------------------------
\* Core::get_csr.  Frm is fcsr shifted down with no mask.
GetCsr(c, name) ==
    CASE name = "fflags" -> c["fcsr"] \cap Fflags
      [] name = "frm"    -> Srl(c["fcsr"], 5)
      [] OTHER           -> c[name]

\* Mutation of LegalMstatus: SD is left as it was.
MaskedMstatus(old, v) ==
    (old \ MSTATUS_WRITABLE) \cup (v \cap MSTATUS_WRITABLE)

\* The new mstatus: writable fields from v, SD recomputed from FS.
LegalMstatus(old, v) ==
    LET new == ((old \ MSTATUS_WRITABLE) \cup (v \cap MSTATUS_WRITABLE)) \ SD
    IN  IF new \cap FS = FS_DIRTY THEN new \cup SD ELSE new

\* Core::set_csr, for a register it does not refuse.
SetCsr(c, name, v) ==
    CASE name = "fflags"  -> [c EXCEPT !["fcsr"] = (@ \ Fflags) \cup (v \cap Fflags)]
      [] name = "frm"     -> [c EXCEPT !["fcsr"] = (@ \ Frm) \cup Sll(v \cap Low(3), 5)]
      [] name = "fcsr"    -> [c EXCEPT !["fcsr"] = v \cap Low(8)]
      [] name = "mstatus" -> [c EXCEPT !["mstatus"] = LegalMstatus(@, v)]
      [] name \in {"mepc", "mtvec"} -> [c EXCEPT ![name] = v \ {0, 1}]
      [] OTHER            -> [c EXCEPT ![name] = v]

\* set_csr throws for mhartid (and for a register that does not exist).
Writable(name) == name \in CsrNames \ {"mhartid"}

\* The value set_csr returns, read from the registers c after the write.
Readback(c, name) ==
    IF name = "frm" THEN Srl(c["fcsr"], 5) \cap Low(3) ELSE GetCsr(c, name)

-----------------------------------------------------------------------------
(***************************************************************************)
(* The constructor: every register is zeroed except the array of CSRs,     *)
(* which has no initializer.  Only mstatus is assigned, so the others hold *)
(* whatever Boot says was in memory.                                       *)
(***************************************************************************)
CoreInit(entry) ==
    /\ pc = entry
    /\ priv = Machine
    /\ gprs = [r \in XRegs |-> {}]
    /\ fprs = [r \in FRegs |-> {}]
    /\ \E garbage \in Boot : csrs = [garbage EXCEPT !["mstatus"] = UXL_RV64]

\* Mutation of TrapMstatus: the handler starts with interrupts still enabled.
TrapMstatusKeepsMie(old, from) ==
    ((IF MIE \subseteq old THEN old \cup MPIE ELSE old \ MPIE) \ MPP)
        \cup Sll(from, 11)

\* The mstatus take_exception stores: MIE moves to MPIE, the privilege to MPP.
TrapMstatus(old, from) ==
    LET stacked == IF MIE \subseteq old THEN old \cup MPIE ELSE old \ MPIE
        sd == IF stacked \cap FS = FS_DIRTY THEN stacked \cup SD ELSE stacked \ SD
    IN  ((sd \ MIE) \ MPP) \cup Sll(from, 11)

\* Core::take_exception.
TakeException(mcause, mtval) ==
    /\ csrs' = SetCsr(SetCsr(SetCsr(SetCsr(csrs,
                   "mcause", mcause),
                   "mtval", mtval),
                   "mepc", pc),
                   "mstatus", TrapMstatus(csrs["mstatus"], priv))
    /\ pc' = GetCsr(csrs', "mtvec") \ {0, 1}
    /\ priv' = Machine
    /\ UNCHANGED <<gprs, fprs>>

CoreTypeOK ==
    /\ pc \in Word
    /\ priv \in PrivilegeBits
    /\ gprs \in [XRegs -> Word]
    /\ fprs \in [FRegs -> HalfWord]
    /\ csrs \in [StoredCsrs -> Word]
=============================================================================
