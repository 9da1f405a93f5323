-------------------------------- MODULE Alu --------------------------------
(***************************************************************************)
(* The integer operations of execute.cpp: OP-IMM, OP, OP-IMM-32, OP-32 and *)
(* the branch comparisons, as operators on register values.  An operation  *)
(* the overload does not list makes it throw; the callers test membership  *)
(* in the sets below first.  Results of MulDivUnit are not computed here.  *)
(***************************************************************************)
EXTENDS Words

OpImmTypes == {"Add", "Slt", "Sltu", "Xor", "Or", "And", "Sll", "Srl", "Sra"}
OpTypes == OpImmTypes \cup {"Sub"}
MulDivTypes == {"Mul", "Mulh", "Mulhsu", "Mulhu", "Div", "Divu", "Rem", "Remu"}
OpImm32Types == {"Add", "Sll", "Srl", "Sra"}
Op32Types == OpImm32Types \cup {"Sub"}
MulDiv32Types == {"Mul", "Div", "Divu", "Rem", "Remu"}
BranchTypes == {"Eq", "Ne", "Lt", "Ge", "Ltu", "Geu"}

-----------------------------------------------------------------------------
\* The switches of the OpImmInsn and OpInsn overloads.  Both mask the shift
\* amount with 0x3f; b is the immediate or rs2.
OpResult(type, a, b) ==
    LET shamt == Amount(b, SHBITS) IN
    CASE type = "Add"  -> Plus(a, b)
      [] type = "Sub"  -> Minus(a, b)
      [] type = "Slt"  -> BoolWord(Lt(a, b))
      [] type = "Sltu" -> BoolWord(Ltu(a, b))
      [] type = "Xor"  -> Xor(a, b)
      [] type = "Or"   -> a \cup b
      [] type = "And"  -> a \cap b
      [] type = "Sll"  -> Sll(a, shamt)
      [] type = "Srl"  -> Srl(a, shamt)
      [] type = "Sra"  -> SraIn(a, XLEN, shamt)

\* A 32-bit shift of the word a by shamt positions.
Shift32(type, a, shamt) ==
    CASE type = "Sll" -> Sll(a, shamt) \cap Low(WLEN)
      [] type = "Srl" -> Srl(a, shamt)
      [] type = "Sra" -> SraIn(a, WLEN, shamt)

\* Mutation of OpImm32Result: the shifts see the upper half of the register.
OpImm32Wide(type, a, imm) ==
    IF type = "Add"
    THEN Sext(Plus(a, imm), WLEN)
    ELSE Sext(Shift32(type, a, Amount(imm, WSHBITS)), WLEN)

\* The switch of the OpImm32Insn overload: 32-bit result, sign extended.
OpImm32Result(type, a, imm) ==
    LET word == a \cap Low(WLEN) IN
    IF type = "Add"
    THEN Sext(Plus(word, imm \cap Low(WLEN)), WLEN)
    ELSE Sext(Shift32(type, word, Amount(imm, WSHBITS)), WLEN)

\* Mutation of Op32Results: SUBW returns its result zero extended.
Op32ZeroExtended(type, a, b) ==
    IF type = "Sub" THEN {Minus(a \cap Low(WLEN), b \cap Low(WLEN)) \cap Low(WLEN)}
    ELSE {OpImm32Result(type, a, b)}

(***************************************************************************)
(* The switch of the Op32Insn overload.  Its shift amount is masked with   *)
(* 0x3f, so a 32-bit value may be shifted by 32 positions or more, which   *)
(* C++ leaves undefined: the processor's shift drops the upper amount bit, *)
(* while a compiler that folds or widens the shift moves every bit out.    *)
(***************************************************************************)
Op32Results(type, a, b) ==
    LET x == a \cap Low(WLEN)
        y == b \cap Low(WLEN)
        shamt == Amount(y, SHBITS)
        \* Every bit of an arithmetic shift that moves all bits out is the sign.
        amounts == IF shamt < WLEN THEN {shamt} ELSE {shamt % WLEN, shamt}
    IN  CASE type = "Add" -> {Sext(Plus(x, y), WLEN)}
          [] type = "Sub" -> {Sext(Minus(x, y), WLEN)}
          [] OTHER        -> {Sext(Shift32(type, x, n), WLEN) : n \in amounts}

\* Mutation of ShouldBranch: greater for greater or equal.
ShouldBranchStrict(type, a, b) ==
    CASE type = "Eq"  -> a = b
      [] type = "Ne"  -> a # b
      [] type = "Lt"  -> Lt(a, b)
      [] type = "Ge"  -> Lt(b, a)
      [] type = "Ltu" -> Ltu(a, b)
      [] type = "Geu" -> Ltu(b, a)

\* The switch of the BranchInsn overload.
ShouldBranch(type, a, b) ==
    CASE type = "Eq"  -> a = b
      [] type = "Ne"  -> a # b
      [] type = "Lt"  -> Lt(a, b)
      [] type = "Ge"  -> ~Lt(a, b)
      [] type = "Ltu" -> Ltu(a, b)
      [] type = "Geu" -> ~Ltu(a, b)
=============================================================================
