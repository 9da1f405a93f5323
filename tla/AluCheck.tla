------------------------------ MODULE AluCheck ------------------------------
(***************************************************************************)
(* The integer operations of Alu and the multiplier and divider of MulDiv  *)
(* against integer arithmetic.  A register is read as a number, unsigned   *)
(* or two's complement, and every operation is compared with what the      *)
(* RISC-V manual says of it in those terms, for every pair of operands of  *)
(* a narrow machine.  The narrow machine keeps the proportions of the      *)
(* program's: the word is half the register, and the shift amount fields   *)
(* have the logarithms of the widths.                                      *)
(***************************************************************************)
EXTENDS MulDiv

VARIABLES u, v      \* the operands, as numbers

\* The number a word denotes; a table, so that TLC sums every word once.
Number == [w \in Word |-> LowValue(w)[XLEN]]
Unsigned(w) == Number[w]
Signed(w, n) == Unsigned(w) - (IF n - 1 \in w THEN 2^n ELSE 0)
\* The word of n bits congruent to the number x.
Bin(x, n) == {i \in Low(n) : ((x % 2^n) \div 2^i) % 2 = 1}

\* The operands as words; a table again.
WordOf == [n \in Registers(XLEN) |-> Bin(n, XLEN)]
a == WordOf[u]
b == WordOf[v]

\* What an operation returns on registers of n bits.
Reference(type, x, y, n) ==
    LET shift == 2^(Unsigned(y) % n) IN
    CASE type = "Add"  -> Bin(Unsigned(x) + Unsigned(y), n)
      [] type = "Sub"  -> Bin(Unsigned(x) - Unsigned(y), n)
      [] type = "Slt"  -> Bin(IF Signed(x, n) < Signed(y, n) THEN 1 ELSE 0, n)
      [] type = "Sltu" -> Bin(IF Unsigned(x) < Unsigned(y) THEN 1 ELSE 0, n)
      [] type = "Xor"  -> {i \in Low(n) : (i \in x) # (i \in y)}
      [] type = "Or"   -> {i \in Low(n) : i \in x \/ i \in y}
      [] type = "And"  -> {i \in Low(n) : i \in x /\ i \in y}
      [] type = "Sll"  -> Bin(Unsigned(x) * shift, n)
      [] type = "Srl"  -> Bin(Unsigned(x) \div shift, n)
      [] type = "Sra"  -> Bin(Signed(x, n) \div shift, n)

\* The W form of an operation: on the low halves, the result sign extended.
ReferenceW(type, x, y) ==
    Bin(Signed(Reference(type, x \cap Low(WLEN), y \cap Low(WLEN), WLEN), WLEN), XLEN)

\* x divided by y is q, and r is left: what the manual requires of DIV and REM.
IsDivision(x, y, q, r) ==
    /\ x = q * y + r
    /\ Magnitude(r) < Magnitude(y)
    /\ r = 0 \/ (r < 0) = (x < 0)

\* Dividing the numbers of n-bit words, with the results the manual fixes
\* for a zero divisor and for the quotient that does not fit.
IsSignedDivision(x, y, q, r, n) ==
    IF y = 0 THEN q = -1 /\ r = x
    ELSE IF x = -(2^(n - 1)) /\ y = -1 THEN q = x /\ r = 0
    ELSE IsDivision(x, y, q, r)
IsUnsignedDivision(x, y, q, r, n) ==
    IF y = 0 THEN q = 2^n - 1 /\ r = x ELSE IsDivision(x, y, q, r)

\* Every first operand; the second one counts through the registers.
Init == u \in Registers(XLEN) /\ v = 0
Next == v' = (v + 1) % 2^XLEN /\ UNCHANGED u
Spec == Init /\ [][Next]_<<u, v>>

-----------------------------------------------------------------------------
\* OP and OP-IMM compute what the manual says, on every pair of operands:
\* carries and borrows into the sign bit, comparisons across zero, shifts by
\* amounts whose upper bits must be ignored.
OpAgrees == \A type \in OpTypes : OpResult(type, a, b) = Reference(type, a, b, XLEN)

\* OP-IMM-32 ignores the upper halves and extends the sign of the result.
OpImm32Agrees ==
    \A type \in OpImm32Types : OpImm32Result(type, a, b) = ReferenceW(type, a, b)

\* OP-32 does too, with one exception it shares with no other operation: a
\* shift amount as large as the word leaves the result to the compiler, and
\* only for those amounts is the manual's result merely one of the possible.
Op32Agrees ==
    \A type \in Op32Types :
        /\ ReferenceW(type, a, b) \in Op32Results(type, a, b)
        /\ \/ Op32Results(type, a, b) = {ReferenceW(type, a, b)}
           \/ type \in {"Sll", "Srl", "Sra"}
                /\ Amount(b \cap Low(WLEN), SHBITS) >= WLEN

\* The six branch conditions are the orders they are named after.
BranchAgrees ==
    /\ ShouldBranch("Eq", a, b) <=> Unsigned(a) = Unsigned(b)
    /\ ShouldBranch("Lt", a, b) <=> Signed(a, XLEN) < Signed(b, XLEN)
    /\ ShouldBranch("Ltu", a, b) <=> Unsigned(a) < Unsigned(b)
    /\ \A t \in {<<"Eq", "Ne">>, <<"Lt", "Ge">>, <<"Ltu", "Geu">>} :
            ShouldBranch(t[1], a, b) <=> ~ShouldBranch(t[2], a, b)

\* The multiplier and divider compute what the manual says, on every pair of
\* operands: the upper halves of signed and mixed products, quotients cut
\* off towards zero, division by zero, and the quotient that does not fit.
MulDivAgrees ==
    LET s == BitCast(u, XLEN)
        t == BitCast(v, XLEN)
        Result(op) == MulDivResult(op, u, v)
        SignedResult(op) == BitCast(Result(op), XLEN)
        Upper(product) == (product \div 2^XLEN) % 2^XLEN
    IN  /\ Result("Mul") = (s * t) % 2^XLEN
        /\ Result("Mulh") = Upper(s * t)
        /\ Result("Mulhsu") = Upper(s * v)
        /\ Result("Mulhu") = Upper(u * v)
        /\ IsSignedDivision(s, t, SignedResult("Div"), SignedResult("Rem"), XLEN)
        /\ IsUnsignedDivision(u, v, Result("Divu"), Result("Remu"), XLEN)

\* The W forms do so on the lower halves and extend the sign of the result,
\* even that of an unsigned quotient.
MulDivWordAgrees ==
    LET x == u % 2^WLEN
        y == v % 2^WLEN
        s == BitCast(x, WLEN)
        t == BitCast(y, WLEN)
        Result(op) == BitCast(MulDivWordResult(op, u, v), XLEN)
        UnsignedResult(op) == Result(op) % 2^WLEN
    IN  /\ Result("Mul") = BitCast((s * t) % 2^WLEN, WLEN)
        /\ IsSignedDivision(s, t, Result("Div"), Result("Rem"), WLEN)
        /\ IsUnsignedDivision(x, y, UnsignedResult("Divu"), UnsignedResult("Remu"), WLEN)
        /\ \A op \in {"Divu", "Remu"} : Result(op) = BitCast(UnsignedResult(op), WLEN)
=============================================================================
