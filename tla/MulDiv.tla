------------------------------- MODULE MulDiv -------------------------------
(***************************************************************************)
(* The multiplier and divider of mul_div.cpp.  Words are numbers here:     *)
(* register values of n bits are 0 .. 2^n - 1, and the arithmetic of       *)
(* std::uint64_t is arithmetic modulo 2^XLEN.  A type neither switch lists *)
(* makes the unit throw; its callers never pass one.                       *)
(***************************************************************************)
EXTENDS Alu

\* The law of exponents that proofs need, true of every width: exponentiation
\* is defined by recursion, and no prover knows more of it than this.
ASSUME PowersAssumption ==
    /\ 2^0 = 1
    /\ \A n \in 0 .. XLEN + SHBITS + WSHBITS : 2^(n + 1) = 2 * 2^n

Registers(n) == 0 .. 2^n - 1

\* std::bit_cast to the signed type of n bits.
BitCast(x, n) == IF x >= 2^(n - 1) THEN x - 2^n ELSE x

\* Mutation of HighHalf: the middle columns are added without their carry.
HighHalfNoCarry(l, r, H) ==
    LET low_high == (l % H) * (r \div H)
        high_low == (l \div H) * (r % H)
    IN  (l \div H) * (r \div H) + low_high \div H + high_low \div H

\* The upper half of the product of two numbers below H * H, from the four
\* products of their halves: the sums that carry into the upper half are
\* collected in one word.
HighHalf(l, r, H) ==
    LET low_low == (l % H) * (r % H)
        low_high == (l % H) * (r \div H)
        high_low == (l \div H) * (r % H)
        high_high == (l \div H) * (r \div H)
        carry == low_low \div H + (low_high % H) + (high_low % H)
    IN  high_high + low_high \div H + high_low \div H + carry \div H

multiply_high_unsigned(l, r) == HighHalf(l, r, 2^(XLEN \div 2)) % 2^XLEN

sign_extend_word(w) == IF w >= 2^(WLEN - 1) THEN 2^XLEN - 2^WLEN + w ELSE w

-----------------------------------------------------------------------------
\* C++ division of signed numbers, y # 0: the quotient is cut off towards zero.
Magnitude(x) == IF x < 0 THEN -x ELSE x
Truncated(x, y) ==
    LET q == Magnitude(x) \div Magnitude(y)
    IN  IF (x < 0) = (y < 0) THEN q ELSE -q
Remainder(x, y) == x - y * Truncated(x, y)

Overflows(l, r, n) == BitCast(l, n) = -(2^(n - 1)) /\ BitCast(r, n) = -1

\* Mutation of Divide: the quotient is rounded down.
DivideFloor(l, r, n) ==
    CASE r = 0              -> 2^n - 1
      [] Overflows(l, r, n) -> l
      [] OTHER -> LET x == BitCast(l, n)  y == BitCast(r, n)
                  IN  (IF y < 0 THEN (-x) \div (-y) ELSE x \div y) % 2^n

\* The signed division of n-bit words: dividing by zero gives all ones, and
\* the one quotient that does not fit gives the dividend.
Divide(l, r, n) ==
    CASE r = 0              -> 2^n - 1
      [] Overflows(l, r, n) -> l
      [] OTHER              -> Truncated(BitCast(l, n), BitCast(r, n)) % 2^n

Modulo(l, r, n) ==
    CASE r = 0              -> l
      [] Overflows(l, r, n) -> 0
      [] OTHER              -> Remainder(BitCast(l, n), BitCast(r, n)) % 2^n

DivideUnsigned(l, r, n) == IF r = 0 THEN 2^n - 1 ELSE l \div r
ModuloUnsigned(l, r, n) == IF r = 0 THEN l ELSE l % r

-----------------------------------------------------------------------------
\* What a set sign bit of x takes off the upper half of an unsigned product.
SignCorrection(x, y) == IF x >= 2^(XLEN - 1) THEN y ELSE 0

\* MulDivUnit::execute.
MulDivResult(op, l, r) ==
    CASE op = "Mul"    -> (l * r) % 2^XLEN
      [] op = "Mulh"   -> (multiply_high_unsigned(l, r)
                             - SignCorrection(l, r) - SignCorrection(r, l)) % 2^XLEN
      [] op = "Mulhsu" -> (multiply_high_unsigned(l, r) - SignCorrection(l, r)) % 2^XLEN
      [] op = "Mulhu"  -> multiply_high_unsigned(l, r)
      [] op = "Div"    -> Divide(l, r, XLEN)
      [] op = "Divu"   -> DivideUnsigned(l, r, XLEN)
      [] op = "Rem"    -> Modulo(l, r, XLEN)
      [] op = "Remu"   -> ModuloUnsigned(l, r, XLEN)

\* Mutation of MulDivWordResult: the unsigned results are zero extended.
MulDivWordZeroExtended(op, l, r) ==
    LET x == l % 2^WLEN
        y == r % 2^WLEN
    IN  CASE op = "Mul"  -> sign_extend_word((x * y) % 2^WLEN)
          [] op = "Div"  -> sign_extend_word(Divide(x, y, WLEN))
          [] op = "Rem"  -> sign_extend_word(Modulo(x, y, WLEN))
          [] op = "Divu" -> DivideUnsigned(x, y, WLEN)
          [] op = "Remu" -> ModuloUnsigned(x, y, WLEN)

\* MulDivUnit::execute_word: the lower words, and a sign extended result,
\* that of the unsigned operations too.
MulDivWordResult(op, l, r) ==
    LET x == l % 2^WLEN
        y == r % 2^WLEN
    IN  sign_extend_word(
            CASE op = "Mul"  -> (x * y) % 2^WLEN
              [] op = "Div"  -> Divide(x, y, WLEN)
              [] op = "Divu" -> DivideUnsigned(x, y, WLEN)
              [] op = "Rem"  -> Modulo(x, y, WLEN)
              [] op = "Remu" -> ModuloUnsigned(x, y, WLEN))
=============================================================================
