--------------------------- MODULE AluCheck_proofs ---------------------------
(***************************************************************************)
(* The integer operations compute what the manual says for every width and *)
(* every pair of operands: the six invariants of AluCheck.  The operations *)
(* of Alu are formulas about bits; Words_proofs turns each into arithmetic *)
(* on the number its operand is, and a word is determined by its number.   *)
(* The multiplier and divider are arithmetic from the start: a product of  *)
(* registers is put together from the products of their halves; two        *)
(* readings of a register differ by a multiple of its range, which a       *)
(* remainder does not see; and a truncated quotient of two numbers of a    *)
(* type is of the type, with the one exception the code tests for.         *)
(***************************************************************************)
EXTENDS AluCheck, Words_proofs

-----------------------------------------------------------------------------
\* The exponents of two that occur are the powers Words counts with.
LEMMA PowerIs ==
    /\ \A n \in 0 .. XLEN + SHBITS + WSHBITS : 2^n = Power[n]
    /\ {XLEN, WLEN, SHBITS, WSHBITS} \subseteq 0 .. XLEN + SHBITS + WSHBITS
    /\ XLEN \in Nat \ {0} /\ WLEN \in Nat \ {0}
  <1> DEFINE T == XLEN + SHBITS + WSHBITS
             S == {n \in Nat : n <= T => 2^n = Power[n]}
  <1>0. T \in Nat /\ XLEN \in Nat \ {0} /\ WLEN \in Nat \ {0} /\ SHBITS \in Nat
        /\ WSHBITS \in Nat /\ WLEN < XLEN
        /\ XLEN <= T /\ SHBITS <= T /\ WSHBITS <= T
    BY WidthAssumption
  <1>1. 0 \in S
    BY PowersAssumption, PowerFacts
  <1>2. ASSUME NEW n \in Nat, n \in S PROVE n + 1 \in S
    <2> SUFFICES ASSUME n + 1 <= T PROVE 2^(n + 1) = Power[n + 1]
      OBVIOUS
    <2>1. n <= T /\ n \in 0 .. T
      BY <1>0
    <2>2. 2^(n + 1) = 2 * 2^n
      BY <2>1, PowersAssumption
    <2>3. 2^n = Power[n] /\ Power[n + 1] = 2 * Power[n]
      BY <1>2, <2>1, PowerFacts
    <2> QED  BY <2>2, <2>3
  <1> HIDE DEF S
  <1>3. Nat \subseteq S
    BY <1>1, <1>2, Induction
  <1>4. \A n \in 0 .. T : 2^n = Power[n]
    BY <1>0, <1>3 DEF S
  <1> QED  BY <1>0, <1>4

\* The widths' own powers.  XLEN is even, for it is a power of two above one.
LEMMA PowerLaws ==
    /\ \A n \in {XLEN, WLEN} : 2^n \in Nat /\ 2^(n - 1) \in Nat \ {0}
    /\ \A n \in {XLEN, WLEN} : 2^n = 2 * 2^(n - 1)
    /\ 2^WLEN <= 2^(XLEN - 1)
    /\ 2^(XLEN \div 2) \in Nat \ {0}
    /\ 2^XLEN = 2^(XLEN \div 2) * 2^(XLEN \div 2)
  <1> DEFINE T == XLEN + SHBITS + WSHBITS
  <1>0. /\ T \in Nat /\ XLEN \in Nat \ {0} /\ WLEN \in Nat \ {0} /\ SHBITS \in Nat
        /\ WSHBITS \in Nat /\ WLEN < XLEN
        /\ XLEN <= T /\ SHBITS <= T /\ WSHBITS <= T
        /\ XLEN = 2^SHBITS /\ WLEN = 2^WSHBITS
    BY WidthAssumption
  <1>1. \A n \in 0 .. T : 2^n = Power[n]
    BY PowerIs
  <1>2. /\ \A n \in Nat : Power[n] \in Nat \ {0} /\ Power[n + 1] = 2 * Power[n]
        /\ Power[0] = 1
    BY PowerFacts
  <1> HIDE DEF T
  <1>3. ASSUME NEW n \in {XLEN, WLEN}
        PROVE  2^n \in Nat /\ 2^(n - 1) \in Nat \ {0} /\ 2^n = 2 * 2^(n - 1)
    <2>1. n \in 0 .. T /\ n - 1 \in 0 .. T /\ n - 1 \in Nat /\ (n - 1) + 1 = n
      BY <1>0
    <2>2. 2^n = Power[n] /\ 2^(n - 1) = Power[n - 1] /\ Power[n] = 2 * Power[n - 1]
          /\ Power[n - 1] \in Nat \ {0} /\ Power[n] \in Nat \ {0}
      BY <1>1, <1>2, <2>1
    <2> QED  BY <2>2
  <1>4. 2^WLEN <= 2^(XLEN - 1)
    <2>1. XLEN - 1 \in Nat /\ WLEN \in 0 .. T /\ XLEN - 1 \in 0 .. T
          /\ (WLEN = XLEN - 1 \/ WLEN < XLEN - 1)
      BY <1>0
    <2>2. WLEN < XLEN - 1 => Power[WLEN] < Power[XLEN - 1]
      BY <1>0, <2>1, PowerGrows
    <2>3. 2^WLEN = Power[WLEN] /\ 2^(XLEN - 1) = Power[XLEN - 1]
          /\ Power[WLEN] \in Nat /\ Power[XLEN - 1] \in Nat
      BY <1>0, <1>1, <1>2, <2>1
    <2> QED  BY <2>1, <2>2, <2>3
  <1>5. \E h \in Nat : XLEN = 2 * h
    <2>1. XLEN = Power[SHBITS]
      BY <1>0, <1>1
    <2>2. SHBITS # 0
      BY <1>0, <1>2, <2>1
    <2>3. SHBITS - 1 \in Nat /\ (SHBITS - 1) + 1 = SHBITS
      BY <1>0, <2>2
    <2>4. Power[SHBITS - 1] \in Nat /\ Power[(SHBITS - 1) + 1] = 2 * Power[SHBITS - 1]
      BY <1>2, <2>3
    <2> QED  BY <2>1, <2>3, <2>4
  <1>6. PICK h \in Nat : XLEN = 2 * h
    BY <1>5
  <1>7. XLEN \div 2 = h /\ h \in 0 .. T /\ XLEN \in 0 .. T /\ h + h = XLEN
    BY <1>0, <1>6
  <1>8. Power[h + h] = Power[h] * Power[h]
    BY <1>6, PowerSum
  <1>9. 2^h = Power[h] /\ 2^XLEN = Power[XLEN] /\ Power[h] \in Nat \ {0}
    BY <1>1, <1>2, <1>7
  <1>10. 2^(XLEN \div 2) \in Nat \ {0} /\ 2^XLEN = 2^(XLEN \div 2) * 2^(XLEN \div 2)
    BY <1>7, <1>8, <1>9
  <1> QED  BY <1>3, <1>4, <1>10

-----------------------------------------------------------------------------
\* The four products of the halves, and what their sums carry, make the upper
\* half of the product: no carry is lost, and none is counted twice.
THEOREM HighHalfIsQuotient ==
    ASSUME NEW H \in Nat \ {0}, NEW l \in 0 .. H * H - 1, NEW r \in 0 .. H * H - 1
    PROVE  HighHalf(l, r, H) = (l * r) \div (H * H)
  <1> DEFINE l0 == l % H
             l1 == l \div H
             r0 == r % H
             r1 == r \div H
             ll == l0 * r0
             lh == l0 * r1
             hl == l1 * r0
             hh == l1 * r1
             carry == ll \div H + (lh % H) + (hl % H)
             high == hh + lh \div H + hl \div H + carry \div H
             low == (carry % H) * H + (ll % H)
  <1>0. l \in Nat /\ r \in Nat /\ H * H \in Nat \ {0}
    BY SMT
  <1>1. l = H * l1 + l0 /\ l0 \in Nat /\ l1 \in Nat
    BY <1>0, DivModNat, SMT
  <1>2. r = H * r1 + r0 /\ r0 \in Nat /\ r1 \in Nat
    BY <1>0, DivModNat, SMT
  <1>3. ll \in Nat /\ lh \in Nat /\ hl \in Nat /\ hh \in Nat
    BY <1>1, <1>2, Products
  <1>4. \A x \in {ll, lh, hl} :
           /\ x = H * (x \div H) + (x % H)
           /\ x \div H \in Nat /\ x % H \in 0 .. H - 1
    <2>1. \A x \in Nat :
             /\ x = H * (x \div H) + (x % H)
             /\ x \div H \in Nat /\ x % H \in 0 .. H - 1
      BY DivModNat
    <2> QED BY <1>3, <2>1
  <1>7. carry \in Nat
    BY <1>4, SMT
  <1>8. /\ carry = H * (carry \div H) + (carry % H)
        /\ carry \div H \in Nat /\ carry % H \in 0 .. H - 1
    BY <1>7, DivModNat
  <1>9. l * r = (H * H) * hh + H * (lh + hl) + ll
    <2> HIDE DEF l0, l1, r0, r1
    <2> QED BY <1>1, <1>2, SMT
  <1>10. l * r = high * (H * H) + low
    <2> DEFINE p == ll \div H
               q == lh \div H
               s == hl \div H
               t == carry \div H
               x == ll % H
               y == lh % H
               w == hl % H
               z == carry % H
    <2> HIDE DEF p, q, s, t, x, y, w, z
    <2>1. l * r = (H * H) * hh + H * ((H * q + y) + (H * s + w)) + (H * p + x)
      BY <1>9, <1>4 DEF p, q, s, x, y, w
    <2>2. p + y + w = H * t + z
      BY <1>8 DEF p, y, w, t, z
    <2>3. high = hh + q + s + t /\ low = z * H + x
      BY DEF q, s, t, z, x
    <2>4. /\ hh \in Int /\ q \in Int /\ s \in Int /\ t \in Int /\ p \in Int
          /\ x \in Int /\ y \in Int /\ w \in Int /\ z \in Int
      BY <1>3, <1>4, <1>8, SMT DEF p, q, s, t, x, y, w, z
    <2> HIDE DEF hh, high, low
    <2>5. H * ((H * q + y) + (H * s + w)) + (H * p + x)
            = (H * H) * (q + s) + H * (p + y + w) + x
      BY <2>4, SMT
    <2>6. H * (H * t + z) = (H * H) * t + z * H
      BY <2>4, SMT
    <2> QED BY <2>1, <2>2, <2>3, <2>4, <2>5, <2>6, SMT
  <1>11. low \in 0 .. H * H - 1
    <2>1. (carry % H) * H <= (H - 1) * H
      BY <1>8, SMT
    <2> QED BY <2>1, <1>8, <1>4, SMT
  <1>12. high \in Nat
    BY <1>3, <1>4, <1>8, SMT
  <1>13. (l * r) \div (H * H) = high
    <2> HIDE DEF high, low
    <2> QED BY <1>0, <1>10, <1>11, <1>12, DivUnique
  <1> QED BY <1>13 DEF HighHalf

-----------------------------------------------------------------------------
\* The two widths words are divided at.
Widths == {XLEN, WLEN}

\* The ranges of the types of n bits: 2^n registers, half of them negative.
LEMMA Ranges ==
    ASSUME NEW n \in Widths
    PROVE  /\ 2^n \in Nat \ {0} /\ 2^(n - 1) \in Nat \ {0}
           /\ 2^n = 2 * 2^(n - 1)
           /\ \A x \in Registers(n) :
                 /\ x \in Nat /\ x < 2^n
                 /\ BitCast(x, n) \in -(2^(n - 1)) .. 2^(n - 1) - 1
                 /\ BitCast(x, n) = (IF x >= 2^(n - 1) THEN x - 2^n ELSE x)
                 /\ BitCast(x, n) = 0 <=> x = 0
  <1>1. 2^n \in Nat /\ 2^(n - 1) \in Nat \ {0} /\ 2^n = 2 * 2^(n - 1)
    BY PowerLaws DEF Widths
  <1> DEFINE N == 2^n
             h == 2^(n - 1)
  <1> HIDE DEF N, h
  <1>2. N \in Nat /\ h \in Nat \ {0} /\ N = 2 * h
    BY <1>1 DEF N, h
  <1>3. ASSUME NEW x \in 0 .. N - 1
        PROVE  LET c == IF x >= h THEN x - N ELSE x
               IN  /\ x \in Nat /\ x < N /\ c \in -h .. h - 1
                   /\ c = 0 <=> x = 0
    BY <1>2, SMT
  <1> QED BY <1>1, <1>2, <1>3 DEF N, h, Registers, BitCast

\* Casting the bits of a number of the type to the type gives the number.
LEMMA BitCastMod ==
    ASSUME NEW n \in Widths, NEW x \in -(2^(n - 1)) .. 2^(n - 1) - 1
    PROVE  x % 2^n \in Registers(n) /\ BitCast(x % 2^n, n) = x
  <1> DEFINE N == 2^n
             h == 2^(n - 1)
  <1> HIDE DEF N, h
  <1>1. N \in Nat \ {0} /\ h \in Nat \ {0} /\ N = 2 * h /\ x \in -h .. h - 1
    BY Ranges DEF N, h
  <1>2. CASE x >= 0
    <2>1. (0 * N + x) % N = x
      BY <1>1, <1>2, DivUnique
    <2>2. 0 * N + x = x
      BY <1>1
    <2>3. x % N = x /\ ~(x >= h)
      BY <2>1, <2>2, <1>1
    <2> QED BY <2>3, <1>2, <1>1 DEF BitCast, Registers, N, h
  <1>3. CASE x < 0
    <2>1. x + N \in 0 .. N - 1
      BY <1>1, <1>3
    <2>2. ((-1) * N + (x + N)) % N = x + N
      BY <1>1, <2>1, DivUnique
    <2>3. (-1) * N + (x + N) = x
      BY <1>1
    <2>4. x % N = x + N /\ x + N >= h /\ (x + N) - N = x
      BY <2>2, <2>3, <1>1
    <2> QED BY <2>4, <2>1, <1>1 DEF BitCast, Registers, N, h
  <1> QED BY <1>1, <1>2, <1>3

-----------------------------------------------------------------------------
\* C++ division is the manual's: the remainder has the sign of the dividend
\* and is smaller than the divisor.  A quotient is no larger than the
\* dividend, and at most half as large unless the divisor is 1 or -1.
LEMMA TruncatedDivides ==
    ASSUME NEW x \in Int, NEW y \in Int \ {0}
    PROVE  LET q == Truncated(x, y)
               r == Remainder(x, y)
           IN  /\ q \in Int /\ r \in Int
               /\ IsDivision(x, y, q, r)
               /\ Magnitude(q) <= Magnitude(x)
               /\ Magnitude(y) >= 2 => 2 * Magnitude(q) <= Magnitude(x)
  <1> DEFINE k == Magnitude(x)
             m == Magnitude(y)
             d == k \div m
             e == k % m
             p == m * d
             q == Truncated(x, y)
  <1>1. k \in Nat /\ m \in Nat \ {0}
    BY DEF Magnitude
  <1>2. k = p + e /\ e \in 0 .. m - 1 /\ d \in Nat
    <2> HIDE DEF k, m
    <2> QED BY <1>1, DivModNat DEF p, d, e
  <1>3. p \in Nat /\ d <= p /\ (m >= 2 => 2 * d <= p)
    <2> HIDE DEF k, m, d
    <2>1. p \in Nat
      BY <1>1, <1>2, Products
    <2>2. 1 * d <= m * d
      BY <1>1, <1>2, SMT
    <2>3. m >= 2 => 2 * d <= m * d
      BY <1>1, <1>2, SMT
    <2> QED BY <2>1, <2>2, <2>3, <1>2
  <1>4. q = IF (x < 0) = (y < 0) THEN d ELSE -d
    BY DEF Truncated
  <1>5. y * q = IF x < 0 THEN -p ELSE p
    <2>1. y = m \/ y = -m
      BY DEF Magnitude
    <2>2. m * d = p /\ (-m) * d = -p /\ m * (-d) = -p /\ (-m) * (-d) = p
      <3> HIDE DEF k, m, d
      <3> QED BY <1>1, <1>2, SMT
    <2>3. CASE y < 0
      <3>1. y = -m
        BY <2>3 DEF Magnitude
      <3> QED BY <3>1, <2>2, <2>3, <1>4
    <2>4. CASE ~(y < 0)
      <3>1. y = m
        BY <2>4 DEF Magnitude
      <3> QED BY <3>1, <2>2, <2>4, <1>4
    <2> QED BY <2>3, <2>4
  <1>6. x = IF x < 0 THEN -k ELSE k
    BY DEF Magnitude
  <1>7. Remainder(x, y) = IF x < 0 THEN -e ELSE e
    <2> HIDE DEF k, m, d, e, p, q
    <2>1. Remainder(x, y) = x - y * q
      BY DEF Remainder, q
    <2> QED BY <2>1, <1>1, <1>2, <1>3, <1>5, <1>6
  <1>8. q \in Int /\ Magnitude(q) = d
    <2> HIDE DEF d
    <2> QED BY <1>2, <1>4 DEF Magnitude
  <1>9. IsDivision(x, y, q, Remainder(x, y))
    <2> HIDE DEF k, d, e, p, q
    <2>1. y * q = q * y
      BY <1>8, SMT
    <2>2. x = q * y + Remainder(x, y)
      <3> HIDE DEF m
      <3> QED BY <2>1, <1>1, <1>2, <1>3, <1>5, <1>6, <1>7
    <2>3. Magnitude(Remainder(x, y)) = e
      BY <1>2, <1>1, <1>7 DEF Magnitude
    <2>4. Remainder(x, y) = 0 \/ (Remainder(x, y) < 0) = (x < 0)
      <3> HIDE DEF m
      <3> QED BY <1>2, <1>7, <1>1
    <2> QED BY <2>2, <2>3, <2>4, <1>2, <1>1 DEF IsDivision
  <1>10. Remainder(x, y) \in Int
    <2> HIDE DEF k, m, e
    <2> QED BY <1>1, <1>2, <1>7
  <1>11. d <= k /\ (m >= 2 => 2 * d <= k)
    <2> HIDE DEF k, m, d, e, p
    <2> QED BY <1>1, <1>2, <1>3
  <1> QED BY <1>8, <1>9, <1>10, <1>11

\* Of two numbers of a type, quotient and remainder are of the type, but for
\* the one quotient that the code tests for.
LEMMA TruncatedFits ==
    ASSUME NEW n \in Widths,
           NEW x \in -(2^(n - 1)) .. 2^(n - 1) - 1,
           NEW y \in -(2^(n - 1)) .. 2^(n - 1) - 1, y # 0,
           ~(x = -(2^(n - 1)) /\ y = -1)
    PROVE  /\ Truncated(x, y) \in -(2^(n - 1)) .. 2^(n - 1) - 1
           /\ Remainder(x, y) \in -(2^(n - 1)) .. 2^(n - 1) - 1
  <1> DEFINE h == 2^(n - 1)
             q == Truncated(x, y)
             r == Remainder(x, y)
  <1>1. h \in Nat \ {0} /\ x \in -h .. h - 1 /\ y \in -h .. h - 1 /\ ~(x = -h /\ y = -1)
    BY Ranges
  <1>2. /\ q \in Int /\ r \in Int /\ IsDivision(x, y, q, r)
        /\ Magnitude(q) <= Magnitude(x)
        /\ Magnitude(y) >= 2 => 2 * Magnitude(q) <= Magnitude(x)
    <2> HIDE DEF h
    <2> QED BY <1>1, TruncatedDivides
  <1> HIDE DEF h, q, r
  <1>3. x = q * y + r /\ Magnitude(r) < Magnitude(y)
    BY <1>2 DEF IsDivision
  <1>4. r \in -h .. h - 1
    BY <1>1, <1>2, <1>3 DEF Magnitude
  <1>5. q \in -h .. h - 1
    <2>1. CASE x # -h
      BY <2>1, <1>1, <1>2 DEF Magnitude
    <2>2. CASE x = -h /\ Magnitude(y) >= 2
      BY <2>2, <1>1, <1>2 DEF Magnitude
    <2>3. CASE x = -h /\ y = 1
      <3>1. q * 1 = q
        BY <1>2
      <3>2. r = 0
        BY <2>3, <1>3, <1>2 DEF Magnitude
      <3> QED BY <3>1, <3>2, <2>3, <1>1, <1>2, <1>3
    <2>4. Magnitude(y) >= 2 \/ y = 1 \/ y = -1
      BY <1>1 DEF Magnitude
    <2> QED BY <2>1, <2>2, <2>3, <2>4, <1>1
  <1> QED BY <1>4, <1>5 DEF h, q, r

\* DIV and REM on words of n bits, the special cases included.
LEMMA SignedDivision ==
    ASSUME NEW n \in Widths, NEW l \in Registers(n), NEW r \in Registers(n)
    PROVE  /\ Divide(l, r, n) \in Registers(n)
           /\ Modulo(l, r, n) \in Registers(n)
           /\ IsSignedDivision(BitCast(l, n), BitCast(r, n), BitCast(Divide(l, r, n), n),
                               BitCast(Modulo(l, r, n), n), n)
  <1> DEFINE h == 2^(n - 1)
             x == BitCast(l, n)
             y == BitCast(r, n)
  <1>0. 2^n \in Nat \ {0} /\ h \in Nat \ {0} /\ 2^n = 2 * h
    BY Ranges
  <1>1. x \in -h .. h - 1 /\ y \in -h .. h - 1 /\ (y = 0 <=> r = 0)
    BY Ranges
  <1>2. CASE r = 0
    <2>0. ~Overflows(l, r, n)
      BY <1>1, <1>2 DEF Overflows
    <2>1. Divide(l, r, n) = 2^n - 1 /\ Modulo(l, r, n) = l
      BY <1>2, <2>0 DEF Divide, Modulo
    <2>2. 2^n - 1 \in Registers(n)
      BY <1>0 DEF Registers
    <2>3. BitCast(2^n - 1, n) = -1
      <3>1. 2^n - 1 >= h
        BY <1>0
      <3> QED BY <3>1, <1>0 DEF BitCast
    <2> QED BY <2>1, <2>2, <2>3, <1>1, <1>2 DEF IsSignedDivision
  <1>3. CASE r # 0 /\ Overflows(l, r, n)
    <2>1. Divide(l, r, n) = l /\ Modulo(l, r, n) = 0
      BY <1>3 DEF Divide, Modulo
    <2>2. x = -(2^(n - 1)) /\ y = -1
      BY <1>3 DEF Overflows
    <2>3. 0 \in Registers(n) /\ BitCast(0, n) = 0
      BY <1>0 DEF Registers, BitCast
    <2> QED BY <2>1, <2>2, <2>3, <1>1 DEF IsSignedDivision
  <1>4. CASE r # 0 /\ ~Overflows(l, r, n)
    <2>1. /\ Divide(l, r, n) = Truncated(x, y) % 2^n
          /\ Modulo(l, r, n) = Remainder(x, y) % 2^n
      BY <1>4 DEF Divide, Modulo
    <2>2. y # 0 /\ ~(x = -(2^(n - 1)) /\ y = -1)
      BY <1>1, <1>4 DEF Overflows
    <2>3. Truncated(x, y) \in -h .. h - 1 /\ Remainder(x, y) \in -h .. h - 1
      <3> HIDE DEF x, y
      <3> QED BY <1>1, <2>2, TruncatedFits
    <2>4. /\ Divide(l, r, n) \in Registers(n) /\ Modulo(l, r, n) \in Registers(n)
          /\ BitCast(Divide(l, r, n), n) = Truncated(x, y)
          /\ BitCast(Modulo(l, r, n), n) = Remainder(x, y)
      <3> HIDE DEF x, y
      <3> QED BY <2>1, <2>3, BitCastMod
    <2>5. IsDivision(x, y, Truncated(x, y), Remainder(x, y))
      <3>1. x \in Int /\ y \in Int \ {0}
        <4> HIDE DEF x, y, h
        <4> QED BY <1>0, <1>1, <2>2
      <3> HIDE DEF x, y
      <3> QED BY <3>1, TruncatedDivides
    <2> QED BY <2>2, <2>4, <2>5 DEF IsSignedDivision
  <1> QED BY <1>2, <1>3, <1>4

\* DIVU and REMU on words of n bits.
LEMMA UnsignedDivision ==
    ASSUME NEW n \in Widths, NEW l \in Registers(n), NEW r \in Registers(n)
    PROVE  /\ DivideUnsigned(l, r, n) \in Registers(n)
           /\ ModuloUnsigned(l, r, n) \in Registers(n)
           /\ IsUnsignedDivision(l, r, DivideUnsigned(l, r, n), ModuloUnsigned(l, r, n), n)
  <1> DEFINE N == 2^n
  <1>0. N \in Nat \ {0} /\ l \in 0 .. N - 1 /\ r \in 0 .. N - 1
    BY Ranges DEF Registers
  <1> HIDE DEF N
  <1>1. CASE r = 0
    BY <1>0, <1>1 DEF DivideUnsigned, ModuloUnsigned, IsUnsignedDivision, Registers, N
  <1>2. CASE r # 0
    <2> DEFINE q == l \div r
               e == l % r
    <2>1. l = r * q + e /\ e \in 0 .. r - 1 /\ q \in Nat
      BY <1>0, <1>2, DivModNat
    <2> HIDE DEF q, e
    <2>2. r * q = q * r /\ r * q \in Nat /\ q <= r * q
      <3>1. 1 * q <= r * q
        BY <1>0, <1>2, <2>1, SMT
      <3> QED BY <3>1, <1>0, <2>1, Products, SMT
    <2>3. q \in 0 .. N - 1 /\ e \in 0 .. N - 1
      BY <1>0, <2>1, <2>2
    <2>4. IsDivision(l, r, q, e)
      BY <1>0, <2>1, <2>2 DEF IsDivision, Magnitude
    <2> QED BY <1>2, <2>3, <2>4
            DEF DivideUnsigned, ModuloUnsigned, IsUnsignedDivision, Registers, N, q, e
  <1> QED BY <1>1, <1>2

-----------------------------------------------------------------------------
\* What the sign bit of a register is worth.
SignOf(x) == IF x >= 2^(XLEN - 1) THEN 1 ELSE 0

\* The upper half of an unsigned product.
LEMMA MultiplyHigh ==
    ASSUME NEW l \in Registers(XLEN), NEW r \in Registers(XLEN)
    PROVE  multiply_high_unsigned(l, r) = ((l * r) \div 2^XLEN) % 2^XLEN
  <1> DEFINE H == 2^(XLEN \div 2)
             N == 2^XLEN
  <1>1. H \in Nat \ {0} /\ N = H * H /\ l \in 0 .. N - 1 /\ r \in 0 .. N - 1
    BY PowerLaws DEF Registers
  <1> HIDE DEF H, N
  <1>2. HighHalf(l, r, H) = (l * r) \div (H * H)
    BY <1>1, HighHalfIsQuotient
  <1> QED BY <1>1, <1>2 DEF multiply_high_unsigned, H, N

\* Reading registers as signed numbers changes their product by a multiple of
\* the range: the upper half of an unsigned product, less a register for
\* every sign bit, is that of the signed one.
LEMMA SignedProducts ==
    ASSUME NEW l \in Registers(XLEN), NEW r \in Registers(XLEN)
    PROVE  LET N == 2^XLEN
               x == BitCast(l, XLEN)
               y == BitCast(r, XLEN)
               high == ((l * r) \div N) % N
               cl == SignCorrection(l, r)
               cr == SignCorrection(r, l)
           IN  /\ (x * y) % N = (l * r) % N
               /\ ((x * y) \div N) % N = (high - cl - cr) % N
               /\ ((x * r) \div N) % N = (high - cl) % N
  <1> DEFINE N == 2^XLEN
             x == BitCast(l, XLEN)
             y == BitCast(r, XLEN)
             e == SignOf(l)
             f == SignOf(r)
             cl == SignCorrection(l, r)
             cr == SignCorrection(r, l)
             quotient == (l * r) \div N
  <1>1. /\ N \in Nat \ {0} /\ l \in Nat /\ r \in Nat
        /\ x = l - e * N /\ y = r - f * N
        /\ e \in {0, 1} /\ f \in {0, 1}
        /\ cl = e * r /\ cr = f * l
    <2>1. XLEN \in Widths
      BY DEF Widths
    <2>2. /\ N \in Nat \ {0} /\ l \in Nat /\ r \in Nat
          /\ x = (IF l >= 2^(XLEN - 1) THEN l - N ELSE l)
          /\ y = (IF r >= 2^(XLEN - 1) THEN r - N ELSE r)
      BY <2>1, Ranges
    <2>3. e \in {0, 1} /\ f \in {0, 1}
      BY DEF SignOf
    <2> HIDE DEF N, x, y
    <2>4. x = l - e * N /\ cl = e * r
      <3>1. CASE l >= 2^(XLEN - 1)
        BY <3>1, <2>2, SMT DEF SignOf, SignCorrection
      <3>2. CASE ~(l >= 2^(XLEN - 1))
        BY <3>2, <2>2, SMT DEF SignOf, SignCorrection
      <3> QED BY <3>1, <3>2
    <2>5. y = r - f * N /\ cr = f * l
      <3>1. CASE r >= 2^(XLEN - 1)
        BY <3>1, <2>2, SMT DEF SignOf, SignCorrection
      <3>2. CASE ~(r >= 2^(XLEN - 1))
        BY <3>2, <2>2, SMT DEF SignOf, SignCorrection
      <3> QED BY <3>1, <3>2
    <2> QED BY <2>2, <2>3, <2>4, <2>5
  <1> HIDE DEF N, x, y, e, f, cl, cr
  <1>2. /\ l * r \in Int /\ cl \in Int /\ cr \in Int
        /\ e * f * N \in Int /\ N \in Int /\ e \in Int /\ f \in Int
    BY <1>1, Products, SMT
  <1>3. x * y = l * r + (e * f * N - cl - cr) * N
    BY <1>1, SMT
  <1>4. x * r = l * r + (-cl) * N
    BY <1>1, SMT
  <1>5. quotient \in Int
    BY <1>1, <1>2, DivMod
  <1>6. /\ (x * y) % N = (l * r) % N
        /\ (x * y) \div N = quotient + (e * f * N - cl - cr)
    <2> DEFINE k == e * f * N - cl - cr
    <2>1. k \in Int
      BY <1>2
    <2> HIDE DEF k
    <2>2. /\ (l * r + k * N) \div N = quotient + k
          /\ (l * r + k * N) % N = (l * r) % N
      BY <1>1, <1>2, <2>1, Shift
    <2> QED BY <1>3, <2>2 DEF k
  <1>7. (x * r) \div N = quotient + (-cl)
    <2> DEFINE k == -cl
    <2>1. k \in Int
      BY <1>2
    <2> HIDE DEF k
    <2>2. (l * r + k * N) \div N = quotient + k
      BY <1>1, <1>2, <2>1, Shift
    <2> QED BY <1>4, <2>2 DEF k
  <1> HIDE DEF quotient
  <1>8. (quotient + (e * f * N - cl - cr)) % N = ((quotient % N) - cl - cr) % N
    <2> DEFINE k == e * f
               c == cl + cr
    <2>1. k \in Int /\ c \in Int /\ quotient - c \in Int
      BY <1>1, <1>2, <1>5, SMT
    <2>2. quotient + (e * f * N - cl - cr) = (quotient - c) + k * N
      BY <1>1, <1>2, <1>5, SMT
    <2>3. quotient % N \in Int
      BY <1>1, <1>5, DivMod
    <2>4. (quotient % N) - cl - cr = (quotient % N) - c
      BY <1>2, <2>3
    <2> HIDE DEF k, c
    <2>5. ((quotient - c) + k * N) % N = (quotient - c) % N
      BY <1>1, <2>1, Shift
    <2>6. ((quotient % N) - c) % N = (quotient - c) % N
      BY <1>1, <1>5, <2>1, ModMinus
    <2> QED BY <2>2, <2>4, <2>5, <2>6
  <1>9. (quotient + (-cl)) % N = ((quotient % N) - cl) % N
    <2>1. quotient + (-cl) = quotient - cl
      BY <1>2, <1>5
    <2>2. ((quotient % N) - cl) % N = (quotient - cl) % N
      BY <1>1, <1>2, <1>5, ModMinus
    <2> QED BY <2>1, <2>2
  <1> QED BY <1>6, <1>7, <1>8, <1>9 DEF N, x, y, e, f, cl, cr, quotient

-----------------------------------------------------------------------------
\* The operands stay registers.
Operands == u \in Registers(XLEN) /\ v \in Registers(XLEN)

\* Counting through the registers does not leave them.
LEMMA OperandsStay == Spec => []Operands
  <1>1. XLEN \in Widths
    BY DEF Widths
  <1>2. Init => Operands
    BY <1>1, Ranges DEF Init, Operands, Registers
  <1>3. Operands /\ [Next]_<<u, v>> => Operands'
    <2> SUFFICES ASSUME Operands, [Next]_<<u, v>> PROVE Operands'
      OBVIOUS
    <2>1. CASE Next
      <3>1. 2^XLEN \in Nat \ {0} /\ v + 1 \in Nat
        BY <1>1, Ranges DEF Operands
      <3>2. (v + 1) % 2^XLEN \in 0 .. 2^XLEN - 1
        BY <3>1, DivModNat
      <3> QED BY <2>1, <3>2 DEF Next, Operands, Registers
    <2>2. CASE UNCHANGED <<u, v>>
      BY <2>2 DEF Operands
    <2> QED BY <2>1, <2>2
  <1> QED BY <1>2, <1>3, PTL DEF Spec

\* For every even width of the machine and every pair of operands, the
\* multiplier and divider return what the manual defines: MulDivUnit::execute
\* with its special cases, and products put together from halves.
THEOREM MulDivCorrect == Spec => []MulDivAgrees
  <1>1. ASSUME Operands PROVE MulDivAgrees
    <2> DEFINE N == 2^XLEN
               x == BitCast(u, XLEN)
               y == BitCast(v, XLEN)
               high == ((u * v) \div N) % N
    <2>1. u \in Registers(XLEN) /\ v \in Registers(XLEN) /\ XLEN \in Widths
      BY <1>1 DEF Operands, Widths
    <2>2. multiply_high_unsigned(u, v) = high
      BY <2>1, MultiplyHigh
    <2>3. /\ (x * y) % N = (u * v) % N
          /\ ((x * y) \div N) % N = (high - SignCorrection(u, v) - SignCorrection(v, u)) % N
          /\ ((x * v) \div N) % N = (high - SignCorrection(u, v)) % N
      BY <2>1, SignedProducts
    <2>4. IsSignedDivision(x, y, BitCast(MulDivResult("Div", u, v), XLEN),
                           BitCast(MulDivResult("Rem", u, v), XLEN), XLEN)
      BY <2>1, SignedDivision DEF MulDivResult
    <2>5. IsUnsignedDivision(u, v, MulDivResult("Divu", u, v),
                             MulDivResult("Remu", u, v), XLEN)
      BY <2>1, UnsignedDivision DEF MulDivResult
    <2>6. /\ MulDivResult("Mul", u, v) = (u * v) % N
          /\ MulDivResult("Mulh", u, v)
                = (high - SignCorrection(u, v) - SignCorrection(v, u)) % N
          /\ MulDivResult("Mulhsu", u, v) = (high - SignCorrection(u, v)) % N
          /\ MulDivResult("Mulhu", u, v) = high
      <3> HIDE DEF high
      <3> QED BY <2>2 DEF MulDivResult
    <2> QED BY <2>3, <2>4, <2>5, <2>6 DEF MulDivAgrees
  <1> QED BY <1>1, OperandsStay, PTL

\* A word in a register is sign extended to the number the word is cast to.
LEMMA SignExtendWord ==
    ASSUME NEW w \in Registers(WLEN)
    PROVE  /\ BitCast(sign_extend_word(w), XLEN) = BitCast(w, WLEN)
           /\ BitCast(w, WLEN) % 2^WLEN = w
  <1> DEFINE W == 2^WLEN
             g == 2^(WLEN - 1)
             N == 2^XLEN
             h == 2^(XLEN - 1)
  <1>1. /\ W \in Nat \ {0} /\ g \in Nat \ {0} /\ W = 2 * g
        /\ N \in Nat \ {0} /\ h \in Nat \ {0} /\ N = 2 * h
        /\ W <= h /\ w \in 0 .. W - 1
    BY PowerLaws DEF Registers
  <1> HIDE DEF W, g, N, h
  <1>2. BitCast(sign_extend_word(w), XLEN) = BitCast(w, WLEN)
    <2>1. CASE w >= g
      <3>1. N - W + w >= h /\ (N - W + w) - N = w - W
        BY <1>1, <2>1
      <3> QED BY <3>1, <2>1 DEF BitCast, sign_extend_word, W, g, N, h
    <2>2. CASE ~(w >= g)
      <3>1. ~(w >= h)
        BY <1>1, <2>2
      <3> QED BY <3>1, <2>2 DEF BitCast, sign_extend_word, W, g, N, h
    <2> QED BY <2>1, <2>2
  <1>3. BitCast(w, WLEN) % W = w
    <2>1. /\ (0 * W + w) % W = w /\ ((-1) * W + w) % W = w
          /\ 0 * W + w = w /\ (-1) * W + w = w - W
      BY <1>1, DivUnique
    <2> QED BY <2>1 DEF BitCast, W
  <1> QED BY <1>2, <1>3 DEF W

\* The W forms return what the manual defines, sign extended, whatever the
\* upper halves of the operands hold: MulDivUnit::execute_word.
THEOREM MulDivWordCorrect == Spec => []MulDivWordAgrees
  <1>1. ASSUME Operands PROVE MulDivWordAgrees
    <2> DEFINE W == 2^WLEN
               l == u % W
               r == v % W
               x == BitCast(l, WLEN)
               y == BitCast(r, WLEN)
               Word1(op) == CASE op = "Mul"  -> (l * r) % W
                              [] op = "Div"  -> Divide(l, r, WLEN)
                              [] op = "Divu" -> DivideUnsigned(l, r, WLEN)
                              [] op = "Rem"  -> Modulo(l, r, WLEN)
                              [] op = "Remu" -> ModuloUnsigned(l, r, WLEN)
    <2>1. WLEN \in Widths /\ XLEN \in Widths /\ W \in Nat \ {0}
      BY Ranges DEF Widths
    <2>2. l \in Registers(WLEN) /\ r \in Registers(WLEN)
      <3>1. u \in Nat /\ v \in Nat
        BY <1>1, <2>1, Ranges DEF Operands
      <3> HIDE DEF W
      <3>2. u % W \in 0 .. W - 1 /\ v % W \in 0 .. W - 1
        BY <2>1, <3>1, DivModNat
      <3> QED BY <3>2 DEF Registers, W
    <2> HIDE DEF l, r
    <2>3. x \in Int /\ y \in Int /\ l \in Nat /\ r \in Nat /\ l * r \in Nat
          /\ (x * y) % W = (l * r) % W
      <3> DEFINE e == IF l >= 2^(WLEN - 1) THEN 1 ELSE 0
                 f == IF r >= 2^(WLEN - 1) THEN 1 ELSE 0
                 k == e * f * W - e * r - f * l
      <3>1. l \in Nat /\ r \in Nat /\ e \in {0, 1} /\ f \in {0, 1}
            /\ x = (IF l >= 2^(WLEN - 1) THEN l - W ELSE l)
            /\ y = (IF r >= 2^(WLEN - 1) THEN r - W ELSE r)
        BY <2>1, <2>2, Ranges
      <3>2. x = l - e * W /\ y = r - f * W
        <4> HIDE DEF W, x, y
        <4> QED BY <3>1, <2>1
      <3> HIDE DEF W, x, y, e, f
      <3>3. x * y = l * r + k * W /\ l * r \in Nat /\ k \in Int /\ x \in Int /\ y \in Int
        BY <2>1, <3>1, <3>2, SMT
      <3> HIDE DEF k
      <3>4. (l * r + k * W) % W = (l * r) % W
        <4>1. l * r \in Int
          BY <3>3
        <4> QED BY <2>1, <3>3, <4>1, Shift, Zenon
      <3> QED BY <3>1, <3>3, <3>4
    <2>4. (l * r) % W \in Registers(WLEN)
      <3> HIDE DEF W
      <3>1. (l * r) % W \in 0 .. W - 1
        BY <2>1, <2>3, DivModNat
      <3> QED BY <3>1 DEF Registers, W
    <2>5. /\ \A op \in {"Mul", "Div", "Divu", "Rem", "Remu"} : Word1(op) \in Registers(WLEN)
          /\ IsSignedDivision(x, y, BitCast(Word1("Div"), WLEN), BitCast(Word1("Rem"), WLEN), WLEN)
          /\ IsUnsignedDivision(l, r, Word1("Divu"), Word1("Remu"), WLEN)
          /\ Word1("Mul") = (l * r) % W
      BY <2>1, <2>2, <2>4, SignedDivision, UnsignedDivision
    <2>6. \A op \in {"Mul", "Div", "Divu", "Rem", "Remu"} :
             MulDivWordResult(op, u, v) = sign_extend_word(Word1(op))
      BY DEF MulDivWordResult, l, r
    <2> HIDE DEF Word1, W, x, y
    <2>7. \A op \in {"Mul", "Div", "Divu", "Rem", "Remu"} :
             /\ BitCast(MulDivWordResult(op, u, v), XLEN) = BitCast(Word1(op), WLEN)
             /\ BitCast(MulDivWordResult(op, u, v), XLEN) % 2^WLEN = Word1(op)
      BY <2>5, <2>6, SignExtendWord
    <2> QED BY <2>3, <2>5, <2>7 DEF MulDivWordAgrees, W, l, r, x, y
  <1> QED BY <1>1, OperandsStay, PTL

-----------------------------------------------------------------------------
\* A word of n bits is the only one with its number: what has the number of
\* Bin(x, n) is Bin(x, n).
LEMMA BinUnique ==
    ASSUME NEW x \in Int, NEW n \in {XLEN, WLEN}, NEW w \in SUBSET Low(n),
           LowValue(w)[n] = x % Power[n]
    PROVE  w = Bin(x, n)
  <1> DEFINE y == x % Power[n]
             z == Bin(x, n)
  <1>1. n \in Nat \ {0} /\ 2^n = Power[n] /\ Power[n] \in Nat \ {0}
        /\ \A i \in 0 .. n - 1 : 2^i = Power[i]
    <2>1. n \in 0 .. XLEN + SHBITS + WSHBITS /\ n \in Nat \ {0}
          /\ XLEN + SHBITS + WSHBITS \in Nat
      BY PowerIs, WidthAssumption
    <2>2. \A i \in 0 .. n - 1 : i \in 0 .. XLEN + SHBITS + WSHBITS
      BY <2>1
    <2> QED  BY <2>1, <2>2, PowerIs, PowerFacts
  <1>2. y \in Nat /\ y % Power[n] = y
    <2> DEFINE p == Power[n]
    <2>1. p \in Nat \ {0}
      BY <1>1
    <2> HIDE DEF p
    <2>2. x % p \in 0 .. p - 1
      BY <2>1, DivMod
    <2> DEFINE r == x % p
    <2>3. r \in 0 .. p - 1
      BY <2>2
    <2> HIDE DEF r
    <2>4. (0 * p + r) % p = r /\ 0 * p + r = r /\ r \in Nat
      BY <2>1, <2>3, DivUnique
    <2> QED  BY <2>4 DEF p, r
  <1>3. \A i \in 0 .. n - 1 : i \in z <=> (y \div Power[i]) % 2 = 1
    BY <1>1 DEF Bin, Low
  <1>4. z \subseteq Low(n)
    BY DEF Bin
  <1> HIDE DEF y, z
  <1>5. LowValue(z)[n] = y
    BY <1>1, <1>2, <1>3, NumberOfBits
  <1>6. \A i \in 0 .. n - 1 : i \in w <=> i \in z
    BY <1>1, <1>5, BitsDetermined DEF y
  <1> QED  BY <1>4, <1>6 DEF Low, z

\* What Unsigned and Signed read from a word that has n bits.
LEMMA ReadWord ==
    ASSUME NEW n \in {XLEN, WLEN}, NEW w \in SUBSET Low(n)
    PROVE  /\ w \in Word
           /\ Unsigned(w) = LowValue(w)[n]
           /\ Signed(w, n) = SignedLow(w, n)
           /\ LowValue(w)[n] \in Nat /\ LowValue(w)[n] < Power[n]
           /\ SignedLow(w, n) \in Int
  <1>1. n \in Nat \ {0} /\ XLEN \in Nat /\ n <= XLEN /\ 2^n = Power[n]
    <2>1. n \in 0 .. XLEN + SHBITS + WSHBITS
      BY PowerIs
    <2> QED  BY <2>1, PowerIs, WidthAssumption
  <1>2. w \in Word
    BY <1>1 DEF Low, Word, Bits
  <1>3. LowValue(w)[XLEN] = LowValue(w)[n]
    <2>1. \A i \in n .. XLEN - 1 : i \notin w
      BY <1>1 DEF Low
    <2> QED  BY <1>1, <2>1, ZerosAbove
  <1>4. Unsigned(w) = LowValue(w)[n]
    BY <1>2, <1>3 DEF Unsigned, Number
  <1>5. Signed(w, n) = SignedLow(w, n)
    BY <1>1, <1>4 DEF Signed, SignedLow
  <1> QED  BY <1>1, <1>2, <1>4, <1>5, SignedRange, LowValueFacts

\* Addition and subtraction of n-bit numbers, by the operators for registers.
LEMMA SumsAgree ==
    ASSUME NEW n \in {XLEN, WLEN}, NEW x \in SUBSET Low(n), NEW y \in SUBSET Low(n)
    PROVE  /\ Plus(x, y) \cap Low(n) = Reference("Add", x, y, n)
           /\ Minus(x, y) \cap Low(n) = Reference("Sub", x, y, n)
  <1>1. n \in 0 .. XLEN /\ n \in Nat
    BY WidthAssumption
  <1>2. /\ x \in Word /\ Unsigned(x) = LowValue(x)[n] /\ LowValue(x)[n] \in Nat
        /\ y \in Word /\ Unsigned(y) = LowValue(y)[n] /\ LowValue(y)[n] \in Nat
    BY ReadWord
  <1>3. \A w : LowValue(w \cap Low(n))[n] = LowValue(w)[n]
    <2> SUFFICES ASSUME NEW w PROVE LowValue(w \cap Low(n))[n] = LowValue(w)[n]
      OBVIOUS
    <2> DEFINE z == w \cap Low(n)
    <2>1. \A i \in 0 .. n - 1 : i \in z <=> i \in w
      BY DEF Low
    <2> HIDE DEF z
    <2>2. LowValue(z)[n] = LowValue(w)[n]
      BY <1>1, <2>1, SameLow
    <2> QED  BY <2>2 DEF z
  <1>4. LowValue(Plus(x, y) \cap Low(n))[n] = (Unsigned(x) + Unsigned(y)) % Power[n]
    BY <1>1, <1>2, <1>3, LowSum
  <1>5. LowValue(Minus(x, y) \cap Low(n))[n] = (Unsigned(x) - Unsigned(y)) % Power[n]
    BY <1>1, <1>2, <1>3, LowDifference
  <1>6. Plus(x, y) \cap Low(n) = Bin(Unsigned(x) + Unsigned(y), n)
    <2> DEFINE s == Unsigned(x) + Unsigned(y)
               w == Plus(x, y) \cap Low(n)
    <2>1. s \in Int /\ w \in SUBSET Low(n) /\ LowValue(w)[n] = s % Power[n]
      BY <1>2, <1>4
    <2> HIDE DEF s, w
    <2>2. w = Bin(s, n)
      BY <2>1, BinUnique
    <2> QED  BY <2>2 DEF s, w
  <1>7. Minus(x, y) \cap Low(n) = Bin(Unsigned(x) - Unsigned(y), n)
    <2> DEFINE s == Unsigned(x) - Unsigned(y)
               w == Minus(x, y) \cap Low(n)
    <2>1. s \in Int /\ w \in SUBSET Low(n) /\ LowValue(w)[n] = s % Power[n]
      BY <1>2, <1>5
    <2> HIDE DEF s, w
    <2>2. w = Bin(s, n)
      BY <2>1, BinUnique
    <2> QED  BY <2>2 DEF s, w
  <1> QED  BY <1>6, <1>7 DEF Reference

\* Shifts of n-bit numbers by the low bits of a shift amount.
LEMMA ShiftsAgree ==
    ASSUME NEW n \in {XLEN, WLEN}, NEW x \in SUBSET Low(n), NEW y \in SUBSET Low(n),
           NEW k \in 0 .. n - 1, Unsigned(y) % n = k
    PROVE  /\ Sll(x, k) \cap Low(n) = Reference("Sll", x, y, n)
           /\ Srl(x, k) = Reference("Srl", x, y, n)
           /\ SraIn(x, n, k) = Reference("Sra", x, y, n)
  <1> DEFINE s == Power[k]
  <1>1. /\ n \in 1 .. XLEN /\ n \in 0 .. XLEN /\ n \in Nat /\ k \in Nat /\ k \in 0 .. n
        /\ k \in 0 .. XLEN + SHBITS + WSHBITS
    BY WidthAssumption, PowerIs
  <1>2. 2^(Unsigned(y) % n) = s /\ s \in Nat \ {0}
    BY <1>1, PowerIs, PowerFacts
  <1>3. /\ x \in Word /\ Unsigned(x) = LowValue(x)[n] /\ Signed(x, n) = SignedLow(x, n)
        /\ LowValue(x)[n] \in Nat /\ LowValue(x)[n] < Power[n] /\ SignedLow(x, n) \in Int
        /\ x \subseteq Low(n) /\ Power[n] \in Nat \ {0}
    BY <1>1, ReadWord, PowerFacts
  <1> HIDE DEF s
  <1>4. Sll(x, k) \cap Low(n) = Bin(Unsigned(x) * s, n)
    <2> DEFINE t == Unsigned(x) * s
               w == Sll(x, k)
               z == Sll(x, k) \cap Low(n)
    <2>1. \A i \in 0 .. n - 1 : i \in z <=> i \in w
      BY DEF Low
    <2>2. t \in Int
      BY <1>2, <1>3, SMT
    <2>3. LowValue(w)[n] = t % Power[n]
      BY <1>1, <1>3, LowLeft DEF s
    <2>4. z \in SUBSET Low(n)
      OBVIOUS
    <2> HIDE DEF t, w, z
    <2>5. LowValue(z)[n] = LowValue(w)[n]
      BY <1>1, <2>1, SameLow
    <2>6. z = Bin(t, n)
      BY <2>2, <2>3, <2>4, <2>5, BinUnique
    <2> QED  BY <2>6 DEF t, z
  <1>5. Srl(x, k) = Bin(Unsigned(x) \div s, n)
    <2> DEFINE t == Unsigned(x) \div s
               w == Srl(x, k)
    <2>1. LowValue(w)[n] = t
      BY <1>1, <1>3, LowRight DEF s
    <2>2. w \in SUBSET Low(n)
      <3>1. \A i \in Nat : i + k < n => i < n
        BY <1>1
      <3>2. \A i \in Bits : i \in Nat
        BY DEF Bits
      <3> QED  BY <1>1, <1>3, <3>1, <3>2 DEF Srl, Low
    <2> HIDE DEF t, w
    <2>3. t \in Nat /\ t < Power[n]
      BY <1>1, <2>1, LowValueFacts
    <2>4. t % Power[n] = t
      <3> DEFINE p == Power[n]
      <3>1. p \in Nat \ {0} /\ t \in 0 .. p - 1
        BY <1>3, <2>3
      <3> HIDE DEF p
      <3>2. (0 * p + t) % p = t /\ 0 * p + t = t
        BY <3>1, DivUnique
      <3> QED  BY <3>2 DEF p
    <2>5. w = Bin(t, n)
      BY <2>1, <2>2, <2>3, <2>4, BinUnique
    <2> QED  BY <2>5 DEF t, w
  <1>6. SraIn(x, n, k) = Bin(Signed(x, n) \div s, n)
    <2> DEFINE t == Signed(x, n) \div s
               w == SraIn(x, n, k)
    <2>1. LowValue(w)[n] = t % Power[n]
      BY <1>1, <1>3, LowArithmeticRight DEF s
    <2>2. w \in SUBSET Low(n)
      BY SraInType
    <2>3. t \in Int
      BY <1>2, <1>3, DivMod
    <2> HIDE DEF t, w
    <2>4. w = Bin(t, n)
      BY <2>1, <2>2, <2>3, BinUnique
    <2> QED  BY <2>4 DEF t, w
  <1>7. /\ Reference("Sll", x, y, n) = Bin(Unsigned(x) * 2^(Unsigned(y) % n), n)
        /\ Reference("Srl", x, y, n) = Bin(Unsigned(x) \div 2^(Unsigned(y) % n), n)
        /\ Reference("Sra", x, y, n) = Bin(Signed(x, n) \div 2^(Unsigned(y) % n), n)
    BY DEF Reference
  <1> QED  BY <1>2, <1>4, <1>5, <1>6, <1>7

\* The sign extension of a word is the register with the word's number.
LEMMA SextIsSigned ==
    ASSUME NEW w
    PROVE  Sext(w, WLEN) = Bin(Signed(w \cap Low(WLEN), WLEN), XLEN)
  <1> DEFINE z == w \cap Low(WLEN)
             e == Sext(z, WLEN)
  <1>1. Sext(w, WLEN) = Sext(z, WLEN)
    BY WidthAssumption DEF Sext, Low
  <1>2. z \in SUBSET Low(WLEN)
    OBVIOUS
  <1>3. WLEN \in 1 .. XLEN /\ WLEN \in Nat /\ WLEN <= XLEN
    BY WidthAssumption
  <1> HIDE DEF z
  <1>4. e \in SUBSET Low(XLEN)
    BY <1>3, SextType DEF Low, Word, Bits
  <1>5. LowValue(e)[XLEN] = SignedLow(z, WLEN) % Power[XLEN]
    BY <1>3, SextValue DEF Value, Size
  <1>6. Signed(z, WLEN) = SignedLow(z, WLEN) /\ SignedLow(z, WLEN) \in Int
    BY <1>2, ReadWord
  <1> HIDE DEF e
  <1>7. e = Bin(Signed(z, WLEN), XLEN)
    BY <1>4, <1>5, <1>6, BinUnique
  <1> QED  BY <1>1, <1>7 DEF e, z

-----------------------------------------------------------------------------
\* What the shift amount masks select.  A register shift is masked with the
\* logarithm of the register's width, so it is the operand modulo that width,
\* and so it is for words shifted by an immediate.  The operand of an OP-32
\* shift is masked with the register's logarithm, one bit too many.
LEMMA ShiftAmounts ==
    /\ \A w \in Word : /\ Amount(w, SHBITS) = Unsigned(w) % XLEN
                       /\ Amount(w, SHBITS) \in 0 .. XLEN - 1
    /\ \A w : LET y == w \cap Low(WLEN) IN
              /\ Amount(w, WSHBITS) = Unsigned(y) % WLEN
              /\ Amount(w, WSHBITS) \in 0 .. WLEN - 1
              /\ Amount(y, SHBITS) % WLEN = Unsigned(y) % WLEN
              /\ Amount(y, SHBITS) < WLEN => Amount(y, SHBITS) % WLEN = Amount(y, SHBITS)
              /\ Amount(y, SHBITS) \in Nat
  <1>1. /\ XLEN = Power[SHBITS] /\ WLEN = Power[WSHBITS]
        /\ SHBITS \in Nat /\ WSHBITS \in Nat /\ XLEN \in Nat \ {0} /\ WLEN \in Nat \ {0}
        /\ WLEN < XLEN
    BY PowerIs, WidthAssumption
  <1>2. SHBITS \in 0 .. XLEN /\ WSHBITS \in 0 .. WLEN /\ WSHBITS \in 0 .. SHBITS
    <2>1. SHBITS < XLEN /\ WSHBITS < WLEN
      BY <1>1, PowerGrows
    <2>2. SHBITS < WSHBITS => XLEN < WLEN
      BY <1>1, PowerGrows
    <2> QED  BY <1>1, <2>1, <2>2
  <1>3. \A w : \A k \in Nat : LowValue(w)[k] \in Nat /\ LowValue(w)[k] < Power[k]
    BY LowValueFacts
  <1>4. ASSUME NEW w \in Word
        PROVE  /\ Amount(w, SHBITS) = Unsigned(w) % XLEN
               /\ Amount(w, SHBITS) \in 0 .. XLEN - 1
    <2>1. w \in SUBSET Low(XLEN)
      BY DEF Word, Bits, Low
    <2>2. Unsigned(w) = LowValue(w)[XLEN]
      BY <2>1, ReadWord
    <2>3. LowValue(w)[XLEN] % Power[SHBITS] = LowValue(w)[SHBITS]
      BY <1>1, <1>2, LowBitsRemain
    <2>4. LowValue(w)[SHBITS] \in 0 .. XLEN - 1
      BY <1>1, <1>3
    <2> QED  BY <1>1, <2>2, <2>3, <2>4 DEF Amount
  <1>5. ASSUME NEW w
        PROVE  LET y == w \cap Low(WLEN) IN
               /\ Amount(w, WSHBITS) = Unsigned(y) % WLEN
               /\ Amount(w, WSHBITS) \in 0 .. WLEN - 1
               /\ Amount(y, SHBITS) % WLEN = Unsigned(y) % WLEN
               /\ Amount(y, SHBITS) < WLEN => Amount(y, SHBITS) % WLEN = Amount(y, SHBITS)
               /\ Amount(y, SHBITS) \in Nat
    <2> DEFINE y == w \cap Low(WLEN)
               t == LowValue(y)[SHBITS]
    <2>1. y \in SUBSET Low(WLEN)
      OBVIOUS
    <2>2. \A i \in 0 .. WSHBITS - 1 : i \in y <=> i \in w
      BY <1>1, <1>2 DEF Low
    <2> HIDE DEF y
    <2>3. Unsigned(y) = LowValue(y)[WLEN]
      BY <2>1, ReadWord
    <2>4. LowValue(y)[WSHBITS] = LowValue(w)[WSHBITS]
      BY <1>1, <2>2, SameLow
    <2>5. LowValue(y)[WLEN] % Power[WSHBITS] = LowValue(y)[WSHBITS]
      BY <1>1, <1>2, LowBitsRemain
    <2>6. LowValue(y)[SHBITS] % Power[WSHBITS] = LowValue(y)[WSHBITS]
      BY <1>1, <1>2, LowBitsRemain
    <2>7. LowValue(w)[WSHBITS] \in 0 .. WLEN - 1 /\ t \in Nat
      BY <1>1, <1>3
    <2>8. t < WLEN => t % WLEN = t
      <3> HIDE DEF t
      <3> SUFFICES ASSUME t < WLEN PROVE t % WLEN = t
        OBVIOUS
      <3>1. t \in 0 .. WLEN - 1 /\ WLEN \in Nat \ {0}
        BY <1>1, <2>7
      <3>2. (0 * WLEN + t) % WLEN = t /\ 0 * WLEN + t = t
        BY <3>1, DivUnique
      <3> QED  BY <3>2
    <2> HIDE DEF t
    <2>9. /\ Amount(w, WSHBITS) = LowValue(w)[WSHBITS]
          /\ Amount(y, SHBITS) = t
          /\ Unsigned(y) % WLEN = LowValue(w)[WSHBITS]
          /\ t % WLEN = LowValue(w)[WSHBITS]
      BY <1>1, <2>3, <2>4, <2>5, <2>6 DEF Amount, t
    <2> QED  BY <2>7, <2>8, <2>9 DEF y
  <1> QED  BY <1>4, <1>5

\* The operands as words.
LEMMA OperandWords == Operands => a \in Word /\ b \in Word
  BY DEF Operands, a, b, WordOf, Bin, Word, Bits, Low

\* OP and OP-IMM return what the manual says, for every width of the machine
\* and every pair of operands: carries and borrows that reach the sign bit,
\* comparisons across zero, and shifts whose amount has bits to be ignored.
THEOREM OpCorrect == Spec => []OpAgrees
  <1>1. ASSUME NEW x \in Word, NEW y \in Word, NEW type \in OpTypes
        PROVE  OpResult(type, x, y) = Reference(type, x, y, XLEN)
    <2> DEFINE k == Amount(y, SHBITS)
    <2>1. x \in SUBSET Low(XLEN) /\ y \in SUBSET Low(XLEN)
      BY DEF Word, Bits, Low
    <2>2. \A w \in Word : w \cap Low(XLEN) = w
      BY DEF Word, Bits, Low
    <2>3. k \in 0 .. XLEN - 1 /\ Unsigned(y) % XLEN = k
      BY ShiftAmounts
    <2>4. CASE type \in {"Add", "Sub"}
      <3>1. Plus(x, y) \in Word /\ Minus(x, y) \in Word
        BY PlusType, MinusType
      <3>2. Plus(x, y) = Reference("Add", x, y, XLEN) /\ Minus(x, y) = Reference("Sub", x, y, XLEN)
        BY <2>1, <2>2, <3>1, SumsAgree
      <3> QED  BY <2>4, <3>2 DEF OpResult
    <2>5. CASE type \in {"Slt", "Sltu"}
      <3>1. /\ Lt(x, y) <=> Signed(x, XLEN) < Signed(y, XLEN)
            /\ Ltu(x, y) <=> Unsigned(x) < Unsigned(y)
        <4>1. /\ Unsigned(x) = Value(x) /\ Unsigned(y) = Value(y)
              /\ Signed(x, XLEN) = SignedLow(x, XLEN) /\ Signed(y, XLEN) = SignedLow(y, XLEN)
          BY <2>1, ReadWord DEF Value
        <4> QED  BY <4>1, SignedOrder, WordArithmetic
      <3>2. {0} = Bin(1, XLEN) /\ {} = Bin(0, XLEN)
        <4>1. /\ {} \in SUBSET Low(XLEN) /\ {0} \in SUBSET Low(XLEN)
              /\ LowValue({})[XLEN] = 0 /\ LowValue({0})[XLEN] = 1
          BY SmallWords DEF Value, Word, Bits, Low
        <4>2. Power[XLEN] \in Nat /\ 1 < Power[XLEN] /\ 1 % Power[XLEN] = 1 /\ 0 % Power[XLEN] = 0
          <5> DEFINE p == Power[XLEN]
          <5>1. p \in Nat \ {0} /\ 1 < p
            <6>1. XLEN \in Nat \ {0} /\ 1 <= XLEN
              BY PowerIs
            <6>2. XLEN < Power[XLEN] /\ Power[XLEN] \in Nat \ {0}
              BY <6>1, PowerGrows, PowerFacts
            <6> QED  BY <6>1, <6>2
          <5> HIDE DEF p
          <5>2. 0 \in 0 .. p - 1 /\ 1 \in 0 .. p - 1
            BY <5>1
          <5>3. (0 * p + 1) % p = 1 /\ (0 * p + 0) % p = 0
            BY <5>1, <5>2, DivUnique
          <5> QED  BY <5>1, <5>3 DEF p
        <4>3. {0} = Bin(1, XLEN) /\ {} = Bin(0, XLEN)
          BY <4>1, <4>2, BinUnique
        <4> QED  BY <4>3
      <3>3. /\ Reference("Slt", x, y, XLEN)
                  = Bin(IF Signed(x, XLEN) < Signed(y, XLEN) THEN 1 ELSE 0, XLEN)
            /\ Reference("Sltu", x, y, XLEN)
                  = Bin(IF Unsigned(x) < Unsigned(y) THEN 1 ELSE 0, XLEN)
            /\ OpResult("Slt", x, y) = BoolWord(Lt(x, y))
            /\ OpResult("Sltu", x, y) = BoolWord(Ltu(x, y))
        BY DEF Reference, OpResult
      <3>4. /\ Lt(x, y) => BoolWord(Lt(x, y)) = {0}
            /\ ~Lt(x, y) => BoolWord(Lt(x, y)) = {}
            /\ Ltu(x, y) => BoolWord(Ltu(x, y)) = {0}
            /\ ~Ltu(x, y) => BoolWord(Ltu(x, y)) = {}
        BY Zenon DEF BoolWord
      <3>5. Reference("Slt", x, y, XLEN) = OpResult("Slt", x, y)
        BY <3>1, <3>2, <3>3, <3>4
      <3>6. Reference("Sltu", x, y, XLEN) = OpResult("Sltu", x, y)
        BY <3>1, <3>2, <3>3, <3>4
      <3> QED  BY <2>5, <3>5, <3>6
    <2>6. CASE type \in {"Xor", "Or", "And"}
      <3>1. /\ Xor(x, y) = {i \in Low(XLEN) : (i \in x) # (i \in y)}
            /\ x \cup y = {i \in Low(XLEN) : i \in x \/ i \in y}
            /\ x \cap y = {i \in Low(XLEN) : i \in x /\ i \in y}
        BY <2>1 DEF Xor
      <3> QED  BY <2>6, <3>1 DEF OpResult, Reference
    <2>7. CASE type \in {"Sll", "Srl", "Sra"}
      <3>1. Sll(x, k) \in Word
        BY ShiftType
      <3>2. /\ Sll(x, k) \cap Low(XLEN) = Reference("Sll", x, y, XLEN)
            /\ Srl(x, k) = Reference("Srl", x, y, XLEN)
            /\ SraIn(x, XLEN, k) = Reference("Sra", x, y, XLEN)
        <4> HIDE DEF k
        <4> QED  BY <2>1, <2>3, ShiftsAgree
      <3>3. Sll(x, k) \cap Low(XLEN) = Sll(x, k)
        BY <2>2, <3>1
      <3> QED  BY <2>7, <3>2, <3>3 DEF OpResult
    <2> QED  BY <2>4, <2>5, <2>6, <2>7 DEF OpTypes, OpImmTypes
  <1>2. Operands => OpAgrees
    BY <1>1, OperandWords DEF OpAgrees
  <1> QED  BY <1>2, OperandsStay, PTL

\* A shift of the n = WLEN low bits is what Shift32 computes.
LEMMA Shift32Agrees ==
    ASSUME NEW x \in SUBSET Low(WLEN), NEW y \in SUBSET Low(WLEN),
           NEW k \in 0 .. WLEN - 1, Unsigned(y) % WLEN = k,
           NEW type \in {"Sll", "Srl", "Sra"}
    PROVE  Sext(Shift32(type, x, k), WLEN) = Bin(Signed(Reference(type, x, y, WLEN), WLEN), XLEN)
  <1>1. Shift32(type, x, k) = Reference(type, x, y, WLEN)
    <2>1. /\ Sll(x, k) \cap Low(WLEN) = Reference("Sll", x, y, WLEN)
          /\ Srl(x, k) = Reference("Srl", x, y, WLEN)
          /\ SraIn(x, WLEN, k) = Reference("Sra", x, y, WLEN)
      BY ShiftsAgree
    <2>2. /\ Shift32("Sll", x, k) = Sll(x, k) \cap Low(WLEN)
          /\ Shift32("Srl", x, k) = Srl(x, k)
          /\ Shift32("Sra", x, k) = SraIn(x, WLEN, k)
      BY DEF Shift32
    <2> QED  BY <2>1, <2>2
  <1>2. Reference(type, x, y, WLEN) \cap Low(WLEN) = Reference(type, x, y, WLEN)
    BY DEF Reference, Bin
  <1> QED  BY <1>1, <1>2, SextIsSigned

\* So do OP-IMM-32, which look at the low halves only.
THEOREM OpImm32Correct == Spec => []OpImm32Agrees
  <1>1. ASSUME NEW x \in Word, NEW y \in Word, NEW type \in OpImm32Types
        PROVE  OpImm32Result(type, x, y) = ReferenceW(type, x, y)
    <2> DEFINE l == x \cap Low(WLEN)
               r == y \cap Low(WLEN)
    <2>1. l \in SUBSET Low(WLEN) /\ r \in SUBSET Low(WLEN)
      OBVIOUS
    <2>2. CASE type = "Add"
      <3> HIDE DEF l, r
      <3>1. Plus(l, r) \cap Low(WLEN) = Reference("Add", l, r, WLEN)
        BY <2>1, SumsAgree
      <3>2. Sext(Plus(l, r), WLEN) = Bin(Signed(Plus(l, r) \cap Low(WLEN), WLEN), XLEN)
        BY SextIsSigned
      <3> QED  BY <2>2, <3>1, <3>2 DEF OpImm32Result, ReferenceW, l, r
    <2>3. CASE type \in {"Sll", "Srl", "Sra"}
      <3> DEFINE k == Amount(y, WSHBITS)
      <3>1. k \in 0 .. WLEN - 1 /\ Unsigned(r) % WLEN = k
        BY ShiftAmounts
      <3>2. OpImm32Result(type, x, y) = Sext(Shift32(type, l, k), WLEN)
        BY <2>3 DEF OpImm32Result
      <3>3. ReferenceW(type, x, y) = Bin(Signed(Reference(type, l, r, WLEN), WLEN), XLEN)
        BY DEF ReferenceW
      <3> HIDE DEF l, r, k
      <3> QED  BY <2>1, <2>3, <3>1, <3>2, <3>3, Shift32Agrees
    <2> QED  BY <2>2, <2>3 DEF OpImm32Types
  <1>2. Operands => OpImm32Agrees
    BY <1>1, OperandWords DEF OpImm32Agrees
  <1> QED  BY <1>2, OperandsStay, PTL

\* The amounts by which an OP-32 shift may move a word.
LEMMA Op32Shifts ==
    ASSUME NEW type, type \in {"Sll", "Srl", "Sra"}, NEW x, NEW y
    PROVE  LET l == x \cap Low(WLEN)
               shamt == Amount(y \cap Low(WLEN), SHBITS)
               amounts == IF shamt < WLEN THEN {shamt} ELSE {shamt % WLEN, shamt}
           IN  Op32Results(type, x, y) = {Sext(Shift32(type, l, n), WLEN) : n \in amounts}
  <1>1. type # "Add" /\ type # "Sub"
    OBVIOUS
  <1> QED  BY <1>1, Zenon DEF Op32Results

\* And OP-32: the manual's result is always among those the compiler may
\* produce, and the only one unless a shift amount reaches the word's width.
THEOREM Op32Correct == Spec => []Op32Agrees
  <1>1. ASSUME NEW x \in Word, NEW y \in Word, NEW type \in Op32Types
        PROVE  /\ ReferenceW(type, x, y) \in Op32Results(type, x, y)
               /\ \/ Op32Results(type, x, y) = {ReferenceW(type, x, y)}
                  \/ type \in {"Sll", "Srl", "Sra"}
                       /\ Amount(y \cap Low(WLEN), SHBITS) >= WLEN
    <2> DEFINE l == x \cap Low(WLEN)
               r == y \cap Low(WLEN)
    <2>1. l \in SUBSET Low(WLEN) /\ r \in SUBSET Low(WLEN)
      OBVIOUS
    <2>2. ReferenceW(type, x, y) = Bin(Signed(Reference(type, l, r, WLEN), WLEN), XLEN)
      BY DEF ReferenceW
    <2>3. CASE type \in {"Add", "Sub"}
      <3>1. /\ Op32Results("Add", x, y) = {Sext(Plus(l, r), WLEN)}
            /\ Op32Results("Sub", x, y) = {Sext(Minus(l, r), WLEN)}
        BY DEF Op32Results
      <3> HIDE DEF l, r
      <3>2. /\ Plus(l, r) \cap Low(WLEN) = Reference("Add", l, r, WLEN)
            /\ Minus(l, r) \cap Low(WLEN) = Reference("Sub", l, r, WLEN)
        BY <2>1, SumsAgree
      <3>3. /\ Sext(Plus(l, r), WLEN) = Bin(Signed(Plus(l, r) \cap Low(WLEN), WLEN), XLEN)
            /\ Sext(Minus(l, r), WLEN) = Bin(Signed(Minus(l, r) \cap Low(WLEN), WLEN), XLEN)
        BY SextIsSigned
      <3> QED  BY <2>2, <2>3, <3>1, <3>2, <3>3
    <2>4. CASE type \in {"Sll", "Srl", "Sra"}
      <3> DEFINE shamt == Amount(r, SHBITS)
                 k == shamt % WLEN
                 amounts == IF shamt < WLEN THEN {shamt} ELSE {shamt % WLEN, shamt}
      <3>1. /\ k = Unsigned(r) % WLEN /\ shamt \in Nat
            /\ shamt < WLEN => k = shamt
            /\ k \in 0 .. WLEN - 1
        BY ShiftAmounts
      <3>2. Op32Results(type, x, y) = {Sext(Shift32(type, l, n), WLEN) : n \in amounts}
        BY <2>4, Op32Shifts
      <3> HIDE DEF l, r, shamt
      <3>3. ReferenceW(type, x, y) = Sext(Shift32(type, l, k), WLEN)
        BY <2>1, <2>2, <2>4, <3>1, Shift32Agrees
      <3>4. k \in amounts /\ (amounts = {k} \/ shamt >= WLEN)
        BY <3>1, WidthAssumption
      <3> HIDE DEF amounts
      <3>5. amounts = {k} => Op32Results(type, x, y) = {ReferenceW(type, x, y)}
        BY <3>2, <3>3
      <3>6. ReferenceW(type, x, y) \in Op32Results(type, x, y)
        BY <3>2, <3>3, <3>4
      <3> QED  BY <2>4, <3>4, <3>5, <3>6 DEF shamt, r
    <2> QED  BY <2>3, <2>4 DEF Op32Types, OpImm32Types
  <1>2. Operands => Op32Agrees
    BY <1>1, OperandWords DEF Op32Agrees
  <1> QED  BY <1>2, OperandsStay, PTL

\* The branch conditions are equality and the two orders, and each has its
\* complement, for every pair of registers.
THEOREM BranchCorrect == Spec => []BranchAgrees
  <1>1. ASSUME NEW x \in Word, NEW y \in Word
        PROVE  /\ x = y <=> Unsigned(x) = Unsigned(y)
               /\ Lt(x, y) <=> Signed(x, XLEN) < Signed(y, XLEN)
               /\ Ltu(x, y) <=> Unsigned(x) < Unsigned(y)
    <2>1. x \in SUBSET Low(XLEN) /\ y \in SUBSET Low(XLEN)
      BY DEF Word, Bits, Low
    <2>2. /\ Unsigned(x) = Value(x) /\ Unsigned(y) = Value(y)
          /\ Signed(x, XLEN) = SignedLow(x, XLEN) /\ Signed(y, XLEN) = SignedLow(y, XLEN)
      BY <2>1, ReadWord DEF Value
    <2> QED  BY <2>2, SignedOrder, WordArithmetic, ValueFacts
  <1>2. \A x, y : /\ ShouldBranch("Eq", x, y) <=> x = y
                  /\ ShouldBranch("Ne", x, y) <=> ~ShouldBranch("Eq", x, y)
                  /\ ShouldBranch("Lt", x, y) <=> Lt(x, y)
                  /\ ShouldBranch("Ge", x, y) <=> ~ShouldBranch("Lt", x, y)
                  /\ ShouldBranch("Ltu", x, y) <=> Ltu(x, y)
                  /\ ShouldBranch("Geu", x, y) <=> ~ShouldBranch("Ltu", x, y)
    BY DEF ShouldBranch
  <1>3. Operands => BranchAgrees
    <2> SUFFICES ASSUME Operands PROVE BranchAgrees
      OBVIOUS
    <2>1. a \in Word /\ b \in Word
      BY OperandWords
    <2>2. /\ ShouldBranch("Eq", a, b) <=> Unsigned(a) = Unsigned(b)
          /\ ShouldBranch("Lt", a, b) <=> Signed(a, XLEN) < Signed(b, XLEN)
          /\ ShouldBranch("Ltu", a, b) <=> Unsigned(a) < Unsigned(b)
      BY <1>1, <1>2, <2>1
    <2>3. \A t \in {<<"Eq", "Ne">>, <<"Lt", "Ge">>, <<"Ltu", "Geu">>} :
             ShouldBranch(t[1], a, b) <=> ~ShouldBranch(t[2], a, b)
      BY <1>2
    <2> QED  BY <2>2, <2>3 DEF BranchAgrees
  <1> QED  BY <1>3, OperandsStay, PTL
=============================================================================
