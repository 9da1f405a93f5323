-------------------------------- MODULE Fpu --------------------------------
(***************************************************************************)
(* The floating-point unit of fpu.cpp.  A format has EXPBITS exponent and  *)
(* FRACBITS fraction bits, 8 and 23 in the program; a float is the number  *)
(* 0 .. 2^(1 + EXPBITS + FRACBITS) - 1 its bits spell.  The code's literal *)
(* bit positions are written as the distances from FRACBITS and WIDE that  *)
(* they are in binary32, so that a narrow format runs the same algorithm.  *)
(* The unit is stateless: an operation maps operands and rounding mode to  *)
(* an FpResult, a value and the set of exception flags it raises.  Of      *)
(* Words it takes the widths of the integer registers and words.           *)
(***************************************************************************)
EXTENDS Words

CONSTANTS EXPBITS,    \* 8
          FRACBITS,   \* 23
          WIDE        \* top bit of the fused product's window: 62

\* The product of two significands fits the window with room for a sticky
\* bit, every magnitude that loses all its bits in a register is below one
\* half, and the integers fit the words of the unit, as they do in the program.
ASSUME FormatAssumption ==
    /\ EXPBITS \in Nat \ {0, 1} /\ FRACBITS \in Nat \ (0 .. 2)
    /\ WIDE \in Nat /\ WIDE % 2 = 0 /\ WIDE >= 2 * FRACBITS + 6
    /\ XLEN >= FRACBITS + 2 /\ XLEN <= WIDE + 2

\* The law of exponents, for those that occur: no prover knows more of it.
ASSUME PowersAssumption ==
    /\ 2^0 = 1
    /\ \A n \in 0 .. EXPBITS + FRACBITS \cup 0 .. WIDE + 2 : 2^(n + 1) = 2 * 2^n

Sign == 2^(EXPBITS + FRACBITS)
HiddenBit == 2^FRACBITS
Bias == 2^(EXPBITS - 1) - 1
MinExponent == 1 - Bias
MaxExponent == Bias
Infinity == (2^EXPBITS - 1) * HiddenBit
MaxFinite == Infinity - 1
CanonicalNan == Infinity + HiddenBit \div 2
Floats == 0 .. 2 * Sign - 1
WordBits == WIDE + 2          \* bits of the std::uint64_t it computes in

\* The exception flags, by their bit in fflags.
NX == 0
UF == 1
OF == 2
DZ == 3
NV == 4

RoundingModes == {"Rne", "Rtz", "Rdn", "Rup", "Rmm"}

Result(value, flags) == [value |-> value, flags |-> flags]
\* The exception for a rounding mode that is none of the five.
Thrown == Result(-1, {})

Signed(negative, magnitude) == IF negative THEN Sign + magnitude ELSE magnitude
MagnitudeOf(raw) == raw % Sign
IsNegative(raw) == raw >= Sign

\* The position of the highest bit set: where a loop that shifts by one until
\* a bit is in place stops.
Msb(n) == CHOOSE k \in 0 .. WordBits : 2^k <= n /\ n < 2^(k + 1)
WithSticky(n, sticky) == IF sticky /\ n % 2 = 0 THEN n + 1 ELSE n

-----------------------------------------------------------------------------
\* The UnpackedFp32 constructor; a subnormal's significand is normalized.
Unpack(raw) ==
    LET exponent == MagnitudeOf(raw) \div HiddenBit
        fraction == raw % HiddenBit
        lift == FRACBITS - Msb(fraction)
        Fields(class, e, s) ==
            [sign |-> IsNegative(raw), exponent |-> e, significand |-> s, class |-> class]
    IN  CASE exponent = 2^EXPBITS - 1 /\ fraction = 0 -> Fields("Infinity", 0, 0)
          [] exponent = 2^EXPBITS - 1 /\ fraction # 0 ->
                Fields(IF fraction >= HiddenBit \div 2 THEN "QuietNaN" ELSE "SignalingNaN",
                       0, fraction)
          [] exponent = 0 /\ fraction = 0 -> Fields("Zero", MinExponent, 0)
          [] exponent = 0 /\ fraction # 0 ->
                Fields("Subnormal", MinExponent - lift, fraction * 2^lift)
          [] OTHER -> Fields("Normal", exponent - Bias, HiddenBit + fraction)

\* Mutation of ToBits: a subnormal is packed as it was normalized.
ToBitsNormalized(u) ==
    Signed(u.sign,
        CASE u.class = "Zero"     -> 0
          [] u.class = "Infinity" -> Infinity
          [] u.class \in {"QuietNaN", "SignalingNaN"} -> Infinity + u.significand
          [] u.class = "Normal" ->
                (u.exponent + Bias) * HiddenBit + (u.significand % HiddenBit)
          [] u.class = "Subnormal" -> u.significand % HiddenBit)

\* UnpackedFp32::to_bits.  A quiet NaN keeps its payload, a signaling one
\* never becomes an infinity.
ToBits(u) ==
    LET quiet == HiddenBit \div 2
        payload == u.significand % quiet
    IN  Signed(u.sign,
            CASE u.class = "Zero"         -> 0
              [] u.class = "Infinity"     -> Infinity
              [] u.class = "QuietNaN"     -> Infinity + quiet + payload
              [] u.class = "SignalingNaN" -> Infinity + (IF payload = 0 THEN 1 ELSE payload)
              [] u.class = "Normal" ->
                    (u.exponent + Bias) * HiddenBit + (u.significand % HiddenBit)
              [] u.class = "Subnormal" ->
                    (u.significand \div 2^(MinExponent - u.exponent)) % HiddenBit)

is_nan(u) == u.class \in {"SignalingNaN", "QuietNaN"}
is_signaling_nan(u) == u.class = "SignalingNaN"
IsZero(u) == u.class = "Zero"
IsInfinity(u) == u.class = "Infinity"

-----------------------------------------------------------------------------
\* Mutation of shift_right_jam: the bits shifted out are forgotten.
shift_right(value, distance) ==
    IF distance < WordBits THEN value \div 2^distance ELSE 0

\* A right shift that keeps the lowest bit set when it drops a one.
shift_right_jam(value, distance) ==
    IF distance < WordBits
    THEN WithSticky(value \div 2^distance, value % 2^distance # 0)
    ELSE IF value # 0 THEN 1 ELSE 0

\* Whether to round away from zero: round_bits are the three bits below
\* the significand, in eighths.
should_round_up(rm, negative, significand, round_bits) ==
    CASE rm = "Rne" -> round_bits > 4 \/ (round_bits = 4 /\ significand % 2 = 1)
      [] rm = "Rtz" -> FALSE
      [] rm = "Rdn" -> negative /\ round_bits # 0
      [] rm = "Rup" -> ~negative /\ round_bits # 0
      [] rm = "Rmm" -> round_bits >= 4

Overflow(negative, rm) ==
    LET to_infinity == rm \in {"Rne", "Rmm"} \/ rm = (IF negative THEN "Rdn" ELSE "Rup")
    IN  Result(Signed(negative, IF to_infinity THEN Infinity ELSE MaxFinite), {OF, NX})

(***************************************************************************)
(* round_and_pack: the number significand * 2^(exponent - FRACBITS - 3),   *)
(* its lowest bit sticky, as a float.  The significand is brought to its   *)
(* place by shifts, further right below the smallest normal exponent, and  *)
(* its three last bits decide the rounding.  A carry out of the rounding   *)
(* raises the exponent, out of the format or into the normal numbers.  A   *)
(* result of zero packs as the subnormal it is.                            *)
(***************************************************************************)
round_and_pack(negative, exponent, significand, rm) ==
    LET lead == Msb(significand) - (FRACBITS + 3)
        placed == IF lead > 0 THEN shift_right_jam(significand, lead)
                  ELSE significand * 2^(-lead)
        tiny == MinExponent - (exponent + lead)
        shifted == IF tiny > 0 THEN shift_right_jam(placed, tiny) ELSE placed
        round_bits == shifted % 8
        kept == shifted \div 8
        up == IF should_round_up(rm, negative, kept, round_bits) THEN 1 ELSE 0
        carried == kept + up >= 2 * HiddenBit
        rounded == IF carried THEN (kept + up) \div 2 ELSE kept + up
        power == (IF tiny > 0 THEN MinExponent ELSE exponent + lead)
                    + (IF carried THEN 1 ELSE 0)
        subnormal == power = MinExponent /\ rounded < HiddenBit
        raw_exponent == IF subnormal THEN 0 ELSE power + Bias
        flags == IF round_bits = 0 THEN {} ELSE IF subnormal THEN {NX, UF} ELSE {NX}
    IN  IF significand = 0 THEN Result(Signed(negative, 0), {})
        ELSE IF rm \notin RoundingModes THEN Thrown
        ELSE IF power > MaxExponent THEN Overflow(negative, rm)
        ELSE Result(Signed(negative, raw_exponent * HiddenBit + (rounded % HiddenBit)), flags)


Invalid == Result(CanonicalNan, {NV})
propagate_nan(operands) ==
    Result(CanonicalNan, IF \E u \in operands : is_signaling_nan(u) THEN {NV} ELSE {})

Exact(negative, magnitude) == Result(Signed(negative, magnitude), {})
\* The sign of a sum of zeros, or of an exact cancellation.
ZeroSign(lhs_negative, rhs_negative, rm) ==
    IF lhs_negative = rhs_negative THEN lhs_negative ELSE rm = "Rdn"

-----------------------------------------------------------------------------
\* The larger exponent, and both significands moved to it.
Align(lhs_exponent, lhs_significand, rhs_exponent, rhs_significand) ==
    LET d == lhs_exponent - rhs_exponent
    IN  IF d >= 0
        THEN [exponent |-> lhs_exponent, lhs |-> lhs_significand,
              rhs |-> shift_right_jam(rhs_significand, d)]
        ELSE [exponent |-> rhs_exponent, lhs |-> shift_right_jam(lhs_significand, -d),
              rhs |-> rhs_significand]

\* Adding aligned numbers of the given signs, not both zero.
SignedSum(negative_lhs, lhs, negative_rhs, rhs) ==
    IF negative_lhs = negative_rhs THEN [sign |-> negative_lhs, significand |-> lhs + rhs]
    ELSE IF lhs >= rhs THEN [sign |-> negative_lhs, significand |-> lhs - rhs]
    ELSE [sign |-> negative_rhs, significand |-> rhs - lhs]

\* Mutation of AddFinite: a cancellation is plus zero in every rounding mode.
AddFinitePositiveZero(lhs, rhs, rhs_sign, rm) ==
    LET aligned == Align(lhs.exponent, lhs.significand * 8, rhs.exponent, rhs.significand * 8)
        sum == SignedSum(lhs.sign, aligned.lhs, rhs_sign, aligned.rhs)
    IN  IF sum.significand = 0 THEN Exact(FALSE, 0)
        ELSE round_and_pack(sum.sign, aligned.exponent, sum.significand, rm)

\* The tail of add_or_sub: nonzero finite operands, with three more bits.
AddFinite(lhs, rhs, rhs_sign, rm) ==
    LET aligned == Align(lhs.exponent, lhs.significand * 8, rhs.exponent, rhs.significand * 8)
        sum == SignedSum(lhs.sign, aligned.lhs, rhs_sign, aligned.rhs)
    IN  IF sum.significand = 0 THEN Exact(rm = "Rdn", 0)
        ELSE round_and_pack(sum.sign, aligned.exponent, sum.significand, rm)

add_or_sub(lhs_raw, rhs_raw, subtract, rm) ==
    LET lhs == Unpack(lhs_raw)
        rhs == Unpack(rhs_raw)
        rhs_sign == rhs.sign # subtract
    IN  IF is_nan(lhs) \/ is_nan(rhs) THEN propagate_nan({lhs, rhs})
        ELSE IF IsInfinity(lhs) /\ IsInfinity(rhs) /\ lhs.sign # rhs_sign THEN Invalid
        ELSE IF IsInfinity(lhs) THEN Exact(lhs.sign, Infinity)
        ELSE IF IsInfinity(rhs) THEN Exact(rhs_sign, Infinity)
        ELSE IF IsZero(lhs) /\ IsZero(rhs) THEN Exact(ZeroSign(lhs.sign, rhs_sign, rm), 0)
        ELSE IF IsZero(lhs) THEN Exact(rhs_sign, MagnitudeOf(rhs_raw))
        ELSE IF IsZero(rhs) THEN Result(lhs_raw, {})
        ELSE AddFinite(lhs, rhs, rhs_sign, rm)

-----------------------------------------------------------------------------
\* The product of two significands, whose top bit is one of two; the
\* exponent counts from the upper one when it is set.
Product(lhs, rhs) ==
    LET p == lhs.significand * rhs.significand
        at_least_two == p >= 2^(2 * FRACBITS + 1)
    IN  [significand |-> p, at_least_two |-> at_least_two,
         exponent |-> lhs.exponent + rhs.exponent + (IF at_least_two THEN 1 ELSE 0)]

\* Mutation of MultiplyFinite: the discarded half of the product is lost.
MultiplyFiniteTruncated(lhs, rhs, sign, rm) ==
    LET p == Product(lhs, rhs)
        distance == FRACBITS - (IF p.at_least_two THEN 2 ELSE 3)
    IN  round_and_pack(sign, p.exponent, shift_right(p.significand, distance), rm)

\* The tail of multiply.
MultiplyFinite(lhs, rhs, sign, rm) ==
    LET p == Product(lhs, rhs)
        distance == FRACBITS - (IF p.at_least_two THEN 2 ELSE 3)
    IN  round_and_pack(sign, p.exponent, shift_right_jam(p.significand, distance), rm)

multiply(lhs_raw, rhs_raw, rm) ==
    LET lhs == Unpack(lhs_raw)
        rhs == Unpack(rhs_raw)
        sign == lhs.sign # rhs.sign
    IN  IF is_nan(lhs) \/ is_nan(rhs) THEN propagate_nan({lhs, rhs})
        ELSE IF (IsZero(lhs) /\ IsInfinity(rhs)) \/ (IsInfinity(lhs) /\ IsZero(rhs))
        THEN Invalid
        ELSE IF IsInfinity(lhs) \/ IsInfinity(rhs) THEN Exact(sign, Infinity)
        ELSE IF IsZero(lhs) \/ IsZero(rhs) THEN Exact(sign, 0)
        ELSE MultiplyFinite(lhs, rhs, sign, rm)

(***************************************************************************)
(* compute_fma: the exact product in the upper bits of a machine word, the *)
(* addend aligned with it, and their sum normalized and cut to the width   *)
(* round_and_pack expects.                                                 *)
(***************************************************************************)
compute_fma(lhs, rhs, addend, product_sign, addend_sign) ==
    LET p == Product(lhs, rhs)
        product == p.significand * 2^(WIDE - 2 * FRACBITS - (IF p.at_least_two THEN 1 ELSE 0))
        aligned == Align(p.exponent, product,
                         IF IsZero(addend) THEN p.exponent ELSE addend.exponent,
                         addend.significand * 2^(WIDE - FRACBITS))
        sum == SignedSum(product_sign, aligned.lhs, addend_sign, aligned.rhs)
        low == WIDE - Msb(sum.significand)
        lift == IF low > 0 THEN low ELSE 0
    IN  IF sum.significand = 0
        THEN [sign |-> FALSE, exponent |-> aligned.exponent, significand |-> 0]
        ELSE [sign |-> sum.sign, exponent |-> aligned.exponent - lift,
              significand |-> shift_right_jam(sum.significand * 2^lift, WIDE - FRACBITS - 3)]

\* Mutation of fma: the product is rounded before the addend is added.
fma_rounded_twice(op, lhs_raw, rhs_raw, addend_raw, rm) ==
    LET product == multiply(lhs_raw, rhs_raw, rm)
        negate == op \in {"NmSub", "NmAdd"}
        signed_product == Signed(IsNegative(product.value) # negate, MagnitudeOf(product.value))
    IN  IF rm \notin RoundingModes THEN Thrown
        ELSE add_or_sub(signed_product, addend_raw, op \in {"MSub", "NmAdd"}, rm)

\* Fpu::fma.  An invalid product is reported even when the addend is a quiet NaN.
fma(op, lhs_raw, rhs_raw, addend_raw, rm) ==
    LET lhs == Unpack(lhs_raw)
        rhs == Unpack(rhs_raw)
        addend == Unpack(addend_raw)
        product_sign == (lhs.sign # rhs.sign) # (op \in {"NmSub", "NmAdd"})
        addend_sign == addend.sign # (op \in {"MSub", "NmAdd"})
        invalid_product == (IsZero(lhs) /\ IsInfinity(rhs)) \/ (IsInfinity(lhs) /\ IsZero(rhs))
        sum == compute_fma(lhs, rhs, addend, product_sign, addend_sign)
    IN  IF invalid_product THEN Invalid
        ELSE IF \E u \in {lhs, rhs, addend} : is_nan(u) THEN propagate_nan({lhs, rhs, addend})
        ELSE IF IsInfinity(lhs) \/ IsInfinity(rhs)
        THEN IF IsInfinity(addend) /\ product_sign # addend_sign THEN Invalid
             ELSE Exact(product_sign, Infinity)
        ELSE IF IsInfinity(addend) THEN Exact(addend_sign, Infinity)
        ELSE IF IsZero(lhs) \/ IsZero(rhs)
        THEN IF IsZero(addend) THEN Exact(ZeroSign(product_sign, addend_sign, rm), 0)
             ELSE Exact(addend_sign, MagnitudeOf(addend_raw))
        ELSE round_and_pack(IF sum.significand = 0 THEN rm = "Rdn" ELSE sum.sign,
                            sum.exponent, sum.significand, rm)

-----------------------------------------------------------------------------
\* Restoring division: the dividend's bits enter the remainder from the top,
\* and a quotient bit is set where the divisor could be taken off.
divide_unsigned(dividend, divisor) ==
    LET After[bit \in 0 .. WordBits] ==
            IF bit = WordBits THEN [quotient |-> 0, remainder |-> 0]
            ELSE LET before == After[bit + 1]
                     next == 2 * before.remainder + ((dividend \div 2^bit) % 2)
                 IN  IF next >= divisor
                     THEN [quotient |-> before.quotient + 2^bit, remainder |-> next - divisor]
                     ELSE [quotient |-> before.quotient, remainder |-> next]
    IN  After[0]

\* Mutation of DivideFinite: a remainder leaves no trace in the quotient.
DivideFiniteExact(lhs, rhs, sign, rm) ==
    LET smaller == lhs.significand < rhs.significand
        numerator == lhs.significand * (IF smaller THEN 2 ELSE 1)
        exponent == lhs.exponent - rhs.exponent - (IF smaller THEN 1 ELSE 0)
    IN  round_and_pack(sign, exponent,
            divide_unsigned(numerator * 2^(FRACBITS + 3), rhs.significand).quotient, rm)

\* The tail of divide: the numerator is at least the denominator when the
\* division starts, and a remainder is a sticky bit.
DivideFinite(lhs, rhs, sign, rm) ==
    LET smaller == lhs.significand < rhs.significand
        numerator == lhs.significand * (IF smaller THEN 2 ELSE 1)
        exponent == lhs.exponent - rhs.exponent - (IF smaller THEN 1 ELSE 0)
        division == divide_unsigned(numerator * 2^(FRACBITS + 3), rhs.significand)
    IN  round_and_pack(sign, exponent, WithSticky(division.quotient, division.remainder # 0), rm)

\* divide looks for a zero divisor before it looks for an infinite dividend.
divide(lhs_raw, rhs_raw, rm) ==
    LET lhs == Unpack(lhs_raw)
        rhs == Unpack(rhs_raw)
        sign == lhs.sign # rhs.sign
    IN  IF is_nan(lhs) \/ is_nan(rhs) THEN propagate_nan({lhs, rhs})
        ELSE IF (IsZero(lhs) /\ IsZero(rhs)) \/ (IsInfinity(lhs) /\ IsInfinity(rhs))
        THEN Invalid
        ELSE IF IsZero(rhs) THEN Result(Signed(sign, Infinity), {DZ})
        ELSE IF IsInfinity(lhs) THEN Exact(sign, Infinity)
        ELSE IF IsZero(lhs) \/ IsInfinity(rhs) THEN Exact(sign, 0)
        ELSE DivideFinite(lhs, rhs, sign, rm)

\* The integer square root, one binary digit of the root at a time.  (The loop
\* that skips leading zero digits changes nothing: they leave the root zero.)
square_root_unsigned(value) ==
    LET top == WIDE \div 2 + 1
        After[digit \in 0 .. top] ==
            IF digit = top THEN [root |-> 0, remainder |-> value]
            ELSE LET before == After[digit + 1]
                     tried == before.root + 2^(2 * digit)
                 IN  IF before.remainder >= tried
                     THEN [root |-> before.root \div 2 + 2^(2 * digit),
                           remainder |-> before.remainder - tried]
                     ELSE [root |-> before.root \div 2, remainder |-> before.remainder]
    IN  After[0]

\* Mutation of SquareRootFinite: the exponent is halved without making it even.
SquareRootOddExponent(u, rm) ==
    LET result == square_root_unsigned(u.significand * 2^(FRACBITS + 6))
    IN  round_and_pack(FALSE, u.exponent \div 2,
                       WithSticky(result.root, result.remainder # 0), rm)

\* The tail of square_root: an odd exponent, negative or not, gives one power
\* of two to the significand, and half of the rest is the root's exponent.
SquareRootFinite(u, rm) ==
    LET odd == u.exponent % 2
        result == square_root_unsigned(u.significand * 2^(odd + FRACBITS + 6))
    IN  round_and_pack(FALSE, (u.exponent - odd) \div 2,
                       WithSticky(result.root, result.remainder # 0), rm)

square_root(raw, rm) ==
    LET u == Unpack(raw)
    IN  IF is_nan(u) THEN propagate_nan({u})
        ELSE IF IsZero(u) THEN Result(raw, {})
        ELSE IF u.sign THEN Invalid
        ELSE IF IsInfinity(u) THEN Exact(FALSE, Infinity)
        ELSE SquareRootFinite(u, rm)

-----------------------------------------------------------------------------
\* Mutation of less_than: the bits are compared as a signed number's would be.
less_than_twos_complement(lhs, rhs) ==
    IF IsNegative(lhs) # IsNegative(rhs) THEN IsNegative(lhs)
    ELSE MagnitudeOf(lhs) < MagnitudeOf(rhs)

\* The order of two floats that are not NaN, except that it puts -0 below +0.
less_than(lhs, rhs) ==
    IF IsNegative(lhs) # IsNegative(rhs) THEN IsNegative(lhs)
    ELSE IF IsNegative(lhs) THEN MagnitudeOf(lhs) > MagnitudeOf(rhs)
    ELSE MagnitudeOf(lhs) < MagnitudeOf(rhs)

Truth(p) == IF p THEN 1 ELSE 0

\* compare: FEQ is quiet, the ordered comparisons signal every NaN.
compare(op, lhs_raw, rhs_raw) ==
    LET lhs == Unpack(lhs_raw)
        rhs == Unpack(rhs_raw)
        both_zero == IsZero(lhs) /\ IsZero(rhs)
        equal == both_zero \/ lhs_raw = rhs_raw
        invalid == op # "Eq" \/ is_signaling_nan(lhs) \/ is_signaling_nan(rhs)
    IN  IF is_nan(lhs) \/ is_nan(rhs) THEN Result(0, IF invalid THEN {NV} ELSE {})
        ELSE Result(Truth(CASE op = "Eq" -> equal
                            [] op = "Lt" -> ~both_zero /\ less_than(lhs_raw, rhs_raw)
                            [] op = "Le" -> equal \/ less_than(lhs_raw, rhs_raw)), {})

\* min_or_max: a NaN loses to a number, and -0 is the smaller zero.
min_or_max(lhs_raw, rhs_raw, maximum) ==
    LET lhs == Unpack(lhs_raw)
        rhs == Unpack(rhs_raw)
        flags == IF is_signaling_nan(lhs) \/ is_signaling_nan(rhs) THEN {NV} ELSE {}
        both_negative == lhs.sign /\ rhs.sign
        either_negative == lhs.sign \/ rhs.sign
    IN  CASE is_nan(lhs) /\ is_nan(rhs)   -> Result(CanonicalNan, flags)
          [] is_nan(lhs) /\ ~is_nan(rhs)  -> Result(rhs_raw, flags)
          [] ~is_nan(lhs) /\ is_nan(rhs)  -> Result(lhs_raw, flags)
          [] IsZero(lhs) /\ IsZero(rhs)   ->
                Result(Signed(IF maximum THEN both_negative ELSE either_negative, 0), flags)
          [] OTHER -> Result(IF less_than(lhs_raw, rhs_raw) = maximum THEN rhs_raw ELSE lhs_raw,
                             flags)

\* Sign injection: lhs with a sign made from both.
InjectSign(op, lhs, rhs) ==
    Exact(CASE op = "Sgnj"  -> IsNegative(rhs)
            [] op = "Sgnjn" -> ~IsNegative(rhs)
            [] op = "Sgnjx" -> IsNegative(lhs) # IsNegative(rhs),
          MagnitudeOf(lhs))

\* Fpu::binary.
binary(op, lhs, rhs, rm) ==
    CASE op = "Add" -> add_or_sub(lhs, rhs, FALSE, rm)
      [] op = "Sub" -> add_or_sub(lhs, rhs, TRUE, rm)
      [] op = "Mul" -> multiply(lhs, rhs, rm)
      [] op = "Div" -> divide(lhs, rhs, rm)
      [] op = "Min" -> min_or_max(lhs, rhs, FALSE)
      [] op = "Max" -> min_or_max(lhs, rhs, TRUE)
      [] op \in {"Sgnj", "Sgnjn", "Sgnjx"} -> InjectSign(op, lhs, rhs)
      [] op \in {"Eq", "Lt", "Le"}         -> compare(op, lhs, rhs)

\* Mutation of unary: the rounding mode is validated before the operation.
unary_validating(op, operand, rm) ==
    IF rm \notin RoundingModes THEN Thrown ELSE square_root(operand, rm)

\* Fpu::unary, which knows the one operation.
unary(op, operand, rm) == CASE op = "Sqrt" -> square_root(operand, rm)

-----------------------------------------------------------------------------
\* The sign and the magnitude of an integer register, as the type reads it.
IntegerOperand(op, operand) ==
    LET width == IF op \in {"CvtSToW", "CvtSToWu"} THEN WLEN ELSE XLEN
        value == operand % 2^width
        negative == op \in {"CvtSToW", "CvtSToL"} /\ value >= 2^(width - 1)
    IN  [sign |-> negative, magnitude |-> IF negative THEN 2^width - value ELSE value]

\* Mutation of integer_to_float: low bits of a wide integer leave no trace.
integer_to_float_truncated(op, operand, rm) ==
    LET x == IntegerOperand(op, operand)
        exponent == Msb(x.magnitude)
        surplus == exponent - (FRACBITS + 3)
    IN  IF x.magnitude = 0 THEN Exact(FALSE, 0)
        ELSE round_and_pack(x.sign, exponent,
                IF surplus > 0 THEN shift_right(x.magnitude, surplus)
                ELSE x.magnitude * 2^(-surplus), rm)

integer_to_float(op, operand, rm) ==
    LET x == IntegerOperand(op, operand)
        exponent == Msb(x.magnitude)
        surplus == exponent - (FRACBITS + 3)
    IN  IF x.magnitude = 0 THEN Exact(FALSE, 0)
        ELSE round_and_pack(x.sign, exponent,
                IF surplus > 0 THEN shift_right_jam(x.magnitude, surplus)
                ELSE x.magnitude * 2^(-surplus), rm)

\* A result of the given width in a register; a word is sign extended, an
\* unsigned one too.
encode_integer_result(negative, magnitude, width) ==
    LET value == (IF negative THEN -magnitude ELSE magnitude) % 2^XLEN
        word == value % 2^WLEN
    IN  IF width = XLEN THEN value
        ELSE IF word >= 2^(WLEN - 1) THEN 2^XLEN - 2^WLEN + word ELSE word

\* The integer part of a finite float and what is cut off: its place value is
\* 2^-shift, and a shift past the register leaves no integer part and no half.
Cut(u) ==
    LET shift == FRACBITS - u.exponent
    IN  IF shift >= XLEN
        THEN [magnitude |-> 0, remainder |-> u.significand, halfway |-> 0, short |-> FALSE]
        ELSE [magnitude |-> u.significand \div 2^shift,
              remainder |-> u.significand % 2^shift, halfway |-> 2^(shift - 1), short |-> TRUE]

\* Rounding the integer part away from zero, by a switch of its own.  A
\* reserved mode matches no case and cuts the fraction off.
RoundsUp(cut, negative, rm) ==
    CASE rm = "Rne" -> cut.short /\ (\/ cut.remainder > cut.halfway
                                     \/ cut.remainder = cut.halfway /\ cut.magnitude % 2 = 1)
      [] rm = "Rdn" -> negative /\ cut.remainder # 0
      [] rm = "Rup" -> ~negative /\ cut.remainder # 0
      [] rm = "Rmm" -> cut.short /\ cut.remainder >= cut.halfway
      [] OTHER      -> FALSE

ToSigned(op) == op \in {"CvtWFromS", "CvtLFromS"}
ToWidth(op) == IF op \in {"CvtWFromS", "CvtWuFromS"} THEN WLEN ELSE XLEN

\* What a float that no integer of the type is near becomes: the nearest
\* bound of the type, the upper one for a NaN.
OutOfRange(op, u) ==
    LET width == ToWidth(op)
        upper == IF ToSigned(op) THEN 2^(width - 1) - 1 ELSE 2^width - 1
    IN  Result(CASE is_nan(u) \/ ~u.sign -> encode_integer_result(FALSE, upper, width)
                 [] ~is_nan(u) /\ u.sign ->
                       IF ToSigned(op) THEN encode_integer_result(TRUE, 2^(width - 1), width)
                       ELSE 0,
               {NV})

\* Mutation of Exceeds: every negative operand of an unsigned conversion does.
ExceedsNegative(op, negative, magnitude) ==
    LET width == ToWidth(op) IN
    IF ToSigned(op) THEN magnitude > (IF negative THEN 2^(width - 1) ELSE 2^(width - 1) - 1)
    ELSE negative \/ magnitude > 2^width - 1

\* Whether an integer of that sign and magnitude is none of the type's.
Exceeds(op, negative, magnitude) ==
    LET width == ToWidth(op) IN
    IF ToSigned(op) THEN magnitude > (IF negative THEN 2^(width - 1) ELSE 2^(width - 1) - 1)
    ELSE (negative /\ magnitude # 0) \/ magnitude > 2^width - 1

float_to_integer(op, raw, rm) ==
    LET u == Unpack(raw)
        whole == u.exponent >= FRACBITS
        lift == u.exponent - FRACBITS
        too_large == lift >= XLEN \/ u.significand > (2^XLEN - 1) \div 2^lift
        cut == Cut(u)
        up == RoundsUp(cut, u.sign, rm)
        magnitude == IF whole THEN u.significand * 2^lift ELSE cut.magnitude + Truth(up)
        inexact == ~whole /\ cut.remainder # 0
    IN  IF is_nan(u) \/ IsInfinity(u) THEN OutOfRange(op, u)
        ELSE IF IsZero(u) THEN Result(0, {})
        ELSE IF ~whole /\ rm = "Dynamic" THEN Thrown
        ELSE IF whole /\ too_large THEN OutOfRange(op, u)
        ELSE IF Exceeds(op, u.sign, magnitude) THEN OutOfRange(op, u)
        ELSE Result(encode_integer_result(u.sign, magnitude, ToWidth(op)),
                    IF inexact THEN {NX} ELSE {})

\* Fpu::convert.
convert(op, operand, rm) ==
    IF op \in {"CvtSToW", "CvtSToWu", "CvtSToL", "CvtSToLu"}
    THEN integer_to_float(op, operand, rm)
    ELSE float_to_integer(op, operand, rm)
=============================================================================
