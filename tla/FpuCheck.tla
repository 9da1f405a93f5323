------------------------------ MODULE FpuCheck ------------------------------
(***************************************************************************)
(* Fpu against exact arithmetic.  A float stands for an integer multiple   *)
(* of the smallest subnormal, and a result is what IEEE 754 and the RISC-V *)
(* manual make of the exact value: the float next to it that the rounding  *)
(* mode selects among all of the format's, with the flags that tell how    *)
(* the two differ, tininess detected after rounding.  The reference shares *)
(* nothing with the algorithm: it neither aligns nor normalizes, and it    *)
(* finds the neighbours by search.  The flags of the unit are not always   *)
(* those of the reference; the properties say where they differ, and that  *)
(* they differ nowhere else.  Arithmetic runs on every pair of a narrow    *)
(* format; conversions on another, whose floats reach past the integer     *)
(* registers as binary32's do.                                             *)
(***************************************************************************)
EXTENDS Fpu

CONSTANTS Factors,    \* operands of the fused operations' product
          CVT_EXPBITS \* exponent bits of the format that is converted

VARIABLES x, y        \* the operands

\* As FormatAssumption and PowersAssumption for the other format.
ASSUME CvtAssumption ==
    /\ CVT_EXPBITS \in Nat \ {0, 1}
    /\ \A n \in 0 .. CVT_EXPBITS + FRACBITS : 2^(n + 1) = 2 * 2^n

Cvt == INSTANCE Fpu WITH EXPBITS <- CVT_EXPBITS

Init == x \in Floats /\ y = 0
Next == y' = (y + 1) % (2 * Sign) /\ UNCHANGED x
Spec == Init /\ [][Next]_<<x, y>>

-----------------------------------------------------------------------------
\* A magnitude as a number of smallest subnormals, of which one has Unit.
\* The infinity stands where the next float would.
Grid == [b \in 0 .. Infinity |->
            IF b < HiddenBit THEN b
            ELSE (HiddenBit + (b % HiddenBit)) * Power[b \div HiddenBit - 1]]
Unit == Power[FRACBITS - MinExponent]

NanOf(b) == MagnitudeOf(b) > Infinity
SignalingOf(b) == NanOf(b) /\ MagnitudeOf(b) < CanonicalNan
InfiniteOf(b) == MagnitudeOf(b) = Infinity
ZeroOf(b) == MagnitudeOf(b) = 0
FiniteNonzero(b) == ~ZeroOf(b) /\ MagnitudeOf(b) < Infinity
Number(b) == IF IsNegative(b) THEN -Grid[MagnitudeOf(b)] ELSE Grid[MagnitudeOf(b)]
Abs(n) == IF n < 0 THEN -n ELSE n
\* The product of two magnitudes, cut off where the result is infinite
\* whatever is added to it.
Times(m, n) ==
    LET enough == 2 * Grid[Infinity] * Unit
    IN  IF m # 0 /\ n > enough \div m THEN enough ELSE m * n
TimesSigned(l, r) ==
    LET p == Times(Abs(Number(l)), Abs(Number(r)))
    IN  IF IsNegative(l) # IsNegative(r) THEN -p ELSE p

\* Whether a mode rounds away from zero what lies past the middle or beside it.
Outward(negative, rm) == rm = (IF negative THEN "Rdn" ELSE "Rup")
ToNearest(rm) == rm \in {"Rne", "Rmm"}

\* The same result in every mode.
Always(result) == [rm \in RoundingModes |-> result]

\* The float of the grid for a positive value, in each rounding mode.
\* excess[h] has the sign of twice the value minus h.
Rounded(grid, first, infinity, excess, negative) ==
    LET Reached(b) == b <= infinity /\ excess[2 * grid[b]] >= 0
        binade == CHOOSE e \in first \div HiddenBit .. infinity \div HiddenBit :
                      Reached(e * HiddenBit) /\ ~Reached((e + 1) * HiddenBit)
        below == CHOOSE b \in binade * HiddenBit .. (binade + 1) * HiddenBit - 1 :
                      Reached(b) /\ ~Reached(b + 1)
        exact == excess[2 * grid[below]] = 0
        middle == excess[grid[below] + grid[below + 1]]
        Up(rm) == \/ Outward(negative, rm)
                  \/ ToNearest(rm) /\ middle > 0
                  \/ middle = 0 /\ (rm = "Rmm" \/ (rm = "Rne" /\ below % 2 = 1))
        Taken(rm) == IF ~exact /\ Up(rm) THEN below + 1 ELSE below
    IN  [rm \in RoundingModes |->
            IF below = infinity
            THEN [magnitude |-> IF Outward(negative, rm) \/ ToNearest(rm) THEN infinity
                                ELSE infinity - 1,
                  flags |-> {OF, NX}]
            ELSE [magnitude |-> Taken(rm),
                  flags |-> CASE exact -> {}
                              [] ~exact /\ Taken(rm) = infinity -> {OF, NX}
                              [] OTHER                          -> {NX}]]

\* The result for a value of which once knows the value and twice its double.
\* An inexact result underflows if it is tiny: below the smallest normal when
\* rounded to as many digits with no bound to the exponent.  There is one more
\* digit then, and so the double tells; what the float came to does not.
Delivered(once, twice, negative) ==
    LET r == Rounded(Grid, 0, Infinity, once, negative)
        double == Rounded(Grid, 0, Infinity, twice, negative)
        Tiny(rm) == double[rm].magnitude < 2 * HiddenBit
    IN  [rm \in RoundingModes |->
            Result(Signed(negative, r[rm].magnitude),
                   IF r[rm].flags = {NX} /\ Tiny(rm) THEN {UF, NX} ELSE r[rm].flags)]

\* The quotient num / den, and the root of num, in smallest subnormals.
RoundedQuotient(num, den, negative) ==
    Delivered([h \in Nat |-> 2 * num - h * den], [h \in Nat |-> 4 * num - h * den], negative)
RoundedRoot(num) ==
    Delivered([h \in Nat |-> 4 * num - h * h], [h \in Nat |-> 16 * num - h * h], FALSE)

\* A number given in fractions of a smallest subnormal; a zero that two terms
\* of different signs cancel to is negative when rounding down.
RoundedSum(left, right, den, left_negative, right_negative) ==
    IF left + right # 0
    THEN RoundedQuotient(Abs(left + right), den, left + right < 0)
    ELSE [rm \in RoundingModes |->
             Result(Signed(IF left_negative = right_negative THEN left_negative
                           ELSE rm = "Rdn", 0), {})]

QuietOf(operands, invalid) ==
    Always(Result(CanonicalNan,
                  IF invalid \/ \E b \in operands : SignalingOf(b) THEN {NV} ELSE {}))
InfinityOf(negative) == Always(Result(Signed(negative, Infinity), {}))

-----------------------------------------------------------------------------
\* Sum, product, quotient and root as the standards define them: for each
\* rounding mode the value and the flags.
SumOf(l, r) ==
    IF NanOf(l) \/ NanOf(r) THEN QuietOf({l, r}, FALSE)
    ELSE IF InfiniteOf(l) /\ InfiniteOf(r) /\ l # r THEN QuietOf({l, r}, TRUE)
    ELSE IF InfiniteOf(l) THEN Always(Result(l, {}))
    ELSE IF InfiniteOf(r) THEN Always(Result(r, {}))
    ELSE RoundedSum(Number(l), Number(r), 1, IsNegative(l), IsNegative(r))

ZeroTimesInfinity(l, r) == {MagnitudeOf(l), MagnitudeOf(r)} = {0, Infinity}

ProductOf(l, r) ==
    LET negative == IsNegative(l) # IsNegative(r) IN
    IF NanOf(l) \/ NanOf(r) \/ ZeroTimesInfinity(l, r)
    THEN QuietOf({l, r}, ZeroTimesInfinity(l, r))
    ELSE IF InfiniteOf(l) \/ InfiniteOf(r) THEN InfinityOf(negative)
    ELSE RoundedSum(TimesSigned(l, r), 0, Unit, negative, negative)

\* Infinity divided by zero is exact.
QuotientOf(l, r) ==
    LET negative == IsNegative(l) # IsNegative(r) IN
    IF NanOf(l) \/ NanOf(r) THEN QuietOf({l, r}, FALSE)
    ELSE IF {MagnitudeOf(l), MagnitudeOf(r)} \in {{0}, {Infinity}} THEN QuietOf({l, r}, TRUE)
    ELSE IF InfiniteOf(l) THEN InfinityOf(negative)
    ELSE IF ZeroOf(r) THEN Always(Result(Signed(negative, Infinity), {DZ}))
    ELSE IF InfiniteOf(r) \/ ZeroOf(l) THEN Always(Result(Signed(negative, 0), {}))
    ELSE RoundedQuotient(Abs(Number(l)) * Unit, Abs(Number(r)), negative)

RootOf(b) ==
    IF NanOf(b) THEN QuietOf({b}, FALSE)
    ELSE IF ZeroOf(b) THEN Always(Result(b, {}))
    ELSE IF IsNegative(b) THEN QuietOf({b}, TRUE)
    ELSE IF InfiniteOf(b) THEN Always(Result(b, {}))
    ELSE RoundedRoot(Number(b) * Unit)

\* l * r + c, rounded once.
FusedOf(l, r, c) ==
    LET negative == IsNegative(l) # IsNegative(r) IN
    IF ZeroTimesInfinity(l, r) \/ \E b \in {l, r, c} : NanOf(b)
    THEN QuietOf({l, r, c}, ZeroTimesInfinity(l, r))
    ELSE IF InfiniteOf(l) \/ InfiniteOf(r)
    THEN IF InfiniteOf(c) /\ negative # IsNegative(c) THEN QuietOf({}, TRUE)
         ELSE InfinityOf(negative)
    ELSE IF InfiniteOf(c) THEN Always(Result(c, {}))
    ELSE RoundedSum(TimesSigned(l, r), Number(c) * Unit, Unit, negative, IsNegative(c))

\* The operand with the other sign; a NaN has none that matters.
Negated(b) == IF NanOf(b) THEN b ELSE Signed(~IsNegative(b), MagnitudeOf(b))

-----------------------------------------------------------------------------
\* The converted format: a float as a fraction, an integer as a float.
CvtNumerator(b) ==
    LET e == Cvt!MagnitudeOf(b) \div HiddenBit - Cvt!Bias
        significand == (IF e = -Cvt!Bias THEN 0 ELSE HiddenBit) + (b % HiddenBit)
    IN  (IF Cvt!IsNegative(b) THEN -1 ELSE 1)
            * significand * (IF e > FRACBITS THEN Power[e - FRACBITS] ELSE 1)
CvtDenominator(b) ==
    LET e == Cvt!MagnitudeOf(b) \div HiddenBit - Cvt!Bias
    IN  IF e > FRACBITS THEN 1
        ELSE Power[FRACBITS - (IF e < Cvt!MinExponent THEN Cvt!MinExponent ELSE e)]

\* The integer a fraction rounds to.
Integral(num, den, rm) ==
    LET floor == num \div den
        excess == 2 * (num % den) - den
        up == CASE rm = "Rdn" -> FALSE
                [] rm = "Rup" -> TRUE
                [] rm = "Rtz" -> num < 0
                [] rm = "Rne" -> excess > 0 \/ (excess = 0 /\ floor % 2 = 1)
                [] rm = "Rmm" -> excess > 0 \/ (excess = 0 /\ num > 0)
    IN  IF num % den # 0 /\ up THEN floor + 1 ELSE floor

LowerBound(op) == IF ToSigned(op) THEN -(2^(ToWidth(op) - 1)) ELSE 0
UpperBound(op) == IF ToSigned(op) THEN 2^(ToWidth(op) - 1) - 1 ELSE 2^ToWidth(op) - 1
\* The register that holds an integer of the type, words sign extended.
InRegister(op, n) ==
    LET word == n % 2^ToWidth(op) IN
    (IF word >= 2^(ToWidth(op) - 1) THEN word - 2^ToWidth(op) ELSE word) % 2^XLEN

IntegerOf(op, b, rm) ==
    LET n == Integral(CvtNumerator(b), CvtDenominator(b), rm)
        magnitude == Cvt!MagnitudeOf(b)
    IN  IF magnitude > Cvt!Infinity \/ b = Cvt!Infinity
        THEN Result(InRegister(op, UpperBound(op)), {NV})
        ELSE IF magnitude = Cvt!Infinity \/ n < LowerBound(op)
        THEN Result(InRegister(op, LowerBound(op)), {NV})
        ELSE IF n > UpperBound(op) THEN Result(InRegister(op, UpperBound(op)), {NV})
        ELSE Result(InRegister(op, n),
                    IF CvtNumerator(b) % CvtDenominator(b) = 0 THEN {} ELSE {NX})

\* The floats from one upwards, in units of the last place of one.
CvtGrid == [b \in Cvt!Bias * HiddenBit .. Cvt!Infinity |->
               (HiddenBit + (b % HiddenBit)) * Power[b \div HiddenBit - Cvt!Bias]]

\* The integer a register holds for a conversion to float.
Integer(op, w) ==
    LET width == IF op \in {"CvtSToW", "CvtSToWu"} THEN WLEN ELSE XLEN
        n == w % 2^width
    IN  IF op \in {"CvtSToW", "CvtSToL"} /\ n >= 2^(width - 1) THEN n - 2^width ELSE n

FloatOf(n) ==
    LET excess == [h \in Nat |-> 2 * Abs(n) * HiddenBit - h]
        r == Rounded(CvtGrid, Cvt!Bias * HiddenBit, Cvt!Infinity, excess, n < 0)
    IN  IF n = 0 THEN Always(Result(0, {}))
        ELSE [rm \in RoundingModes |->
                 Result(Cvt!Signed(n < 0, r[rm].magnitude), r[rm].flags)]

\* The two operands together, as one number to convert.
Joined == x + 2 * Sign * y

-----------------------------------------------------------------------------
\* FADD and FSUB are correctly rounded, with the flags of the standards: with
\* three extra bits, of which the last is sticky, no alignment and no
\* cancellation loses what the rounding or the flags depend on.
AddSubAgrees ==
    \A op \in {"Add", "Sub"} :
        LET sum == SumOf(x, IF op = "Sub" THEN Negated(y) ELSE y)
        IN  \A rm \in RoundingModes : binary(op, x, y, rm) = sum[rm]

\* What the unit makes of a result of the standards: round_and_pack looks for
\* underflow at the rounded float, and misses it where a tiny value was
\* rounded up to the smallest normal.
Raised(r) ==
    IF MagnitudeOf(r.value) = HiddenBit THEN [r EXCEPT !.flags = @ \ {UF}] ELSE r

\* FMUL is correctly rounded, at both ends of the exponent range, and its flags
\* are those of the standards but for one: underflow is not raised where the
\* result is the smallest normal, be the product tiny or not.
MulAgrees ==
    LET product == ProductOf(x, y)
    IN  \A rm \in RoundingModes : binary("Mul", x, y, rm) = Raised(product[rm])

\* FDIV is correctly rounded: the bits of a quotient that never ends are cut
\* off without a trace in the value only where a remainder is remembered.  Its
\* flags differ from those of the standards in two cases: the smallest normal,
\* as in FMUL, and infinity divided by zero, which raises DZ.
DivAgrees ==
    LET quotient == QuotientOf(x, y)
        ByZero == InfiniteOf(x) /\ ZeroOf(y)
    IN  \A rm \in RoundingModes :
            binary("Div", x, y, rm) =
                IF ByZero THEN Result(quotient[rm].value, {DZ}) ELSE Raised(quotient[rm])

\* FSQRT is correctly rounded, for even and odd exponents of either sign, with
\* the flags of the standards.
SqrtAgrees == y = 0 => \A rm \in RoundingModes : unary("Sqrt", x, rm) = RootOf(x)[rm]

\* The fused operations round once: a product that cancels against the addend
\* leaves the bits that a rounded product would have lost.  The flags are those
\* of the standards but for underflow to the smallest normal, as in FMUL.
FmaAgrees ==
    {x, y} \subseteq Factors =>
        \A c \in Floats : \A op \in {"MAdd", "MSub", "NmSub", "NmAdd"} :
            LET sum == FusedOf(IF op \in {"NmSub", "NmAdd"} THEN Negated(x) ELSE x, y,
                               IF op \in {"MSub", "NmAdd"} THEN Negated(c) ELSE c)
            IN  \A rm \in RoundingModes : fma(op, x, y, c, rm) = Raised(sum[rm])

\* The comparisons, the minimum and the maximum order floats as numbers, with
\* the two zeros equal to the first and ordered for the others, and only the
\* ordered comparisons signal a quiet NaN.
ComparisonsAgree ==
    LET nan == NanOf(x) \/ NanOf(y)
        signaling == SignalingOf(x) \/ SignalingOf(y)
        first == Number(x) < Number(y) \/ (ZeroOf(x) /\ ZeroOf(y) /\ IsNegative(x))
        Compared(op, holds) ==
            binary(op, x, y, "Rne") =
                (IF nan THEN Result(0, IF op # "Eq" \/ signaling THEN {NV} ELSE {})
                 ELSE Result(Truth(holds), {}))
        Picked(op, left) ==
            binary(op, x, y, "Rne") =
                Result(CASE NanOf(x) /\ NanOf(y)  -> CanonicalNan
                         [] NanOf(x) /\ ~NanOf(y) -> y
                         [] ~NanOf(x) /\ NanOf(y) -> x
                         [] ~nan                  -> IF left THEN x ELSE y,
                       IF signaling THEN {NV} ELSE {})
    IN  /\ Compared("Eq", Number(x) = Number(y))
        /\ Compared("Lt", Number(x) < Number(y))
        /\ Compared("Le", Number(x) <= Number(y))
        /\ Picked("Min", first)
        /\ Picked("Max", ~first)

\* Converting a float to an integer rounds first and looks at the range
\* afterwards: only what no rounding brings into the type is invalid.
FloatToIntegerAgrees ==
    Joined \in Cvt!Floats =>
        \A op \in {"CvtWFromS", "CvtWuFromS", "CvtLFromS", "CvtLuFromS"} :
            \A rm \in RoundingModes :
                Cvt!convert(op, Joined, rm) = IntegerOf(op, Joined, rm)

\* Converting an integer to a float is correctly rounded, with the flags of the
\* standards, whatever the register holds above the word.
IntegerToFloatAgrees ==
    Joined \in 0 .. 2^XLEN - 1 =>
        \A op \in {"CvtSToW", "CvtSToWu", "CvtSToL", "CvtSToLu"} :
            LET float == FloatOf(Integer(op, Joined))
            IN  \A rm \in RoundingModes : Cvt!convert(op, Joined, rm) = float[rm]

\* Unpacking a float loses nothing that packing it needs, NaN payloads and
\* subnormals included.  (Nothing in the program calls to_bits: this is about
\* what unpack keeps, and for whoever comes to use the other.)
PackingInverts == Joined \in Cvt!Floats => Cvt!ToBits(Cvt!Unpack(Joined)) = Joined

\* A reserved rounding mode ends the program exactly where a nonzero result
\* goes through the rounding, be it exact or not: not for special operands,
\* not for zeros, and never in a conversion to integer.
ReservedModeThrows ==
    /\ \A op \in {"Add", "Sub", "Mul", "Div"} :
          binary(op, x, y, "Reserved") = Thrown <=>
              /\ FiniteNonzero(x) /\ FiniteNonzero(y)
              /\ ~(op = "Add" /\ Number(x) = -Number(y))
              /\ ~(op = "Sub" /\ Number(x) = Number(y))
    /\ \A op \in {"Min", "Max", "Eq", "Lt", "Le", "Sgnj", "Sgnjn", "Sgnjx"} :
          binary(op, x, y, "Reserved") # Thrown
    /\ y = 0 =>
          (unary("Sqrt", x, "Reserved") = Thrown <=> FiniteNonzero(x) /\ ~IsNegative(x))
    /\ {x, y} \subseteq Factors =>
          \A c \in Floats :
              fma("MAdd", x, y, c, "Reserved") = Thrown <=>
                  /\ FiniteNonzero(x) /\ FiniteNonzero(y)
                  /\ ZeroOf(c) \/ FiniteNonzero(c)
                  /\ TimesSigned(x, y) + Number(c) * Unit # 0
    /\ Joined \in Cvt!Floats =>
          \A op \in {"CvtWFromS", "CvtWuFromS", "CvtLFromS", "CvtLuFromS"} :
              Cvt!convert(op, Joined, "Reserved") # Thrown
    /\ Joined \in 0 .. 2^XLEN - 1 =>
          \A op \in {"CvtSToW", "CvtSToWu", "CvtSToL", "CvtSToLu"} :
              Cvt!convert(op, Joined, "Reserved") = Thrown <=> Integer(op, Joined) # 0
=============================================================================
