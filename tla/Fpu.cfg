\* Every pair of operands of a format with four exponent and three fraction
\* bits, the fused operations with every addend; conversions of a format with
\* five exponent bits, whose largest float no integer register holds.
SPECIFICATION Spec
CONSTANTS
    EXPBITS = 4
    FRACBITS = 3
    WIDE = 12
    XLEN = 8
    WLEN = 4
    SHBITS = 3
    WSHBITS = 2
    CVT_EXPBITS = 5
    Factors = {0, 1, 15, 56, 59, 63, 119, 120, 121, 124, 135, 187}
INVARIANTS
    AddSubAgrees
    MulAgrees
    DivAgrees
    SqrtAgrees
    FmaAgrees
    ComparisonsAgree
    FloatToIntegerAgrees
    IntegerToFloatAgrees
    PackingInverts
    ReservedModeThrows
