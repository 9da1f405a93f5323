\* The assertions of the accessors against every load and store.
SPECIFICATION Spec
CONSTANTS
    XLEN = 64
    WLEN = 32
    SHBITS = 6
    WSHBITS = 5
    XRegs = {0, 1}
    FRegs = {0, 1}
    Asserts = TRUE
    Boot <- MCJunkBoot
    RamAddrs <- MCAddrs
    Images <- MCBlank
    Entries <- MCEntries
    Insns <- FloatAccessInsns
    MulDivResults <- MCNoResults
    FpResults <- MCFpResults
    FpToIntResults <- MCFpToIntResults
INVARIANT
    AccessesAligned
