\* The log against writes of every kind of CSR, traps and returns.
SPECIFICATION ReplaySpec
CONSTANTS
    XLEN = 64
    WLEN = 32
    SHBITS = 6
    WSHBITS = 5
    XRegs = {0, 1}
    FRegs = {0, 1}
    Asserts = TRUE
    Boot <- MCJunkBoot
    RamAddrs <- MCAddrs
    Images <- MCBlank
    Entries <- MCEntries
    Insns <- CsrInsns
    MulDivResults <- MCNoResults
    FpResults <- MCFpResults
    FpToIntResults <- MCNoResults
INVARIANTS
    ReplayedRegisters
    ReplayedCsrs
PROPERTIES
    OnlyOperandBitsChange
