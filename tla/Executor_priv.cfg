\* Traps, returns and mstatus, from a zeroed and from a dirty stack.
SPECIFICATION Spec
CONSTANTS
    XLEN = 64
    WLEN = 32
    SHBITS = 6
    WSHBITS = 5
    XRegs = {0, 1}
    FRegs = {0}
    Asserts = TRUE
    Boot <- MCJunkBoot
    RamAddrs <- MCAddrs
    Images <- MCBlank
    Entries <- MCEntries
    Insns <- PrivInsns
    MulDivResults <- MCNoResults
    FpResults <- MCNoResults
    FpToIntResults <- MCNoResults
INVARIANTS
    TypeOK
    MstatusWellFormed
PROPERTIES
    TrapStackSpec
