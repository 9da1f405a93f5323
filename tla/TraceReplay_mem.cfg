\* The log against loads and stores of every width.
SPECIFICATION ReplaySpec
CONSTANTS
    XLEN = 64
    WLEN = 32
    SHBITS = 6
    WSHBITS = 5
    XRegs = {0, 1, 2, 3}
    FRegs = {0}
    Asserts = TRUE
    Boot <- MCHartBoot
    RamAddrs <- MCAddrs
    Images <- MCBlank
    Entries <- MCEntries
    Insns <- MemInsns
    MulDivResults <- MCNoResults
    FpResults <- MCNoResults
    FpToIntResults <- MCNoResults
INVARIANTS
    ReplayedRegisters
    ReplayedMemory
    ReplayedReads
PROPERTY
    FailuresLeaveLittle
