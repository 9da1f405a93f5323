\* The main loop on programs that modify themselves, trap and signal.
SPECIFICATION SimSpec
CONSTANTS
    XLEN = 64
    WLEN = 32
    SHBITS = 6
    WSHBITS = 5
    XRegs = {0, 1, 2}
    FRegs = {0}
    Asserts = TRUE
    None = None
    Boot <- MCBoot
    RamAddrs <- MCAddrs
    Images <- MCImages
    Entries <- MCEntries
    Tohost <- MCTohost
    Insns <- MCInsns
    MulDivResults = {}
    FpResults = {}
    FpToIntResults = {}
INVARIANTS
    CommitNamesFetchedWord
    SignalStopsExecution
PROPERTIES
    ExecutorSpec
    SignalIsSeen
