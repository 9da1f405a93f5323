\* Dynamic rounding from a register file that was never initialized.
SPECIFICATION Spec
CONSTANTS
    XLEN = 64
    WLEN = 32
    SHBITS = 6
    WSHBITS = 5
    XRegs = {0, 1}
    FRegs = {0, 1}
    Asserts = TRUE
    Boot <- MCJunkBoot
    RamAddrs <- MCAddrs
    Images <- MCBlank
    Entries <- MCEntries
    Insns <- DynamicInsns
    MulDivResults <- MCNoResults
    FpResults <- MCFpResults
    FpToIntResults <- MCFpToIntResults
PROPERTY
    DynamicModeUsable
