\* Files of every layout, and one for every instruction and for many words
\* that are none.
SPECIFICATION LoaderSpec
CONSTANTS
    XLEN = 64
    WLEN = 32
    SHBITS = 6
    WSHBITS = 5
    Asserts = TRUE
    RamAddrs <- MCAddrs
    Files <- MCFiles
    Uninitialized <- MCUninitialized
INVARIANTS
    LoadedAsLinked
    TohostIsTheSymbol
    ProgramsDecode
    DecodingIsLossless
