\* Every pair of operands of an eight-bit machine with four-bit words.
SPECIFICATION Spec
CONSTANTS
    XLEN = 8
    WLEN = 4
    SHBITS = 3
    WSHBITS = 2
INVARIANTS
    OpAgrees
    OpImm32Agrees
    Op32Agrees
    BranchAgrees
    MulDivAgrees
    MulDivWordAgrees
