-------------------------------- MODULE Ram ---------------------------------
(***************************************************************************)
(* The memory of ram.cpp: a byte array whose 16-, 32- and 64-bit accessors *)
(* reinterpret the array as one of wider elements.  An access therefore    *)
(* always touches the aligned block that holds the address; that the       *)
(* address is aligned is only asserted.  No accessor checks the bounds of  *)
(* the array.                                                              *)
(***************************************************************************)
EXTENDS Words

CONSTANTS RamAddrs,   \* the addresses the array covers
          Asserts     \* whether the build keeps assert() (no NDEBUG)

VARIABLE mem          \* Memory::data, by address

Byte == SUBSET Low(8)
AccessSizes == {1, 2, 4, 8}

\* The address bits an aligned access of this size has clear.
OffsetBits(size) ==
    CASE size = 1 -> {} [] size = 2 -> {0} [] size = 4 -> {0, 1} [] size = 8 -> {0, 1, 2}

\* The array starts and ends at a multiple of eight: whole 64-bit elements.
ASSUME RamAssumption ==
    /\ RamAddrs \subseteq Word
    /\ \A a \in RamAddrs : \A o \in SUBSET {0, 1, 2} : (a \ {0, 1, 2}) \cup o \in RamAddrs
    /\ Asserts \in BOOLEAN

-----------------------------------------------------------------------------
Aligned(addr, size) == addr \cap OffsetBits(size) = {}

\* How an access ends: a failed assertion ends the program, and beyond the
\* array C++ says nothing.
AccessOutcome(addr, size) ==
    IF Asserts /\ ~Aligned(addr, size) THEN "aborted"
    ELSE IF addr \notin RamAddrs THEN "undefined" ELSE "ok"

\* The address of byte k of the element of this size that holds addr.
ByteAddr(addr, size, k) ==
    (addr \ OffsetBits(size))
        \cup {b \in OffsetBits(size) : (k \div 2^b) % 2 = 1}

\* Mutation of Get: the halves of a 64-bit element in the wrong order.
GetSwapped(m, addr, size) ==
    {i \in Low(8 * size) :
        (i % 8) \in m[ByteAddr(addr, size, (IF size = 8 THEN (i \div 8) + 4 ELSE i \div 8) % 8)]}

\* get_8 .. get_64, little endian.
Get(m, addr, size) ==
    {i \in Low(8 * size) : (i % 8) \in m[ByteAddr(addr, size, i \div 8)]}

\* The byte of an element of this size that is stored at address a.
ByteIndex(a, size) ==
    CHOOSE k \in 0 .. size - 1 : a = ByteAddr(a, size, k)

\* set_8 .. set_64.
Set(m, addr, size, v) ==
    [a \in RamAddrs |->
        IF a \ OffsetBits(size) = addr \ OffsetBits(size)
        THEN {b \in Low(8) : 8 * ByteIndex(a, size) + b \in v}
        ELSE m[a]]

RamTypeOK == mem \in [RamAddrs -> Byte]
=============================================================================
