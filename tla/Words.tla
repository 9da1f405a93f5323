------------------------------- MODULE Words -------------------------------
(***************************************************************************)
(* Machine words as sets of bit positions: the word whose bits 3 and 11    *)
(* are one is {3, 11}.  The C++ operators become set operators:            *)
(*     a | b   is  a \cup b          a & b   is  a \cap b                  *)
(*     a & ~b  is  a \ b             a ^ b   is  Xor(a, b)                 *)
(* so a bit mask is a set, and full 64-bit words cost TLC no more than the *)
(* bits that are set.  Addition is defined without recursion: a carry      *)
(* reaches position i when some lower position generates one and every     *)
(* position between passes it on.  Arithmetic is modulo 2^XLEN, as that of *)
(* std::uint64_t is for XLEN = 64.                                         *)
(***************************************************************************)
EXTENDS Integers

CONSTANTS XLEN,       \* width of a register: 64 in the program
          WLEN,       \* width of a word operation: 32 in the program
          SHBITS,     \* bits of a register shift amount (mask 0x3f): 6
          WSHBITS     \* bits of a word shift amount (mask 0x1f): 5

\* Both widths are powers of two and the shift amounts are their logarithms.
ASSUME WidthAssumption ==
    /\ XLEN \in Nat /\ WLEN \in Nat /\ SHBITS \in Nat /\ WSHBITS \in Nat
    /\ 0 < WLEN /\ WLEN < XLEN
    /\ XLEN = 2^SHBITS /\ WLEN = 2^WSHBITS

Bits == 0 .. XLEN - 1
Word == SUBSET Bits
SignBit == XLEN - 1

\* The n low bits: the mask (1 << n) - 1.
Low(n) == 0 .. n - 1
HalfWord == SUBSET Low(WLEN)

-----------------------------------------------------------------------------
Xor(a, b) == (a \ b) \cup (b \ a)

Carry(a, b, i) ==
    \E j \in a \cap b : j < i /\ (j + 1) .. (i - 1) \subseteq a \cup b
Plus(a, b) == {i \in Bits : ((i \in a) # (i \in b)) # Carry(a, b, i)}

Borrow(a, b, i) ==
    \E j \in b \ a : j < i /\ (j + 1) .. (i - 1) \cap (a \ b) = {}
Minus(a, b) == {i \in Bits : ((i \in a) # (i \in b)) # Borrow(a, b, i)}

\* Unsigned order: the highest bit in which the words differ is b's.
Ltu(a, b) == \E i \in b \ a : \A j \in a \ b : j < i
\* Mutation of Lt: the sign of the difference, which overflows.
LtByDifference(a, b) == SignBit \in Minus(a, b)
\* Two's complement order.
Lt(a, b) ==
    IF (SignBit \in a) # (SignBit \in b) THEN SignBit \in a ELSE Ltu(a, b)

\* a << n and a >> n for a number n of positions.
Sll(a, n) == {i \in Bits : i - n \in a}
Srl(a, n) == {i \in Bits : i + n \in a}

\* The n low bits of a, as zero- and as sign-extended to a register.
Zext(a, n) == a \cap Low(n)
Sext(a, n) ==
    (a \cap Low(n)) \cup (IF n - 1 \in a THEN n .. XLEN - 1 ELSE {})

\* Arithmetic right shift of the n-bit word a.
SraIn(a, n, k) ==
    {i \in Low(n) : i + k \in a \/ (i + k >= n /\ n - 1 \in a)}

\* Powers of two, and LowValue(a)[k], the number that the k low bits of a denote.
Power[n \in Nat] == IF n = 0 THEN 1 ELSE 2 * Power[n - 1]
LowValue(a) ==
    LET value[k \in Nat] ==
            IF k = 0 THEN 0 ELSE value[k - 1] + (IF k - 1 \in a THEN Power[k - 1] ELSE 0)
    IN  value

\* A shift amount: a masked with the k low bits, as a number.
Amount(a, k) == LowValue(a)[k]

\* C++'s conversion of a truth value to a word.
BoolWord(p) == IF p THEN {0} ELSE {}
=============================================================================
